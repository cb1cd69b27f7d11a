------------------------------ MODULE DuelPage ------------------------------
(***************************************************************************)
(* What one player, Me, sees of a duel: the page's reducer, fed by the     *)
(* socket and by one GET of the game, and the server's goroutines that     *)
(* announce guesses and answer SYNC_REQUEST.  How a game moves is modelled *)
(* in GameService; here it moves by whole transactions, and what is        *)
(* announced is cut where the announcing goroutine reads or writes.        *)
(*                                                                         *)
(* History: "mixed" says that the page may rightly differ from the         *)
(* database: a message to it was lost, results of Me were announced out of *)
(* order, or the last snapshot it was given was taken while a guess was    *)
(* being announced, outlived a transaction, or is followed by a turn of a  *)
(* game that had ended.                                                    *)
(***************************************************************************)
EXTENDS Integers, Sequences, Judge

CONSTANTS
  Me, Opp,
  Worker,            \* the worker that guesses for who lets a turn pass
  Numbers,           \* the numbers that are tried: sequences of digits
  Secret,            \* the number each player sets
  None,
  MaxTurn, MaxMishaps, MaxSends    \* bounds of the model

Players == {Me, Opp}
MyConns == 1 .. MaxMishaps + 1       \* the sockets of Me, one after another
Threads == MyConns \cup {Opp, Worker}  \* who can announce

ASSUME PlayersAssumption == Me # Opp /\ None \notin Players
ASSUME ThreadsAssumption == Opp # Worker /\ Opp \notin Nat /\ Worker \notin Nat
ASSUME PageBoundsAssumption ==
  MaxTurn \in Nat /\ MaxMishaps \in Nat /\ MaxSends \in Nat

-----------------------------------------------------------------------------
(* Numbers *)

ASSUME NumbersAssumption ==
  Secret \in [Players -> Numbers] /\ \A n \in Numbers : ValidateFourDigits(n)

VARIABLES
  game,      \* the row of games, and each player's rows of guesses by turn
  hidden,    \* who has set a number
  conn,      \* the socket of Me that is connected, 0 for none
  mishaps,   \* how many sockets were lost and announcements broken off
  inbox,     \* what the page sent on each socket
  wire,      \* what is on its way to the page
  thread,    \* what each goroutine is doing, and its locals
  load,      \* the GET of the game
  page,      \* GameViewState, and whether the page was left
  sends, mixed

vars == <<game, hidden, conn, mishaps, inbox, wire, thread, load, page, sends, mixed>>

server == <<game, hidden>>
socket == <<conn, mishaps, inbox>>

Other(p) == IF p = Me THEN Opp ELSE Me

Row == [status |-> "WAITING_SECRET", turn |-> 0, current |-> None]
(* What a goroutine keeps: the game it read back, whose and which guess it *)
(* announces, its snapshot.                                                *)
Idle == [pc |-> "idle", game |-> Row, by |-> None, nth |-> 0,
         view |-> Row, mine |-> <<>>, count |-> 0, clean |-> FALSE]

(* createInitialGameState *)
InitialPage ==
  [game |-> Row, mine |-> <<>>, opp |-> 0, submitted |-> FALSE,
   over |-> FALSE, loading |-> TRUE, left |-> FALSE]

Init ==
  /\ \E p \in Players : game = [row |-> Row, first |-> p, guesses |-> [q \in Players |-> <<>>]]
  /\ hidden = {}
  /\ conn = 1 /\ mishaps = 0
  /\ inbox = [c \in MyConns |-> IF c = 1 THEN <<[type |-> "SYNC_REQUEST"]>> ELSE <<>>]
  /\ wire = <<>>
  /\ thread = [t \in Threads |-> Idle]
  /\ load = [Idle EXCEPT !.pc = "game"]
  /\ page = InitialPage
  /\ sends = 0 /\ mixed = TRUE

-----------------------------------------------------------------------------
(* The server's view of a player *)

ListByPlayer(p) == game.guesses[p]

CountExcludingPlayer(p) == Len(game.guesses[Other(p)])

(* SYNC_REQUEST alone announces nothing. *)
Announcing(t) ==
  thread[t].game # Row \/ thread[t].pc \in {"read", "result", "over", "turn", "start"}
NobodyAnnounces(but) == \A t \in Threads \ but : ~Announcing(t)

(* buildGameState reads the game, then the guesses.  It counts the guesses *)
(* of everybody but the opponent.                                          *)
ReadGame(local, clean) ==
  [local EXCEPT !.pc = "guesses", !.view = game.row, !.clean = clean]
ReadGuesses(local) ==
  [local EXCEPT !.pc = "send", !.mine = ListByPlayer(Me),
                !.count = CountExcludingPlayer(Opp)]

(* A transaction that changes the game spoils the snapshots under way. *)
Spoil(local) == [local EXCEPT !.clean = FALSE]
SpoiltWire == [i \in DOMAIN wire |->
                 IF wire[i].type = "SYNC" THEN [wire[i] EXCEPT !.clean = FALSE] ELSE wire[i]]
Changes(t, local) ==
  /\ thread' = [u \in Threads |-> IF u = t THEN local ELSE Spoil(thread[u])]
  /\ load' = Spoil(load)
  /\ wire' = SpoiltWire

(* SendToUser: nothing is kept for who is not connected. *)
Send(msg) ==
  IF conn = 0 THEN UNCHANGED wire ELSE wire' = Append(wire, msg)

Snapshot(local) ==
  [type |-> "SYNC", game |-> local.view, mine |-> local.mine,
   count |-> local.count, clean |-> local.clean]

-----------------------------------------------------------------------------
(* Transactions *)

(* SetSecretNumber: the second number starts the game. *)
SetSecret(t, p) ==
  /\ p \notin hidden /\ game.row.status = "WAITING_SECRET"
  /\ hidden' = hidden \cup {p}
  /\ IF Other(p) \notin hidden
     THEN UNCHANGED <<game, thread, load, wire>>
     ELSE /\ game' = [game EXCEPT !.row = [status |-> "IN_PROGRESS", turn |-> 1,
                                           current |-> game.first]]
          /\ Changes(t, [Idle EXCEPT !.pc = "start"])

(* The slot a number is hashed for *)
Slot(p) == IF p = Me THEN 1 ELSE 2

(* SubmitGuess of the player whose turn it is.  The turn passes to the     *)
(* opponent on a winning guess, too, and stays there.                      *)
SubmitGuess(t, p, n, auto) ==
  LET opponent == Other(p)
      digits == Verify(Hash(Secret[opponent], Slot(opponent)), n, Slot(opponent))
      turn == game.row.turn
  IN /\ game.row.status = "IN_PROGRESS" /\ game.row.current = p /\ turn <= MaxTurn
     /\ game' = [game EXCEPT
          !.guesses[p] = Append(@, [digits |-> digits, auto |-> auto]),
          !.row = [status |-> IF IsWin(digits) THEN "FINISHED" ELSE "IN_PROGRESS",
                   turn |-> turn + 1, current |-> opponent]]
     /\ Changes(t, [Idle EXCEPT !.pc = "read", !.by = p, !.nth = Len(game.guesses[p]) + 1])
     /\ UNCHANGED hidden

(* CancelBySecretTimeout *)
Cancel ==
  /\ thread[Worker].pc = "idle" /\ game.row.status = "WAITING_SECRET"
  /\ game' = [game EXCEPT !.row.status = "FINISHED"]
  /\ Changes(Worker, [Idle EXCEPT !.pc = "over"])
  /\ UNCHANGED <<hidden, socket, page, sends, mixed>>

OppActs ==
  /\ thread[Opp].pc = "idle"
  /\ SetSecret(Opp, Opp) \/ \E n \in Numbers : SubmitGuess(Opp, Opp, n, FALSE)
  /\ UNCHANGED <<socket, page, sends, mixed>>

AutoGuess ==
  /\ thread[Worker].pc = "idle"
  /\ \E p \in Players, n \in Numbers : SubmitGuess(Worker, p, n, TRUE)
  /\ UNCHANGED <<socket, page, sends, mixed>>

(* The read loop of a socket of Me takes the next message; a use case that *)
(* refuses (not the turn of Me, the lock still held, the game over, an     *)
(* error of the database) answers with an ERROR, which the page only       *)
(* shows: the code for a game that is over is "conflict" on the socket.    *)
TakeMessage(c) ==
  /\ thread[c].pc = "idle" /\ inbox[c] # <<>>
  /\ inbox' = [inbox EXCEPT ![c] = Tail(@)]
  /\ LET msg == Head(inbox[c])
     IN \/ /\ msg.type = "SYNC_REQUEST"
           /\ thread' = [thread EXCEPT ![c] = ReadGame(Idle, NobodyAnnounces({}))]
           /\ UNCHANGED <<server, wire, load>>
        \/ /\ msg.type = "SET_SECRET"
           /\ SetSecret(c, Me)
        \/ /\ msg.type = "GUESS"
           /\ SubmitGuess(c, Me, msg.number, FALSE)
        \/ UNCHANGED <<server, wire, thread, load>>
  /\ UNCHANGED <<conn, mishaps, page, sends, mixed>>

-----------------------------------------------------------------------------
(* Announcing *)

Goto(t, l) == thread' = [thread EXCEPT ![t].pc = l]

(* A message to Me that nobody receives is missed. *)
Tell(msg) == Send(msg) /\ mixed' = (mixed \/ conn = 0)

(* notifyGuessResult and notifyGameStart read the game again, then send.   *)
ReadBack(t) ==
  /\ thread[t].pc \in {"read", "start"}
  /\ thread' = [thread EXCEPT ![t].game = game.row,
                  ![t].pc = IF thread[t].pc = "read" THEN "result" ELSE "game"]
  /\ UNCHANGED <<server, socket, wire, load, page, sends, mixed>>

(* The guess t announces, as the page shows it *)
Announced(t) == game.guesses[thread[t].by][thread[t].nth]
Wins(t) == IsWin(Announced(t).digits)

(* A guess of Me that has not been announced *)
Unannounced(t) == thread[t].pc \in {"read", "result"} /\ thread[t].by = Me

(* A guess of Me is announced before an earlier one. *)
Overtakes(t) ==
  thread[t].by = Me /\ \E u \in Threads : Unannounced(u) /\ thread[u].nth < thread[t].nth

(* Mutant: after a winning guess nobody is next. *)
ResultUnlessWon(t) ==
  [type |-> "RESULT", by |-> thread[t].by, nth |-> thread[t].nth, guess |-> Announced(t),
   next |-> IF Wins(t) THEN None ELSE Other(thread[t].by)]

Result(t) ==
  [type |-> "RESULT", by |-> thread[t].by, nth |-> thread[t].nth, guess |-> Announced(t),
   next |-> Other(thread[t].by)]

TellGuess(t) == Send(Result(t)) /\ mixed' = (mixed \/ conn = 0 \/ Overtakes(t))

(* Mutant: a winning guess is announced like any other. *)
TellResultOnly(t) ==
  /\ thread[t].pc = "result"
  /\ TellGuess(t)
  /\ Goto(t, "turn")
  /\ UNCHANGED <<server, socket, load, page, sends>>

TellResult(t) ==
  /\ thread[t].pc = "result"
  /\ TellGuess(t)
  /\ Goto(t, IF Wins(t) THEN "over" ELSE "turn")
  /\ UNCHANGED <<server, socket, load, page, sends>>

(* notifyTurnChanged looks whether there is a turn player, not whether the *)
(* game is over.                                                           *)
TellTurn(t) ==
  /\ thread[t].pc = "turn"
  /\ IF thread[t].game.current = None
     THEN UNCHANGED <<wire, mixed>>
     ELSE Tell([type |-> "TURN", turn |-> thread[t].game.turn,
                current |-> thread[t].game.current])
  /\ thread' = [thread EXCEPT ![t] = Idle]
  /\ UNCHANGED <<server, socket, load, page, sends>>

TellOver(t) ==
  /\ thread[t].pc = "over"
  /\ Tell([type |-> "OVER"])
  /\ thread' = [thread EXCEPT ![t] = Idle]
  /\ UNCHANGED <<server, socket, load, page, sends>>

(* An activity log, the timer or a read fails: the rest is never sent. *)
AnnounceFails(t) ==
  /\ Announcing(t) /\ mishaps < MaxMishaps
  /\ mishaps' = mishaps + 1 /\ mixed' = TRUE
  /\ thread' = [thread EXCEPT ![t] = Idle]
  /\ UNCHANGED <<server, conn, inbox, wire, load, page, sends>>

-----------------------------------------------------------------------------
(* Snapshots: SyncGameState and notifyGameStart through the socket, one    *)
(* GET at the start.                                                       *)

(* The turn that notifyGameStart announces next puts a page back that its  *)
(* snapshot told of the end.                                               *)
BuildState(t) ==
  /\ \/ thread[t].pc = "game"
        /\ thread' = [thread EXCEPT ![t] =
             ReadGame(@, /\ NobodyAnnounces({t}) /\ @.game = game.row
                         /\ game.row.status # "FINISHED")]
     \/ thread[t].pc = "guesses" /\ thread' = [thread EXCEPT ![t] = ReadGuesses(@)]
  /\ UNCHANGED <<server, socket, wire, load, page, sends, mixed>>

SendState(t) ==
  /\ thread[t].pc = "send"
  /\ Send(Snapshot(thread[t]))
  /\ IF thread[t].game = Row THEN thread' = [thread EXCEPT ![t] = Idle] ELSE Goto(t, "turn")
  /\ UNCHANGED <<server, socket, load, page, sends, mixed>>

LoadReads ==
  /\ \/ load.pc = "game"
        /\ load' = ReadGame(load, /\ NobodyAnnounces({})
                                  /\ \A i \in DOMAIN wire : wire[i].type # "RESULT")
     \/ load.pc = "guesses" /\ load' = ReadGuesses(load)
  /\ UNCHANGED <<server, socket, wire, thread, page, sends, mixed>>

LoadFails ==
  /\ load.pc = "game"
  /\ load' = [load EXCEPT !.pc = "idle"]
  /\ UNCHANGED <<server, socket, wire, thread, page, sends, mixed>>

-----------------------------------------------------------------------------
(* The page *)

(* Mutant: a snapshot's guesses are added to those that are shown. *)
SetStateAdding(view, snap) ==
  [view EXCEPT !.game = snap.game, !.mine = @ \o snap.mine, !.opp = snap.count,
               !.loading = FALSE, !.over = @ /\ snap.game.status = "FINISHED"]

(* mapGameState *)
SetState(view, snap) ==
  [view EXCEPT !.game = snap.game, !.mine = snap.mine, !.opp = snap.count,
               !.loading = FALSE, !.over = @ /\ snap.game.status = "FINISHED"]

(* Mutant: whose result it is is not looked at. *)
GuessResultOfAnybody(view, msg) ==
  [view EXCEPT !.mine = Append(@, msg.guess), !.game.current = msg.next]

(* Mutant: the newest guess is put first. *)
GuessResultFirst(view, msg) ==
  IF msg.by = Me
  THEN [view EXCEPT !.mine = <<msg.guess>> \o @, !.game.current = msg.next]
  ELSE [view EXCEPT !.opp = @ + 1]

(* gameReducer, GUESS_RESULT *)
GuessResult(view, msg) ==
  IF msg.by = Me
  THEN [view EXCEPT !.mine = Append(@, msg.guess), !.game.current = msg.next]
  ELSE [view EXCEPT !.opp = @ + 1]

(* gameReducer and the subscription of useGamePage *)
Reduce(view, msg) ==
  CASE msg.type = "SYNC" -> SetState(view, msg)
    [] msg.type = "TURN" -> [view EXCEPT !.game = [status |-> "IN_PROGRESS",
                               turn |-> msg.turn, current |-> msg.current]]
    [] msg.type = "RESULT" -> GuessResult(view, msg)
    [] msg.type = "OVER" -> [view EXCEPT !.game.status = "FINISHED", !.over = TRUE]

Receive ==
  /\ wire # <<>>
  /\ wire' = Tail(wire)
  /\ LET msg == Head(wire)
     IN /\ page' = IF page.left THEN page ELSE Reduce(page, msg)
        /\ mixed' = IF msg.type = "SYNC" THEN ~msg.clean ELSE mixed
  /\ UNCHANGED <<server, socket, thread, load, sends>>

(* A game that is loaded finished shows its result. *)
LoadArrives ==
  /\ load.pc = "send"
  /\ load' = [load EXCEPT !.pc = "idle"]
  /\ LET view == SetState(page, Snapshot(load))
     IN page' = IF page.left THEN page
                ELSE [view EXCEPT !.over = @ \/ view.game.status = "FINISHED"]
  /\ mixed' = ~load.clean
  /\ UNCHANGED <<server, socket, wire, thread, sends>>

Post(msg) == IF conn = 0 THEN UNCHANGED inbox ELSE inbox' = [inbox EXCEPT ![conn] = Append(@, msg)]

(* submitCurrentInput, on a page whose input is shown and enabled *)
Submit ==
  /\ ~page.left /\ ~page.loading /\ ~page.over /\ sends < MaxSends
  /\ \/ /\ page.game.status = "WAITING_SECRET" /\ ~page.submitted
        /\ page' = [page EXCEPT !.submitted = TRUE]
        /\ Post([type |-> "SET_SECRET"])
     \/ /\ page.game.status = "IN_PROGRESS" /\ page.game.current = Me
        /\ \E n \in Numbers : Post([type |-> "GUESS", number |-> n])
        /\ UNCHANGED page
  /\ sends' = sends + 1
  /\ UNCHANGED <<server, conn, mishaps, wire, thread, load, mixed>>

(* closeResult *)
Leave ==
  /\ page.over /\ ~page.left
  /\ page' = [page EXCEPT !.left = TRUE, !.over = FALSE]
  /\ UNCHANGED <<server, socket, wire, thread, load, sends, mixed>>

(* The socket is lost with what was on its way; what the page sent may     *)
(* still be read.                                                          *)
Drop ==
  /\ conn # 0 /\ mishaps < MaxMishaps
  /\ conn' = 0 /\ mishaps' = mishaps + 1
  /\ wire' = <<>> /\ mixed' = (mixed \/ wire # <<>>)
  /\ \E kept \in {inbox[conn], <<>>} : inbox' = [inbox EXCEPT ![conn] = kept]
  /\ UNCHANGED <<server, thread, load, page, sends>>

Reconnect ==
  /\ conn = 0 /\ ~page.left
  /\ conn' = mishaps + 1
  /\ inbox' = [inbox EXCEPT ![mishaps + 1] = <<[type |-> "SYNC_REQUEST"]>>]
  /\ UNCHANGED <<server, mishaps, wire, thread, load, page, sends, mixed>>

ThreadStep(t) ==
  \/ ReadBack(t)
  \/ TellResult(t)
  \/ TellTurn(t)
  \/ TellOver(t)
  \/ AnnounceFails(t)
  \/ BuildState(t)
  \/ SendState(t)

Next ==
  \/ Cancel \/ OppActs \/ AutoGuess
  \/ \E c \in MyConns : TakeMessage(c)
  \/ \E t \in Threads : ThreadStep(t)
  \/ LoadReads \/ LoadFails \/ LoadArrives
  \/ Receive \/ Submit \/ Leave
  \/ Drop \/ Reconnect

Spec == Init /\ [][Next]_vars

-----------------------------------------------------------------------------
(* Properties *)

GameStatus == {"WAITING_SECRET", "IN_PROGRESS", "FINISHED"}
DigitResult == {0, 1}
Rows == [status : GameStatus, turn : 0 .. MaxTurn + 1, current : Players \cup {None}]
Digits == UNION {[DOMAIN n -> DigitResult] : n \in Numbers}
Guesses == [digits : Digits, auto : BOOLEAN]
Shown == Seq(Guesses)
Locals == [pc : {"idle", "read", "result", "over", "turn", "start", "game", "guesses", "send"},
           game : Rows, by : Players \cup {None}, nth : Nat, view : Rows, mine : Shown,
           count : Nat, clean : BOOLEAN]
Messages ==
  [type : {"SYNC"}, game : Rows, mine : Shown, count : Nat, clean : BOOLEAN]
    \cup [type : {"TURN"}, turn : 1 .. MaxTurn + 1, current : Players]
    \cup [type : {"RESULT"}, by : Players, nth : Nat, guess : Guesses,
          next : Players]
    \cup [type : {"OVER"}]
Requests == [type : {"SYNC_REQUEST", "SET_SECRET"}] \cup [type : {"GUESS"}, number : Numbers]
Pages == [game : Rows, mine : Shown, opp : Nat, submitted : BOOLEAN,
          over : BOOLEAN, loading : BOOLEAN, left : BOOLEAN]

(* Every variable stays in its type; a TURN_CHANGED names a player, and so *)
(* does a GUESS_RESULT, whatever the guess (game_play.go:171-173).         *)
TypeOK ==
  /\ game \in [row : Rows, first : Players, guesses : [Players -> Shown]]
  /\ hidden \in SUBSET Players
  /\ conn \in 0 .. MaxMishaps + 1 /\ mishaps \in 0 .. MaxMishaps
  /\ inbox \in [MyConns -> Seq(Requests)]
  /\ wire \in Seq(Messages)
  /\ thread \in [Threads -> Locals] /\ load \in Locals
  /\ page \in Pages
  /\ sends \in 0 .. MaxSends /\ mixed \in BOOLEAN

(* Nothing is on its way to a page that should be up to date. *)
Settled ==
  /\ ~mixed /\ ~page.left /\ conn # 0
  /\ wire = <<>> /\ load.pc = "idle"
  /\ \A t \in Threads : thread[t].pc = "idle"

(* useGameState.tsx:88-109: however snapshots and results are interleaved, *)
(* a settled page shows each guess of Me once, in order, with its hits.    *)
GuessesShown == Settled => page.mine = ListByPlayer(Me)

(* useGameState.tsx:80-87, 110-115: a settled page knows that the game is  *)
(* over, although turns may be announced after the end.                    *)
EndShown ==
  Settled /\ game.row.status = "FINISHED" => page.over \/ page.game.status = "FINISHED"

(* GamePage.tsx:67: the number after the word for the opponent is the      *)
(* number of the opponent's guesses.                                       *)
OpponentCountShown ==
  Settled /\ page.game.status = "IN_PROGRESS" /\ game.row.status = "IN_PROGRESS"
    => page.opp = CountExcludingPlayer(Me)
=============================================================================
