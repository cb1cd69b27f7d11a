--------------------------- MODULE DuelPageProofs ---------------------------
(***************************************************************************)
(* Proofs about DuelPage: for any numbers, any number of turns, of lost    *)
(* sockets and of announcements broken off, a settled page shows each      *)
(* guess of its player once, in order, and knows when the game is over.    *)
(*                                                                         *)
(* What the page will show is what it shows, what is on the wire and what  *)
(* has not been announced (InStep, EndComes); a snapshot that is "clean"   *)
(* makes up for whatever came before it (Snapshots).                       *)
(***************************************************************************)
EXTENDS DuelPage, SequenceTheorems, TLAPS

USE PlayersAssumption, ThreadsAssumption, PageBoundsAssumption, NumbersAssumption

-----------------------------------------------------------------------------
(* The invariant *)

(* A turn that somebody has is a turn of a game that has started, and what *)
(* is to be announced is a guess that was made.                            *)
HasTurn(row) == row.current # None => row.status # "WAITING_SECRET" /\ row.turn > 0
Made(t) ==
  thread[t].pc \in {"read", "result"} =>
    thread[t].by \in Players /\ thread[t].nth \in DOMAIN game.guesses[thread[t].by]
TypeInv ==
  /\ TypeOK
  /\ HasTurn(game.row)
  /\ \A t \in Threads : HasTurn(thread[t].game) /\ Made(t)

(* Guesses of Me on the wire *)
Results == {i \in DOMAIN wire : wire[i].type = "RESULT" /\ wire[i].by = Me}
Mine == game.guesses[Me]

(* Nothing that is going to be announced changes what a snapshot that is   *)
(* up to date shows: no guess of Me and, once the game is over, no turn.   *)
Calm ==
  /\ \A t \in Threads : ~Unannounced(t)
  /\ game.row.status = "FINISHED" => \A t \in Threads : ~Announcing(t)

(* A clean snapshot, wherever it is, is up to date.                        *)
UpToDate(local) ==
  local.clean => /\ local.pc \in {"guesses", "send"} => local.view = game.row /\ Calm
                 /\ local.pc = "send" => local.mine = Mine
CleanAt(i) == wire[i].type = "SYNC" /\ wire[i].clean
Snapshots ==
  /\ \A t \in Threads : UpToDate(thread[t])
  /\ UpToDate(load)
  /\ load.clean /\ load.pc \in {"guesses", "send"} => Results = {}
  /\ \A i \in DOMAIN wire : CleanAt(i) =>
       /\ wire[i].game = game.row /\ wire[i].mine = Mine /\ Calm
       /\ \A j \in DOMAIN wire : j > i =>
            j \notin Results /\ (game.row.status = "FINISHED" => wire[j].type # "TURN")

(* The guesses of Me are divided, in order, into those shown, those on the *)
(* wire and those that have not been announced.                            *)
Genuine == \A i \in Results : wire[i].nth \in DOMAIN Mine /\ wire[i].guess = Mine[wire[i].nth]
Apart ==
  \A t, u \in Threads : Unannounced(t) /\ Unannounced(u) /\ t # u => thread[t].nth # thread[u].nth
InStep ==
  LET k == Len(page.mine)
  IN /\ k <= Len(Mine) /\ \A i \in 1 .. k : page.mine[i] = Mine[i]
     /\ \A i \in Results : /\ k < wire[i].nth
                           /\ \A j \in Results : i < j => wire[i].nth < wire[j].nth
     /\ \A t \in Threads : Unannounced(t) =>
          k < thread[t].nth /\ \A i \in Results : wire[i].nth < thread[t].nth
     /\ \A n \in k + 1 .. Len(Mine) : \/ \E i \in Results : wire[i].nth = n
                                      \/ \E t \in Threads : Unannounced(t) /\ thread[t].nth = n
GuessInv == Genuine /\ Apart /\ (~mixed /\ ~page.left => InStep)

(* When the game is over, the page knows, or GAME_OVER is on its way.      *)
Informed ==
  \/ page.over
  \/ /\ page.game.status = "FINISHED"
     /\ \A i \in DOMAIN wire : wire[i].type # "TURN"
     /\ \A t \in Threads : ~Announcing(t)
Ends(t) == thread[t].pc = "over" \/ (thread[t].pc \in {"read", "result"} /\ Wins(t))
EndComes == (\E i \in DOMAIN wire : wire[i].type = "OVER") \/ \E t \in Threads : Ends(t)
EndInv == game.row.status = "FINISHED" /\ ~mixed /\ ~page.left => Informed \/ EndComes

-----------------------------------------------------------------------------
(* The wire *)

(* What a sequence is after a message has been added to it, or taken.      *)
LEMMA Appended ==
  ASSUME NEW S, NEW s \in Seq(S), NEW msg
  PROVE  LET n == Len(s) + 1
             after == Append(s, msg)
         IN /\ DOMAIN s = 1 .. n - 1 /\ DOMAIN after = 1 .. n /\ n \in Nat \ {0} /\ Len(after) = n
            /\ after[n] = msg /\ \A i \in 1 .. n - 1 : after[i] = s[i]
            /\ msg \in S => after \in Seq(S)
<1>1. s \in Seq(S \cup {msg})
  BY SeqDef
<1>2. /\ Append(s, msg) \in Seq(S \cup {msg}) /\ Len(Append(s, msg)) = Len(s) + 1
      /\ \A i \in 1 .. Len(s) : Append(s, msg)[i] = s[i]
      /\ Append(s, msg)[Len(s) + 1] = msg
  BY <1>1, AppendProperties
<1>3. Len(s) \in Nat /\ DOMAIN s = 1 .. Len(s)
  BY LenProperties
<1>4. DOMAIN Append(s, msg) = 1 .. Len(s) + 1
  BY <1>2, LenProperties
<1>5. msg \in S => Append(s, msg) \in Seq(S)
  BY AppendProperties
<1> QED
  BY <1>2, <1>3, <1>4, <1>5

LEMMA Taken ==
  ASSUME NEW S, NEW s \in Seq(S), s # <<>>
  PROVE  /\ Tail(s) \in Seq(S) /\ Head(s) = s[1] /\ Head(s) \in S /\ 1 \in DOMAIN s
         /\ \A i \in DOMAIN Tail(s) : i + 1 \in DOMAIN s /\ Tail(s)[i] = s[i + 1] /\ i \in Nat
         /\ \A i \in DOMAIN s : i \in Nat /\ (i # 1 => i > 1 /\ i - 1 \in DOMAIN Tail(s))
<1>1. /\ Tail(s) \in Seq(S) /\ Len(Tail(s)) = Len(s) - 1
      /\ \A i \in 1 .. Len(Tail(s)) : Tail(s)[i] = s[i + 1]
      /\ Head(s) = s[1] /\ Head(s) \in S
  BY HeadTailProperties
<1>2. Len(s) \in Nat /\ DOMAIN s = 1 .. Len(s) /\ DOMAIN Tail(s) = 1 .. Len(Tail(s)) /\ Len(s) # 0
  BY <1>1, LenProperties, EmptySeq
<1> QED
  BY <1>1, <1>2

-----------------------------------------------------------------------------
(* Types *)

(* The row of a new game is a row, and an idle goroutine has locals.       *)
LEMMA RowFacts ==
  /\ Row \in Rows /\ HasTurn(Row) /\ Row.current = None /\ Row.status = "WAITING_SECRET"
  /\ Idle \in Locals /\ Idle.pc = "idle" /\ Idle.game = Row /\ ~Idle.clean
<1>1. Row \in Rows /\ HasTurn(Row) /\ Row.current = None /\ Row.status = "WAITING_SECRET"
  BY DEF Row, Rows, GameStatus, HasTurn
<1>2. <<>> \in Shown
  BY DEF Shown
<1> QED
  BY <1>1, <1>2 DEF Idle, Locals

(* What a record of each type on the wire has.                             *)
LEMMA MessageFacts ==
  ASSUME NEW m \in Messages
  PROVE  /\ m.type \in {"SYNC", "TURN", "RESULT", "OVER"}
         /\ m.type = "SYNC" => /\ m.game \in Rows /\ m.mine \in Shown /\ m.count \in Nat
                               /\ m.clean \in BOOLEAN
                               /\ [m EXCEPT !.clean = FALSE] \in Messages
                               /\ [m EXCEPT !.clean = FALSE].type = "SYNC"
                               /\ ~[m EXCEPT !.clean = FALSE].clean
         /\ m.type = "TURN" => m.turn \in 1 .. MaxTurn + 1 /\ m.current \in Players
         /\ m.type = "RESULT" => /\ m.by \in Players /\ m.nth \in Nat /\ m.guess \in Guesses
                                 /\ m.next \in Players
BY DEF Messages

(* The parts of the type invariant that the steps below use.               *)
LEMMA Parts ==
  ASSUME TypeOK
  PROVE  /\ game.row \in Rows /\ game.first \in Players /\ game.guesses \in [Players -> Shown]
         /\ game = [row |-> game.row, first |-> game.first, guesses |-> game.guesses]
         /\ Mine \in Shown /\ Mine \in Seq(Guesses)
         /\ wire \in Seq(Messages)
         /\ thread \in [Threads -> Locals] /\ load \in Locals
         /\ Opp \in Threads /\ Worker \in Threads /\ MyConns \subseteq Threads
         /\ \A t \in Threads : thread[t].game \in Rows
<1>1. game \in [row : Rows, first : Players, guesses : [Players -> Shown]]
  BY DEF TypeOK
<1>2. Mine \in Shown
  BY <1>1 DEF Mine, Players
<1>3. wire \in Seq(Messages) /\ thread \in [Threads -> Locals] /\ load \in Locals
  BY DEF TypeOK
<1>4. \A t \in Threads : thread[t].game \in Rows
  BY <1>3 DEF Locals
<1>5. Opp \in Threads /\ Worker \in Threads /\ MyConns \subseteq Threads
  BY DEF Threads
<1> QED
  BY <1>1, <1>2, <1>3, <1>4, <1>5 DEF Shown

(* Of a message that is sent to somebody, or to nobody                     *)
LEMMA SendType ==
  ASSUME TypeOK, NEW m \in Messages, Send(m)
  PROVE  wire' \in Seq(Messages)
<1>1. wire \in Seq(Messages)
  BY Parts
<1> QED
  BY <1>1, AppendProperties DEF Send

(* A goroutine that goes on leaves the others where they are.              *)
LEMMA ThreadType ==
  ASSUME TypeInv, NEW t \in Threads, NEW local \in Locals,
         thread' = [thread EXCEPT ![t] = local], UNCHANGED game,
         HasTurn(local.game),
         local.pc \in {"read", "result"} =>
           /\ thread[t].pc \in {"read", "result"}
           /\ local.by = thread[t].by /\ local.nth = thread[t].nth
  PROVE  /\ thread' \in [Threads -> Locals]
         /\ \A u \in Threads : HasTurn(thread'[u].game) /\ Made(u)'
         /\ HasTurn(game'.row)
BY Parts DEF TypeInv, Made, HasTurn

(* What is left of a snapshot's locals when it is spoilt.                  *)
LEMMA SpoilFacts ==
  ASSUME NEW local \in Locals
  PROVE  /\ Spoil(local) \in Locals /\ ~Spoil(local).clean
         /\ Spoil(local).pc = local.pc /\ Spoil(local).game = local.game
         /\ Spoil(local).by = local.by /\ Spoil(local).nth = local.nth
BY DEF Spoil, Locals

(* What a transaction does to everything that is under way.                *)
Spoils(t, local) ==
  /\ thread' \in [Threads -> Locals] /\ thread'[t] = local
  /\ \A u \in Threads \ {t} : thread'[u] = Spoil(thread[u])
  /\ load' \in Locals /\ ~load'.clean
  /\ wire' \in Seq(Messages) /\ DOMAIN wire' = DOMAIN wire
  /\ \A i \in DOMAIN wire : /\ wire'[i].type = wire[i].type
                            /\ wire[i].type # "SYNC" => wire'[i] = wire[i]
                            /\ wire'[i].type = "SYNC" => ~wire'[i].clean

LEMMA ChangesEffect ==
  ASSUME TypeOK, NEW t \in Threads, NEW local \in Locals, Changes(t, local)
  PROVE  Spoils(t, local)
<1>1. /\ thread' = [u \in Threads |-> IF u = t THEN local ELSE Spoil(thread[u])]
      /\ load' = Spoil(load) /\ wire' = SpoiltWire
  BY DEF Changes
<1>2. thread' \in [Threads -> Locals]
  BY <1>1, Parts, SpoilFacts
<1>3. load' \in Locals /\ ~load'.clean
  BY <1>1, Parts, SpoilFacts
<1>4. wire \in Seq(Messages) /\ Len(wire) \in Nat /\ DOMAIN wire = 1 .. Len(wire)
  BY Parts, LenProperties
<1>5. ASSUME NEW i \in DOMAIN wire
      PROVE  /\ wire'[i] \in Messages /\ wire'[i].type = wire[i].type
             /\ wire[i].type # "SYNC" => wire'[i] = wire[i]
             /\ wire'[i].type = "SYNC" => ~wire'[i].clean
  <2>1. wire[i] \in Messages
    BY <1>4, ElementOfSeq
  <2>2. wire'[i] = IF wire[i].type = "SYNC" THEN [wire[i] EXCEPT !.clean = FALSE] ELSE wire[i]
    BY <1>1 DEF SpoiltWire
  <2> QED
    BY <2>1, <2>2, MessageFacts
<1>6. DOMAIN wire' = DOMAIN wire
  BY <1>1 DEF SpoiltWire
<1>7. wire' \in Seq(Messages)
  <2>1. wire' \in [1 .. Len(wire) -> Messages]
    BY <1>1, <1>4, <1>5, <1>6 DEF SpoiltWire
  <2> QED
    BY <1>4, <2>1, SeqDef
<1> QED
  BY <1>1, <1>2, <1>3, <1>5, <1>6, <1>7 DEF Spoils

(* The transactions that change the game, and what is announced of them.   *)
Begins(local) ==
  /\ local.pc = "start" /\ game'.guesses = game.guesses
  /\ game.row.status = "WAITING_SECRET" /\ game'.row.status = "IN_PROGRESS"
Plays(local, p, g) ==
  /\ local.pc = "read" /\ local.by = p /\ local.nth = Len(game.guesses[p]) + 1
  /\ game'.guesses = [game.guesses EXCEPT ![p] = Append(@, g)]
  /\ game.row.status = "IN_PROGRESS"
  /\ game'.row.status = "FINISHED" => IsWin(g.digits)
CallsOff(local) ==
  /\ local.pc = "over" /\ game'.guesses = game.guesses
  /\ game.row.status = "WAITING_SECRET" /\ game'.row.status = "FINISHED"
Transaction(t) ==
  \E local \in Locals :
    /\ thread[t].pc = "idle" /\ local.game = Row /\ ~local.clean
    /\ Spoils(t, local) /\ UNCHANGED <<page, mixed>>
    /\ game' \in [row : Rows, first : Players, guesses : [Players -> Shown]]
    /\ HasTurn(game'.row)
    /\ \/ Begins(local) \/ CallsOff(local)
       \/ \E p \in Players, g \in Guesses : Plays(local, p, g)

LEMMA SetSecretEffect ==
  ASSUME TypeInv, NEW t \in Threads, thread[t].pc = "idle", NEW p \in Players,
         SetSecret(t, p), UNCHANGED <<page, mixed>>
  PROVE  /\ UNCHANGED <<game, thread, load, wire>> \/ Transaction(t)
         /\ hidden' \in SUBSET Players
<1>0. TypeOK
  BY DEF TypeInv
<1>1. hidden' \in SUBSET Players
  BY <1>0 DEF TypeOK, SetSecret
<1>2. CASE Other(p) \in hidden
  <2> DEFINE local == [Idle EXCEPT !.pc = "start"]
             row == [status |-> "IN_PROGRESS", turn |-> 1, current |-> game.first]
  <2>1. Changes(t, local) /\ game' = [game EXCEPT !.row = row] /\ game.row.status = "WAITING_SECRET"
    BY <1>2 DEF SetSecret
  <2>2. local \in Locals /\ local.pc = "start" /\ local.game = Row /\ ~local.clean
    BY RowFacts DEF Locals
  <2>3. row \in Rows /\ row.status = "IN_PROGRESS" /\ HasTurn(row)
    BY <1>0, Parts DEF Rows, GameStatus, HasTurn
  <2> HIDE DEF local, row
  <2>4. /\ game' \in [row : Rows, first : Players, guesses : [Players -> Shown]]
        /\ game'.row = row /\ game'.guesses = game.guesses
    BY <1>0, <2>1, <2>3, Parts
  <2>5. Spoils(t, local)
    BY <1>0, <2>1, <2>2, ChangesEffect
  <2> QED
    BY <1>1, <2>1, <2>2, <2>3, <2>4, <2>5 DEF Transaction, Begins
<1> QED
  BY <1>1, <1>2 DEF SetSecret

LEMMA SubmitGuessEffect ==
  ASSUME TypeInv, NEW t \in Threads, thread[t].pc = "idle", NEW p \in Players,
         NEW n \in Numbers, NEW auto \in BOOLEAN,
         SubmitGuess(t, p, n, auto), UNCHANGED <<page, mixed>>
  PROVE  Transaction(t) /\ hidden' = hidden
<1> DEFINE opponent == Other(p)
           digits == Verify(Hash(Secret[opponent], Slot(opponent)), n, Slot(opponent))
           g == [digits |-> digits, auto |-> auto]
           turn == game.row.turn
           nth == Len(game.guesses[p]) + 1
           local == [Idle EXCEPT !.pc = "read", !.by = p, !.nth = nth]
           row == [status |-> IF IsWin(digits) THEN "FINISHED" ELSE "IN_PROGRESS",
                   turn |-> turn + 1, current |-> opponent]
<1>0. TypeOK /\ HasTurn(game.row)
  BY DEF TypeInv
<1>1. /\ game.row.status = "IN_PROGRESS" /\ game.row.current = p /\ turn <= MaxTurn
      /\ game' = [game EXCEPT !.guesses[p] = Append(@, g), !.row = row]
      /\ Changes(t, local) /\ hidden' = hidden
  BY DEF SubmitGuess
<1>2. g \in Guesses /\ g.digits = digits
  <2>1. digits \in [DOMAIN n -> DigitResult]
    BY DEF Verify, DigitResult
  <2> HIDE DEF digits
  <2> QED
    BY <2>1 DEF Guesses, Digits
<1>3. Other(p) \in Players
  BY DEF Other, Players
<1> HIDE DEF digits
<1>4. row \in Rows /\ HasTurn(row) /\ (row.status = "FINISHED" => IsWin(digits))
  <2>1. turn \in 0 .. MaxTurn + 1 /\ turn > 0
    BY <1>0, <1>1, Parts DEF HasTurn, Rows
  <2>2. turn + 1 \in 0 .. MaxTurn + 1 /\ turn + 1 > 0
    BY <1>1, <2>1
  <2> HIDE DEF turn
  <2> QED
    BY <1>3, <2>2 DEF Rows, GameStatus, HasTurn
<1> HIDE DEF g, row
<1>5. /\ game'.row = row /\ game'.guesses = [game.guesses EXCEPT ![p] = Append(@, g)]
      /\ game'.first = game.first
      /\ game' = [row |-> game'.row, first |-> game'.first, guesses |-> game'.guesses]
  BY <1>0, <1>1, Parts
<1>6. game.guesses[p] \in Seq(Guesses) /\ Len(game.guesses[p]) \in Nat
  BY <1>0, Parts, LenProperties DEF Shown
<1>7. game'.guesses \in [Players -> Shown]
  BY <1>0, <1>2, <1>5, <1>6, Parts, AppendProperties DEF Shown
<1>8. local \in Locals /\ local.pc = "read" /\ local.by = p /\ local.game = Row /\ ~local.clean
      /\ local.nth = nth
  <2>1. nth \in Nat
    BY <1>6
  <2> HIDE DEF nth
  <2> QED
    BY <2>1, RowFacts DEF Locals
<1> HIDE DEF local
<1>9. Spoils(t, local)
  BY <1>0, <1>1, <1>8, ChangesEffect
<1>10. Plays(local, p, g)
  BY <1>1, <1>2, <1>4, <1>5, <1>8 DEF Plays
<1>11. game' \in [row : Rows, first : Players, guesses : [Players -> Shown]] /\ HasTurn(game'.row)
  BY <1>0, <1>4, <1>5, <1>7, Parts
<1> QED
  BY <1>1, <1>2, <1>8, <1>9, <1>10, <1>11 DEF Transaction

LEMMA CancelEffect ==
  ASSUME TypeInv, Cancel
  PROVE  Transaction(Worker)
<1> DEFINE local == [Idle EXCEPT !.pc = "over"]
<1>0. TypeOK /\ HasTurn(game.row)
  BY DEF TypeInv
<1>1. /\ Changes(Worker, local) /\ game' = [game EXCEPT !.row.status = "FINISHED"]
      /\ game.row.status = "WAITING_SECRET" /\ UNCHANGED <<page, mixed>>
      /\ thread[Worker].pc = "idle"
  BY DEF Cancel
<1>2. local \in Locals /\ local.pc = "over" /\ local.game = Row /\ ~local.clean
  BY RowFacts DEF Locals
<1> HIDE DEF local
<1>3. /\ game'.row = [game.row EXCEPT !.status = "FINISHED"]
      /\ game'.guesses = game.guesses /\ game'.first = game.first
      /\ game' = [row |-> game'.row, first |-> game'.first, guesses |-> game'.guesses]
  BY <1>0, <1>1, Parts
<1>4. game'.row \in Rows /\ game'.row.status = "FINISHED" /\ HasTurn(game'.row)
  BY <1>0, <1>1, <1>3, Parts DEF Rows, GameStatus, HasTurn
<1>5. game' \in [row : Rows, first : Players, guesses : [Players -> Shown]]
  BY <1>0, <1>3, <1>4, Parts
<1>6. Spoils(Worker, local) /\ Worker \in Threads
  BY <1>0, <1>1, <1>2, ChangesEffect, Parts
<1> QED
  BY <1>1, <1>2, <1>3, <1>4, <1>5, <1>6 DEF Transaction, CallsOff

-----------------------------------------------------------------------------
(* Steps of a goroutine that announces, and of the others                  *)

(* What goroutine t may send: the result of the guess it announces, not    *)
(* before an earlier one, the turn it has read, its snapshot.              *)
Sends(t, m) ==
  /\ m \in Messages /\ wire' = Append(wire, m)
  /\ m.type = "RESULT" => /\ thread[t].pc = "result" /\ m = Result(t)
                          /\ thread'[t].pc \notin {"read", "result"}
                          /\ Overtakes(t) => mixed'
  /\ m.type = "TURN" => Announcing(t)
  /\ m.type = "SYNC" => thread[t].pc = "send" /\ m = Snapshot(thread[t])

(* A snapshot that is clean was, or is being, taken of a calm game.        *)
TakesSnapshot(t) ==
  thread'[t].clean =>
    \/ thread'[t].pc \notin {"guesses", "send"}
    \/ thread'[t].pc = "guesses" /\ thread'[t].view = game.row /\ Calm'
    \/ /\ thread[t].pc = "guesses" /\ thread[t].clean
       /\ thread'[t].view = thread[t].view /\ thread'[t].mine = Mine

Move(t) ==
  /\ UNCHANGED <<game, load, page>>
  /\ thread' \in [Threads -> Locals] /\ \A u \in Threads \ {t} : thread'[u] = thread[u]
  /\ HasTurn(thread'[t].game)
  /\ thread'[t].pc \in {"read", "result"} =>
       /\ thread[t].pc \in {"read", "result"}
       /\ thread'[t].by = thread[t].by /\ thread'[t].nth = thread[t].nth
  /\ wire' = wire \/ \E m : Sends(t, m)
  /\ mixed => mixed'
  /\ \/ mixed'
     \/ /\ Unannounced(t) => Unannounced(t)' \/ wire' = Append(wire, Result(t))
        /\ Ends(t) => Ends(t)' \/ \E m : m.type = "OVER" /\ wire' = Append(wire, m)
  /\ Announcing(t)' => Announcing(t)
  /\ TakesSnapshot(t)

(* Everything else only loses messages, or leaves the page.                *)
Outside ==
  /\ UNCHANGED <<game, thread, load>>
  /\ wire' = wire \/ (wire' = <<>> /\ mixed')
  /\ mixed => mixed'
  /\ \/ page'.left
     \/ page'.left = page.left /\ page'.mine = page.mine /\ page'.over = page.over
        /\ page'.game = page.game

(* Nobody announces, or nobody else in a game that goes on: all is calm.   *)
LEMMA CalmNow ==
  ASSUME NEW but \in SUBSET Threads, NobodyAnnounces(but),
         but = {} \/ game.row.status # "FINISHED",
         \A t \in but : ~Unannounced(t)
  PROVE  Calm
BY DEF NobodyAnnounces, Announcing, Unannounced, Calm

(* The locals of a goroutine, one by one                                   *)
LEMMA LocalParts ==
  ASSUME NEW local \in Locals
  PROVE  /\ local = [pc |-> local.pc, game |-> local.game, by |-> local.by, nth |-> local.nth,
                     view |-> local.view, mine |-> local.mine, count |-> local.count,
                     clean |-> local.clean]
         /\ local.game \in Rows /\ local.view \in Rows /\ local.mine \in Shown
         /\ local.count \in Nat /\ local.clean \in BOOLEAN
BY DEF Locals

(* What the two reads of a snapshot leave in the locals                    *)
LEMMA ReadFacts ==
  ASSUME TypeInv, NEW local \in Locals, NEW clean \in BOOLEAN
  PROVE  /\ ReadGame(local, clean) \in Locals /\ ReadGame(local, clean).pc = "guesses"
         /\ ReadGame(local, clean).game = local.game
         /\ ReadGame(local, clean).view = game.row /\ ReadGame(local, clean).clean = clean
         /\ ReadGuesses(local) \in Locals /\ ReadGuesses(local).pc = "send"
         /\ ReadGuesses(local).game = local.game /\ ReadGuesses(local).view = local.view
         /\ ReadGuesses(local).mine = Mine /\ ReadGuesses(local).clean = local.clean
<1>1. game.row \in Rows /\ Mine \in Shown /\ game.guesses \in [Players -> Shown]
  BY Parts DEF TypeInv
<1>2. CountExcludingPlayer(Opp) \in Nat
  BY <1>1, LenProperties DEF CountExcludingPlayer, Other, Players, Shown
<1>3. ListByPlayer(Me) = Mine
  BY DEF ListByPlayer, Mine
<1> QED
  BY <1>1, <1>2, <1>3, LocalParts DEF ReadGame, ReadGuesses, Locals

LEMMA ReadBackEffect ==
  ASSUME TypeInv, NEW t \in Threads, ReadBack(t)
  PROVE  Move(t)
<1> DEFINE local == [thread[t] EXCEPT !.game = game.row,
                       !.pc = IF thread[t].pc = "read" THEN "result" ELSE "game"]
<1>0. TypeOK /\ HasTurn(game.row) /\ thread[t] \in Locals /\ game.row \in Rows
  BY Parts DEF TypeInv
<1>1. /\ thread' = [thread EXCEPT ![t] = local] /\ thread[t].pc \in {"read", "start"}
      /\ UNCHANGED <<game, wire, load, page, mixed>>
  BY DEF ReadBack, server
<1>2. /\ local \in Locals /\ local.game = game.row
      /\ local.by = thread[t].by /\ local.nth = thread[t].nth
      /\ local.pc = IF thread[t].pc = "read" THEN "result" ELSE "game"
  BY <1>0, LocalParts DEF Locals
<1> HIDE DEF local
<1>3. thread' \in [Threads -> Locals] /\ thread'[t] = local
      /\ \A u \in Threads \ {t} : thread'[u] = thread[u]
  BY <1>0, <1>1, <1>2, Parts
<1>4. /\ Unannounced(t) => Unannounced(t)'
      /\ Ends(t) => Ends(t)'
  BY <1>1, <1>2, <1>3 DEF Unannounced, Ends, Wins, Announced
<1>5. Announcing(t)
  BY <1>1 DEF Announcing
<1>6. TakesSnapshot(t)
  BY <1>1, <1>2, <1>3 DEF TakesSnapshot
<1> QED
  BY <1>0, <1>1, <1>2, <1>3, <1>4, <1>5, <1>6 DEF Move

LEMMA AnnounceFailsEffect ==
  ASSUME TypeInv, NEW t \in Threads, AnnounceFails(t)
  PROVE  Move(t)
<1>1. /\ thread' = [thread EXCEPT ![t] = Idle] /\ mixed'
      /\ UNCHANGED <<game, wire, load, page>>
  BY DEF AnnounceFails, server
<1>2. thread' \in [Threads -> Locals] /\ thread'[t] = Idle
      /\ \A u \in Threads \ {t} : thread'[u] = thread[u]
  BY <1>1, RowFacts, Parts DEF TypeInv
<1>3. ~Announcing(t)' /\ TakesSnapshot(t)
  BY <1>2, RowFacts DEF Announcing, TakesSnapshot
<1> QED
  BY <1>1, <1>2, <1>3, RowFacts DEF Move

LEMMA TellResultEffect ==
  ASSUME TypeInv, NEW t \in Threads, TellResult(t)
  PROVE  Move(t)
<1> DEFINE local == [thread[t] EXCEPT !.pc = IF Wins(t) THEN "over" ELSE "turn"]
<1>0. TypeOK /\ thread[t] \in Locals /\ HasTurn(thread[t].game) /\ thread[t].pc = "result"
  BY Parts DEF TypeInv, TellResult
<1>1. /\ thread' = [thread EXCEPT ![t] = local] /\ Send(Result(t))
      /\ UNCHANGED <<game, load, page>>
      /\ mixed' = (mixed \/ conn = 0 \/ Overtakes(t))
  BY DEF TellResult, TellGuess, Goto, server
<1>2. /\ local \in Locals /\ local.game = thread[t].game
      /\ local.pc = IF Wins(t) THEN "over" ELSE "turn"
  BY <1>0, LocalParts DEF Locals
<1> HIDE DEF local
<1>3. thread' \in [Threads -> Locals] /\ thread'[t] = local
      /\ \A u \in Threads \ {t} : thread'[u] = thread[u]
  BY <1>0, <1>1, <1>2, Parts
<1>4. Result(t) \in Messages /\ Result(t).type = "RESULT"
  <2>1. thread[t].by \in Players /\ thread[t].nth \in DOMAIN game.guesses[thread[t].by]
    BY <1>0 DEF TypeInv, Made
  <2>2. game.guesses[thread[t].by] \in Seq(Guesses)
    BY <1>0, <2>1, Parts DEF Shown
  <2>3. thread[t].nth \in Nat /\ Announced(t) \in Guesses
    BY <2>1, <2>2, LenProperties, ElementOfSeq DEF Announced
  <2>4. Other(thread[t].by) \in Players
    BY DEF Other, Players
  <2> QED
    BY <2>1, <2>3, <2>4 DEF Result, Messages
<1>6. wire' = wire \/ Sends(t, Result(t))
  BY <1>0, <1>1, <1>2, <1>3, <1>4 DEF Sends, Send
<1>7. mixed' \/ wire' = Append(wire, Result(t))
  BY <1>1 DEF Send
<1>8. Ends(t) => Ends(t)'
  BY <1>0, <1>2, <1>3 DEF Ends
<1>9. Announcing(t)' => Announcing(t)
  BY <1>0, <1>2, <1>3 DEF Announcing
<1>10. TakesSnapshot(t)
  BY <1>2, <1>3 DEF TakesSnapshot
<1> QED
  BY <1>0, <1>1, <1>2, <1>3, <1>6, <1>7, <1>8, <1>9, <1>10 DEF Move

LEMMA TellTurnEffect ==
  ASSUME TypeInv, NEW t \in Threads, TellTurn(t)
  PROVE  Move(t)
<1> DEFINE m == [type |-> "TURN", turn |-> thread[t].game.turn, current |-> thread[t].game.current]
<1>0. TypeOK /\ thread[t].game \in Rows /\ HasTurn(thread[t].game) /\ thread[t].pc = "turn"
  BY Parts DEF TypeInv, TellTurn
<1>1. /\ thread' = [thread EXCEPT ![t] = Idle]
      /\ UNCHANGED <<game, load, page>>
      /\ IF thread[t].game.current = None
         THEN UNCHANGED <<wire, mixed>> ELSE Send(m) /\ mixed' = (mixed \/ conn = 0)
  BY DEF TellTurn, Tell, server
<1>2. thread' \in [Threads -> Locals] /\ thread'[t] = Idle
      /\ \A u \in Threads \ {t} : thread'[u] = thread[u]
  BY <1>0, <1>1, RowFacts, Parts
<1>3. thread[t].game.current # None => m \in Messages /\ m.type = "TURN"
  BY <1>0 DEF Rows, HasTurn, Messages
<1> HIDE DEF m
<1>4. wire' = wire \/ Sends(t, m)
  BY <1>0, <1>1, <1>3 DEF Sends, Send, Announcing
<1>5. mixed => mixed'
  BY <1>1
<1>6. ~Unannounced(t) /\ ~Ends(t)
  BY <1>0 DEF Unannounced, Ends
<1>7. ~Announcing(t)' /\ TakesSnapshot(t)
  BY <1>2, RowFacts DEF Announcing, TakesSnapshot
<1> QED
  BY <1>1, <1>2, <1>4, <1>5, <1>6, <1>7, RowFacts DEF Move

LEMMA TellOverEffect ==
  ASSUME TypeInv, NEW t \in Threads, TellOver(t)
  PROVE  Move(t)
<1> DEFINE m == [type |-> "OVER"]
<1>0. TypeOK /\ thread[t].pc = "over"
  BY DEF TypeInv, TellOver
<1>1. /\ thread' = [thread EXCEPT ![t] = Idle]
      /\ UNCHANGED <<game, load, page>>
      /\ Send(m) /\ mixed' = (mixed \/ conn = 0)
  BY DEF TellOver, Tell, server
<1>2. thread' \in [Threads -> Locals] /\ thread'[t] = Idle
      /\ \A u \in Threads \ {t} : thread'[u] = thread[u]
  BY <1>0, <1>1, RowFacts, Parts
<1>3. m \in Messages /\ m.type = "OVER"
  BY DEF Messages
<1> HIDE DEF m
<1>4. wire' = wire \/ Sends(t, m)
  BY <1>1, <1>3 DEF Sends, Send
<1>5. mixed' \/ wire' = Append(wire, m)
  BY <1>1 DEF Send
<1>6. ~Unannounced(t)
  BY <1>0 DEF Unannounced
<1>7. ~Announcing(t)' /\ TakesSnapshot(t)
  BY <1>2, RowFacts DEF Announcing, TakesSnapshot
<1> QED
  BY <1>1, <1>2, <1>3, <1>4, <1>5, <1>6, <1>7, RowFacts DEF Move

(* A goroutine that begins, or goes on with, a snapshot                    *)
LEMMA SnapshotEffect ==
  ASSUME TypeInv, NEW t \in Threads, NEW local \in Locals,
         thread' = [thread EXCEPT ![t] = local], UNCHANGED <<game, wire, load, page, mixed>>,
         local.pc \in {"guesses", "send"}, HasTurn(local.game),
         thread[t].pc \notin {"read", "result", "over"},
         local.game \in {Row, thread[t].game},
         local.clean =>
           \/ local.pc = "guesses" /\ local.view = game.row /\ Calm
           \/ thread[t].pc = "guesses" /\ thread[t].clean
              /\ local.view = thread[t].view /\ local.mine = Mine
  PROVE  Move(t)
<1>1. thread' \in [Threads -> Locals] /\ thread'[t] = local
      /\ \A u \in Threads \ {t} : thread'[u] = thread[u]
  BY Parts DEF TypeInv
<1>2. ~Unannounced(t) /\ ~Ends(t)
  BY DEF Unannounced, Ends
<1>3. Announcing(t)' => Announcing(t)
  BY <1>1 DEF Announcing
<1>4. Calm => Calm'
  BY <1>1, <1>3 DEF Calm, Unannounced, Announcing
<1>5. TakesSnapshot(t)
  BY <1>1, <1>4 DEF TakesSnapshot
<1> QED
  BY <1>1, <1>2, <1>3, <1>5 DEF Move

LEMMA BuildStateEffect ==
  ASSUME TypeInv, NEW t \in Threads, BuildState(t)
  PROVE  Move(t)
<1>0. /\ TypeOK /\ thread[t] \in Locals /\ HasTurn(thread[t].game)
      /\ UNCHANGED <<game, wire, load, page, mixed>>
  BY Parts DEF TypeInv, BuildState, server
<1>1. CASE thread[t].pc = "game"
  <2> DEFINE clean == /\ NobodyAnnounces({t}) /\ thread[t].game = game.row
                      /\ game.row.status # "FINISHED"
             local == ReadGame(thread[t], clean)
  <2>1. thread' = [thread EXCEPT ![t] = local]
    BY <1>0, <1>1 DEF BuildState
  <2>2. clean \in BOOLEAN /\ (clean => Calm)
    <3>1. ~Unannounced(t)
      BY <1>1 DEF Unannounced
    <3> QED
      BY <3>1, CalmNow
  <2> HIDE DEF clean
  <2>3. /\ local \in Locals /\ local.pc = "guesses" /\ local.game = thread[t].game
        /\ local.view = game.row /\ local.clean = clean
    BY <1>0, <2>2, ReadFacts
  <2> HIDE DEF local
  <2> QED
    BY <1>0, <1>1, <2>1, <2>2, <2>3, SnapshotEffect
<1>2. CASE thread[t].pc = "guesses"
  <2> DEFINE local == ReadGuesses(thread[t])
  <2>1. thread' = [thread EXCEPT ![t] = local]
    BY <1>0, <1>2 DEF BuildState
  <2>2. /\ local \in Locals /\ local.pc = "send" /\ local.game = thread[t].game
        /\ local.view = thread[t].view /\ local.mine = Mine /\ local.clean = thread[t].clean
    BY <1>0, ReadFacts
  <2> HIDE DEF local
  <2> QED
    BY <1>0, <1>2, <2>1, <2>2, SnapshotEffect
<1> QED
  BY <1>1, <1>2 DEF BuildState

(* SYNC_REQUEST                                                            *)
LEMMA SyncRequestEffect ==
  ASSUME TypeInv, NEW t \in Threads, thread[t].pc = "idle",
         thread' = [thread EXCEPT ![t] = ReadGame(Idle, NobodyAnnounces({}))],
         UNCHANGED <<game, wire, load, page, mixed>>
  PROVE  Move(t)
<1> DEFINE local == ReadGame(Idle, NobodyAnnounces({}))
<1>1. NobodyAnnounces({}) \in BOOLEAN
  BY DEF NobodyAnnounces
<1>2. /\ local \in Locals /\ local.pc = "guesses" /\ local.game = Row
      /\ local.view = game.row /\ local.clean = NobodyAnnounces({})
  BY <1>1, ReadFacts, RowFacts
<1>3. NobodyAnnounces({}) => Calm
  BY CalmNow
<1>4. thread' = [thread EXCEPT ![t] = local]
  OBVIOUS
<1> HIDE DEF local
<1> QED
  BY <1>2, <1>3, <1>4, RowFacts, SnapshotEffect

LEMMA SendStateEffect ==
  ASSUME TypeInv, NEW t \in Threads, SendState(t)
  PROVE  Move(t)
<1> DEFINE m == Snapshot(thread[t])
<1>0. TypeOK /\ thread[t] \in Locals /\ HasTurn(thread[t].game) /\ thread[t].pc = "send"
  BY Parts DEF TypeInv, SendState
<1>1. /\ Send(m) /\ UNCHANGED <<game, load, page, mixed>>
      /\ IF thread[t].game = Row THEN thread' = [thread EXCEPT ![t] = Idle]
         ELSE thread' = [thread EXCEPT ![t] = [thread[t] EXCEPT !.pc = "turn"]]
  BY DEF SendState, Goto, server
<1>2. PICK local \in Locals :
         /\ thread' = [thread EXCEPT ![t] = local]
         /\ local.pc \in {"idle", "turn"} /\ local.game = thread[t].game
         /\ local.pc = "turn" => local.game # Row
  <2>1. LET local == [thread[t] EXCEPT !.pc = "turn"]
        IN local \in Locals /\ local.pc = "turn" /\ local.game = thread[t].game
    BY <1>0, LocalParts DEF Locals
  <2> QED
    BY <1>1, <2>1, RowFacts
<1>3. thread' \in [Threads -> Locals] /\ thread'[t] = local
      /\ \A u \in Threads \ {t} : thread'[u] = thread[u]
  BY <1>0, <1>2, Parts
<1>4. m \in Messages /\ m.type = "SYNC"
  BY <1>0, LocalParts DEF Snapshot, Messages
<1>5. wire' = wire \/ Sends(t, m)
  BY <1>0, <1>1, <1>4 DEF Sends, Send
<1>6. ~Unannounced(t) /\ ~Ends(t)
  BY <1>0 DEF Unannounced, Ends
<1>7. (Announcing(t)' => Announcing(t)) /\ TakesSnapshot(t)
  BY <1>0, <1>2, <1>3 DEF Announcing, TakesSnapshot
<1> QED
  BY <1>0, <1>1, <1>2, <1>3, <1>5, <1>6, <1>7 DEF Move

(* What the page sent, as the server takes it                              *)
LEMMA InboxFacts ==
  ASSUME TypeOK, NEW c \in MyConns
  PROVE  /\ inbox \in [MyConns -> Seq(Requests)] /\ inbox[c] \in Seq(Requests)
         /\ inbox[c] # <<>> => /\ Tail(inbox[c]) \in Seq(Requests)
                               /\ Head(inbox[c]).type = "GUESS" => Head(inbox[c]).number \in Numbers
<1>1. inbox \in [MyConns -> Seq(Requests)]
  BY DEF TypeOK, Requests
<1>2. inbox[c] # <<>> => Tail(inbox[c]) \in Seq(Requests) /\ Head(inbox[c]) \in Requests
  BY <1>1, HeadTailProperties
<1> QED
  BY <1>1, <1>2 DEF Requests

LEMMA TakeMessageEffect ==
  ASSUME TypeInv, NEW c \in MyConns, TakeMessage(c)
  PROVE  /\ Transaction(c) \/ Move(c) \/ Outside
         /\ hidden' \in SUBSET Players
<1> DEFINE msg == Head(inbox[c])
<1>0. /\ TypeOK /\ c \in Threads /\ thread[c].pc = "idle" /\ inbox[c] # <<>>
      /\ UNCHANGED <<page, mixed>>
  BY Parts DEF TypeInv, TakeMessage
<1>1. CASE /\ thread' = [thread EXCEPT ![c] = ReadGame(Idle, NobodyAnnounces({}))]
           /\ UNCHANGED <<server, wire, load>>
  BY <1>0, <1>1, SyncRequestEffect DEF server, TypeOK
<1>2. CASE SetSecret(c, Me)
  <2>1. Me \in Players
    BY DEF Players
  <2>2. UNCHANGED <<game, thread, load, wire>> => Outside
    BY <1>0 DEF Outside
  <2> QED
    BY <1>0, <1>2, <2>1, <2>2, SetSecretEffect
<1>3. CASE msg.type = "GUESS" /\ SubmitGuess(c, Me, msg.number, FALSE)
  <2>1. Me \in Players /\ msg.number \in Numbers
    BY <1>0, <1>3, InboxFacts DEF Players
  <2> HIDE DEF msg
  <2> QED
    BY <1>0, <1>3, <2>1, SubmitGuessEffect DEF TypeOK
<1>4. CASE UNCHANGED <<server, wire, thread, load>>
  BY <1>0, <1>4 DEF server, TypeOK, Outside
<1> QED
  BY <1>1, <1>2, <1>3, <1>4 DEF TakeMessage

(* What may happen, as the proofs below see it                             *)
LEMMA Steps ==
  ASSUME TypeInv, [Next]_vars
  PROVE  /\ \/ \E t \in Threads : Transaction(t) \/ Move(t)
            \/ Outside \/ Receive
            \/ LoadReads \/ LoadFails \/ LoadArrives
         /\ hidden' \in SUBSET Players
<1>0. TypeOK /\ hidden \in SUBSET Players /\ Opp \in Threads /\ Worker \in Threads
      /\ MyConns \subseteq Threads /\ Opp \in Players
  BY Parts DEF TypeInv, TypeOK, Players
<1>1. CASE Cancel
  BY <1>0, <1>1, CancelEffect DEF Cancel
<1>2. CASE OppActs
  <2>1. UNCHANGED <<page, mixed>> /\ thread[Opp].pc = "idle"
    BY <1>2 DEF OppActs
  <2>2. CASE SetSecret(Opp, Opp)
    <3>1. UNCHANGED <<game, thread, load, wire>> => Outside
      BY <2>1 DEF Outside
    <3> QED
      BY <1>0, <2>1, <2>2, <3>1, SetSecretEffect
  <2>3. CASE \E n \in Numbers : SubmitGuess(Opp, Opp, n, FALSE)
    BY <1>0, <2>1, <2>3, SubmitGuessEffect
  <2> QED
    BY <1>2, <2>2, <2>3 DEF OppActs
<1>3. CASE AutoGuess
  BY <1>0, <1>3, SubmitGuessEffect DEF AutoGuess
<1>4. CASE \E c \in MyConns : TakeMessage(c)
  BY <1>0, <1>4, TakeMessageEffect
<1>5. CASE \E t \in Threads : ThreadStep(t)
  <2>1. PICK t \in Threads : ThreadStep(t)
    BY <1>5
  <2>2. Move(t)
    BY <2>1, ReadBackEffect, TellResultEffect, TellTurnEffect, TellOverEffect,
       AnnounceFailsEffect, BuildStateEffect, SendStateEffect DEF ThreadStep
  <2>3. hidden' = hidden
    BY <2>1 DEF ThreadStep, ReadBack, TellResult, TellTurn, TellOver, AnnounceFails,
                BuildState, SendState, server
  <2> QED
    BY <1>0, <2>2, <2>3
<1>6. CASE LoadReads \/ LoadFails \/ LoadArrives \/ Receive
  BY <1>0, <1>6 DEF LoadReads, LoadFails, LoadArrives, Receive, server
<1>7. CASE Submit
  <2>1. /\ UNCHANGED <<game, hidden, wire, thread, load, mixed>>
        /\ page' = page \/ page' = [page EXCEPT !.submitted = TRUE]
    BY <1>7 DEF Submit, server
  <2>2. page'.left = page.left /\ page'.mine = page.mine /\ page'.over = page.over
        /\ page'.game = page.game
    BY <1>0, <2>1 DEF TypeOK, Pages
  <2> QED
    BY <1>0, <2>1, <2>2 DEF Outside
<1>8. CASE Leave
  <2>1. /\ UNCHANGED <<game, hidden, wire, thread, load, mixed>>
        /\ page' = [page EXCEPT !.left = TRUE, !.over = FALSE]
    BY <1>8 DEF Leave, server
  <2>2. page'.left
    BY <1>0, <2>1 DEF TypeOK, Pages
  <2> QED
    BY <1>0, <2>1, <2>2 DEF Outside
<1>9. CASE Drop \/ Reconnect
  <2>1. UNCHANGED <<game, hidden, thread, load, page>>
    BY <1>9 DEF Drop, Reconnect, server
  <2>2. (wire' = wire \/ (wire' = <<>> /\ mixed')) /\ (mixed => mixed')
    <3>1. CASE Drop
      <4>1. wire' = <<>> /\ mixed' = (mixed \/ wire # <<>>)
        BY <3>1 DEF Drop
      <4> QED
        BY <4>1
    <3>2. CASE Reconnect
      BY <3>2 DEF Reconnect
    <3> QED
      BY <1>9, <3>1, <3>2
  <2> QED
    BY <1>0, <2>1, <2>2 DEF Outside
<1>10. CASE UNCHANGED vars
  BY <1>0, <1>10 DEF vars, Outside
<1> QED
  BY <1>1, <1>2, <1>3, <1>4, <1>5, <1>6, <1>7, <1>8, <1>9, <1>10 DEF Next

-----------------------------------------------------------------------------
(* Type correctness                                                        *)

LEMMA PageParts ==
  ASSUME NEW view \in Pages
  PROVE  /\ view = [game |-> view.game, mine |-> view.mine, opp |-> view.opp,
                    submitted |-> view.submitted, over |-> view.over,
                    loading |-> view.loading, left |-> view.left]
         /\ view.game \in Rows /\ view.mine \in Shown /\ view.mine \in Seq(Guesses)
         /\ view.opp \in Nat /\ view.over \in BOOLEAN /\ view.left \in BOOLEAN
         /\ view.submitted \in BOOLEAN /\ view.loading \in BOOLEAN
BY DEF Pages, Shown

(* What a snapshot makes of a page                                         *)
LEMMA SetStateFacts ==
  ASSUME NEW view \in Pages, NEW snap,
         snap.game \in Rows, snap.mine \in Shown, snap.count \in Nat
  PROVE  /\ SetState(view, snap) \in Pages
         /\ SetState(view, snap).game = snap.game /\ SetState(view, snap).mine = snap.mine
         /\ SetState(view, snap).left = view.left
<1>1. (view.over /\ snap.game.status = "FINISHED") \in BOOLEAN
  BY PageParts
<1> QED
  BY <1>1, PageParts DEF SetState, Pages

(* What the other messages make of it                                      *)
LEMMA ReduceFacts ==
  ASSUME NEW view \in Pages, NEW msg \in Messages
  PROVE  /\ Reduce(view, msg) \in Pages
         /\ msg.type = "SYNC" => Reduce(view, msg) = SetState(view, msg)
         /\ msg.type = "TURN" => /\ Reduce(view, msg).mine = view.mine
                                 /\ Reduce(view, msg).over = view.over
         /\ msg.type = "RESULT" =>
              /\ Reduce(view, msg).mine = IF msg.by = Me THEN Append(view.mine, msg.guess)
                                          ELSE view.mine
              /\ Reduce(view, msg).game.status = view.game.status
              /\ Reduce(view, msg).over = view.over
         /\ msg.type = "OVER" => Reduce(view, msg).mine = view.mine /\ Reduce(view, msg).over
<1>0. msg.type \in {"SYNC", "TURN", "RESULT", "OVER"}
  BY MessageFacts
<1>1. CASE msg.type = "SYNC"
  BY <1>1, SetStateFacts, MessageFacts DEF Reduce
<1>2. CASE msg.type = "TURN"
  <2>1. Reduce(view, msg) = [view EXCEPT !.game = [status |-> "IN_PROGRESS",
                               turn |-> msg.turn, current |-> msg.current]]
    BY <1>2 DEF Reduce
  <2>2. [status |-> "IN_PROGRESS", turn |-> msg.turn, current |-> msg.current] \in Rows
    <3>1. msg.turn \in 0 .. MaxTurn + 1 /\ msg.current \in Players
      <4>1. msg.turn \in 1 .. MaxTurn + 1 /\ msg.current \in Players
        BY <1>2, MessageFacts
      <4> QED
        BY <4>1
    <3> QED
      BY <3>1 DEF Rows, GameStatus
  <2> QED
    BY <1>2, <2>1, <2>2, PageParts DEF Pages
<1>3. CASE msg.type = "RESULT"
  <2>0. Reduce(view, msg) = GuessResult(view, msg)
    BY <1>3 DEF Reduce
  <2>1. CASE msg.by = Me
    <3>1. Reduce(view, msg) = [view EXCEPT !.mine = Append(view.mine, msg.guess),
                                 !.game = [view.game EXCEPT !.current = msg.next]]
      BY <2>0, <2>1, PageParts DEF GuessResult
    <3>2. Append(view.mine, msg.guess) \in Shown
      BY <1>3, MessageFacts, PageParts, AppendProperties DEF Shown
    <3>3. /\ [view.game EXCEPT !.current = msg.next] \in Rows
          /\ [view.game EXCEPT !.current = msg.next].status = view.game.status
      <4>1. msg.next \in Players /\ view.game \in Rows
        BY <1>3, MessageFacts, PageParts
      <4> QED
        BY <4>1 DEF Rows
    <3> QED
      BY <1>3, <2>1, <3>1, <3>2, <3>3, PageParts DEF Pages
  <2>2. CASE msg.by # Me
    <3>1. Reduce(view, msg) = [view EXCEPT !.opp = view.opp + 1] /\ view.opp + 1 \in Nat
      BY <2>0, <2>2, PageParts DEF GuessResult
    <3> QED
      BY <1>3, <2>2, <3>1, PageParts DEF Pages
  <2> QED
    BY <2>1, <2>2
<1>4. CASE msg.type = "OVER"
  <2>1. Reduce(view, msg) = [view EXCEPT !.game = [view.game EXCEPT !.status = "FINISHED"],
                                         !.over = TRUE]
    BY <1>4, PageParts DEF Reduce
  <2>2. [view.game EXCEPT !.status = "FINISHED"] \in Rows
    BY PageParts DEF Rows, GameStatus
  <2> QED
    BY <1>4, <2>1, <2>2, PageParts DEF Pages
<1> QED
  BY <1>0, <1>1, <1>2, <1>3, <1>4

LEMMA PageTyped ==
  ASSUME TypeOK, [Next]_vars
  PROVE  page' \in Pages /\ mixed' \in BOOLEAN
<1>0. page \in Pages /\ mixed \in BOOLEAN /\ wire \in Seq(Messages) /\ load \in Locals
  BY Parts DEF TypeOK, Pages
<1>1. CASE Receive
  <2> DEFINE msg == Head(wire)
  <2>1. /\ page' = IF page.left THEN page ELSE Reduce(page, msg)
        /\ mixed' = IF msg.type = "SYNC" THEN ~msg.clean ELSE mixed
        /\ wire # <<>>
    BY <1>1 DEF Receive
  <2>2. msg \in Messages
    BY <1>0, <2>1, HeadTailProperties
  <2> HIDE DEF msg
  <2>3. page' \in Pages
    BY <1>0, <2>1, <2>2, ReduceFacts
  <2>4. mixed' \in BOOLEAN
    BY <1>0, <2>1, <2>2, MessageFacts
  <2> QED
    BY <2>3, <2>4
<1>2. CASE LoadArrives
  <2> DEFINE view == SetState(page, Snapshot(load))
  <2>1. /\ page' = IF page.left THEN page
                   ELSE [view EXCEPT !.over = view.over \/ view.game.status = "FINISHED"]
        /\ mixed' = ~load.clean
    BY <1>2 DEF LoadArrives
  <2>2. view \in Pages
    BY <1>0, SetStateFacts, LocalParts DEF Snapshot
  <2> HIDE DEF view
  <2>3. (view.over \/ view.game.status = "FINISHED") \in BOOLEAN
    BY <2>2, PageParts
  <2>4. page' \in Pages
    BY <1>0, <2>1, <2>2, <2>3, PageParts DEF Pages
  <2> QED
    BY <1>0, <2>1, <2>4
<1>3. CASE Submit \/ Leave
  <2>1. \/ page' = page
        \/ page' = [page EXCEPT !.submitted = TRUE]
        \/ page' = [page EXCEPT !.left = TRUE, !.over = FALSE]
    BY <1>3 DEF Submit, Leave
  <2>2. mixed' = mixed
    BY <1>3 DEF Submit, Leave
  <2>3. /\ [page EXCEPT !.submitted = TRUE] \in Pages
        /\ [page EXCEPT !.left = TRUE, !.over = FALSE] \in Pages
    BY <1>0, PageParts DEF Pages
  <2> QED
    BY <1>0, <2>1, <2>2, <2>3
<1>4. CASE Drop
  BY <1>0, <1>4 DEF Drop
<1>5. CASE \E t \in Threads : ThreadStep(t)
  BY <1>0, <1>5 DEF ThreadStep, ReadBack, TellResult, TellGuess, TellTurn, TellOver, Tell,
                    AnnounceFails, BuildState, SendState
<1>6. CASE \/ Cancel \/ OppActs \/ AutoGuess \/ \E c \in MyConns : TakeMessage(c)
           \/ LoadReads \/ LoadFails \/ Reconnect \/ UNCHANGED vars
  BY <1>0, <1>6 DEF Cancel, OppActs, AutoGuess, TakeMessage, LoadReads, LoadFails, Reconnect, vars
<1> QED
  BY <1>1, <1>2, <1>3, <1>4, <1>5, <1>6 DEF Next

LEMMA SocketsTyped ==
  ASSUME TypeOK, [Next]_vars
  PROVE  /\ conn' \in 0 .. MaxMishaps + 1 /\ mishaps' \in 0 .. MaxMishaps
         /\ inbox' \in [MyConns -> Seq(Requests)] /\ sends' \in 0 .. MaxSends
<1> USE DEF MyConns
<1>0. /\ conn \in 0 .. MaxMishaps + 1 /\ mishaps \in 0 .. MaxMishaps
      /\ inbox \in [MyConns -> Seq(Requests)] /\ sends \in 0 .. MaxSends
  BY DEF TypeOK, Requests
<1>1. CASE \E c \in MyConns : TakeMessage(c)
  <2>1. PICK c \in MyConns : TakeMessage(c)
    BY <1>1
  <2>2. /\ inbox' = [inbox EXCEPT ![c] = Tail(@)] /\ inbox[c] # <<>>
        /\ UNCHANGED <<conn, mishaps, sends>>
    BY <2>1 DEF TakeMessage
  <2>3. Tail(inbox[c]) \in Seq(Requests)
    BY <2>2, InboxFacts
  <2> QED
    BY <1>0, <2>2, <2>3
<1>2. CASE Submit
  <2>1. /\ UNCHANGED <<conn, mishaps>> /\ sends' = sends + 1 /\ sends < MaxSends
        /\ \E msg \in Requests : Post(msg)
    <3>1. [type |-> "SET_SECRET"] \in Requests
          /\ \A n \in Numbers : [type |-> "GUESS", number |-> n] \in Requests
      BY DEF Requests
    <3> QED
      BY <1>2, <3>1 DEF Submit
  <2>2. PICK msg \in Requests : Post(msg)
    BY <2>1
  <2>3. inbox' \in [MyConns -> Seq(Requests)]
    <3>1. CASE conn = 0
      BY <1>0, <2>2, <3>1 DEF Post
    <3>2. CASE conn # 0
      <4>1. conn \in MyConns /\ inbox' = [inbox EXCEPT ![conn] = Append(@, msg)]
        BY <1>0, <2>2, <3>2 DEF Post
      <4> QED
        BY <1>0, <4>1, AppendProperties
    <3> QED
      BY <3>1, <3>2
  <2> QED
    BY <1>0, <2>1, <2>3
<1>3. CASE Drop
  <2>1. /\ conn # 0 /\ mishaps < MaxMishaps /\ conn' = 0 /\ mishaps' = mishaps + 1
        /\ sends' = sends
        /\ \E kept \in {inbox[conn], <<>>} : inbox' = [inbox EXCEPT ![conn] = kept]
    BY <1>3 DEF Drop
  <2>2. conn \in MyConns /\ inbox[conn] \in Seq(Requests)
    BY <1>0, <2>1
  <2> DEFINE empty == <<>>
  <2>3. PICK kept \in {inbox[conn], empty} : inbox' = [inbox EXCEPT ![conn] = kept]
    BY <2>1
  <2>4. empty \in Seq(Requests)
    BY EmptySeq
  <2> HIDE DEF empty
  <2>5. kept \in Seq(Requests)
    BY <2>3, <2>4, <2>2
  <2>6. inbox' \in [MyConns -> Seq(Requests)]
    BY <1>0, <2>2, <2>3, <2>5
  <2>7. mishaps + 1 \in 0 .. MaxMishaps /\ 0 \in 0 .. MaxMishaps + 1
    BY <1>0, <2>1
  <2> QED
    BY <1>0, <2>1, <2>6, <2>7
<1>4. CASE Reconnect
  <2>1. /\ conn' = mishaps + 1 /\ UNCHANGED <<mishaps, sends>>
        /\ inbox' = [inbox EXCEPT ![mishaps + 1] = <<[type |-> "SYNC_REQUEST"]>>]
    BY <1>4 DEF Reconnect
  <2> DEFINE sync == [type |-> "SYNC_REQUEST"]
  <2>2. sync \in Requests
    BY DEF Requests
  <2> HIDE DEF sync
  <2>3. inbox' = [inbox EXCEPT ![mishaps + 1] = <<sync>>] /\ <<sync>> \in Seq(Requests)
    BY <2>1, <2>2 DEF sync
  <2>4. mishaps + 1 \in 0 .. MaxMishaps + 1
    BY <1>0
  <2> QED
    BY <1>0, <2>1, <2>3, <2>4
<1>5. CASE \E t \in Threads : ThreadStep(t)
  <2>1. UNCHANGED <<conn, inbox, sends>>
        /\ (mishaps' = mishaps \/ (mishaps < MaxMishaps /\ mishaps' = mishaps + 1))
    BY <1>5 DEF ThreadStep, ReadBack, TellResult, TellTurn, TellOver,
                AnnounceFails, BuildState, SendState, socket
  <2> QED
    BY <1>0, <2>1
<1>6. CASE \/ Cancel \/ OppActs \/ AutoGuess \/ Leave \/ Receive
           \/ LoadReads \/ LoadFails \/ LoadArrives \/ UNCHANGED vars
  BY <1>0, <1>6 DEF Cancel, OppActs, AutoGuess, Leave, Receive, LoadReads, LoadFails,
                    LoadArrives, vars, socket
<1> QED
  BY <1>1, <1>2, <1>3, <1>4, <1>5, <1>6 DEF Next

(* The part of the type invariant about the game, the announcements and    *)
(* the snapshots                                                           *)
ServerTyped ==
  /\ game \in [row : Rows, first : Players, guesses : [Players -> Shown]]
  /\ wire \in Seq(Messages) /\ thread \in [Threads -> Locals] /\ load \in Locals
  /\ HasTurn(game.row)
  /\ \A t \in Threads : HasTurn(thread[t].game) /\ Made(t)

LEMMA TransactionTyped ==
  ASSUME TypeInv, NEW t \in Threads, Transaction(t)
  PROVE  ServerTyped'
<1>1. PICK local \in Locals :
        /\ thread[t].pc = "idle" /\ local.game = Row
        /\ Spoils(t, local)
        /\ game' \in [row : Rows, first : Players, guesses : [Players -> Shown]]
        /\ HasTurn(game'.row)
        /\ \/ Begins(local) \/ CallsOff(local)
           \/ \E p \in Players, g \in Guesses : Plays(local, p, g)
  BY DEF Transaction
<1>2. TypeOK /\ game.guesses \in [Players -> Shown] /\ thread \in [Threads -> Locals]
  BY Parts DEF TypeInv
<1>3. ASSUME NEW p \in Players
      PROVE  DOMAIN game.guesses[p] \subseteq DOMAIN game'.guesses[p]
  <2>1. CASE game'.guesses = game.guesses
    BY <2>1
  <2>2. ASSUME NEW q \in Players, NEW g \in Guesses, Plays(local, q, g)
        PROVE  DOMAIN game.guesses[p] \subseteq DOMAIN game'.guesses[p]
    <3>1. game'.guesses = [game.guesses EXCEPT ![q] = Append(@, g)]
      BY <2>2 DEF Plays
    <3>2. game.guesses[p] \in Seq(Guesses)
      BY <1>2 DEF Shown
    <3>3. DOMAIN game.guesses[p] \subseteq DOMAIN Append(game.guesses[p], g)
      BY <3>2, Appended
    <3> QED
      BY <1>2, <3>1, <3>3
  <2> QED
    BY <1>1, <2>1, <2>2 DEF Begins, CallsOff
<1>4. ASSUME NEW u \in Threads
      PROVE  HasTurn(thread'[u].game) /\ Made(u)'
  <2>1. CASE u # t
    <3>1. thread'[u] = Spoil(thread[u]) /\ thread[u] \in Locals
      BY <1>1, <1>2, <2>1 DEF Spoils
    <3>2. /\ thread'[u].pc = thread[u].pc /\ thread'[u].game = thread[u].game
          /\ thread'[u].by = thread[u].by /\ thread'[u].nth = thread[u].nth
      BY <3>1, SpoilFacts
    <3> QED
      BY <1>3, <3>2 DEF TypeInv, Made
  <2>2. CASE u = t
    <3>1. thread'[u] = local /\ HasTurn(local.game)
      BY <1>1, <2>2, RowFacts DEF Spoils
    <3>2. ASSUME NEW p \in Players, NEW g \in Guesses, Plays(local, p, g)
          PROVE  local.by \in Players /\ local.nth \in DOMAIN game'.guesses[local.by]
      <4>1. /\ game'.guesses = [game.guesses EXCEPT ![p] = Append(@, g)]
            /\ local.by = p /\ local.nth = Len(game.guesses[p]) + 1
        BY <3>2 DEF Plays
      <4>2. game.guesses[p] \in Seq(Guesses)
        BY <1>2 DEF Shown
      <4>3. Len(game.guesses[p]) + 1 \in DOMAIN Append(game.guesses[p], g)
        BY <4>2, Appended
      <4> QED
        BY <1>2, <4>1, <4>3
    <3> QED
      BY <1>1, <3>1, <3>2 DEF Made, Begins, CallsOff
  <2> QED
    BY <2>1, <2>2
<1> QED
  BY <1>1, <1>4 DEF ServerTyped, Spoils

LEMMA MoveTyped ==
  ASSUME TypeInv, NEW t \in Threads, Move(t)
  PROVE  ServerTyped'
<1>0. TypeOK /\ wire \in Seq(Messages)
  BY Parts DEF TypeInv
<1>1. wire' \in Seq(Messages)
  BY <1>0, AppendProperties DEF Move, Sends
<1>2. ASSUME NEW u \in Threads
      PROVE  HasTurn(thread'[u].game) /\ Made(u)'
  BY DEF TypeInv, Move, Made
<1> QED
  BY <1>0, <1>1, <1>2 DEF ServerTyped, Move, TypeInv, TypeOK

LEMMA TypeStep ==
  ASSUME TypeInv, [Next]_vars
  PROVE  TypeInv'
<1>0. TypeOK /\ ServerTyped
  BY DEF TypeInv, TypeOK, ServerTyped
<1>1. ASSUME Outside PROVE ServerTyped'
  <2>1. wire' \in Seq(Messages)
    BY <1>0, <1>1, EmptySeq DEF Outside, ServerTyped
  <2> QED
    BY <1>0, <1>1, <2>1 DEF Outside, ServerTyped, Made
<1>2. ASSUME Receive PROVE ServerTyped'
  <2>1. wire' \in Seq(Messages)
    BY <1>0, <1>2, HeadTailProperties DEF Receive, ServerTyped
  <2>2. UNCHANGED <<game, thread, load>>
    BY <1>2 DEF Receive, server
  <2> QED
    BY <1>0, <2>1, <2>2 DEF ServerTyped, Made
<1>3. ASSUME LoadReads \/ LoadFails \/ LoadArrives PROVE ServerTyped'
  <2>1. UNCHANGED <<game, thread, wire>>
    BY <1>3 DEF LoadReads, LoadFails, LoadArrives, server
  <2>2. load' \in Locals
    <3>1. ASSUME LoadReads PROVE load' \in Locals
      <4>1. PICK clean \in BOOLEAN : load' = ReadGame(load, clean) \/ load' = ReadGuesses(load)
        <5>1. (/\ NobodyAnnounces({})
               /\ \A i \in DOMAIN wire : wire[i].type # "RESULT") \in BOOLEAN
          BY DEF NobodyAnnounces
        <5> QED
          BY <3>1, <5>1 DEF LoadReads
      <4>2. load \in Locals
        BY <1>0 DEF ServerTyped
      <4>3. ReadGame(load, clean) \in Locals /\ ReadGuesses(load) \in Locals
        BY <4>2, ReadFacts
      <4> QED
        BY <4>1, <4>3
    <3>2. ASSUME LoadFails \/ LoadArrives PROVE load' \in Locals
      <4>1. load' = [load EXCEPT !.pc = "idle"]
        BY <3>2 DEF LoadFails, LoadArrives
      <4> QED
        BY <1>0, <4>1, LocalParts DEF ServerTyped, Locals
    <3> QED
      BY <1>3, <3>1, <3>2
  <2> QED
    BY <1>0, <2>1, <2>2 DEF ServerTyped, Made
<1>4. ServerTyped'
  BY <1>1, <1>2, <1>3, Steps, TransactionTyped, MoveTyped
<1> QED
  BY <1>0, <1>4, Steps, PageTyped, SocketsTyped DEF TypeInv, TypeOK, ServerTyped, Pages, Requests

-----------------------------------------------------------------------------
(* Clean snapshots are up to date                                          *)

LEMMA SnapshotsTransaction ==
  ASSUME TypeInv, NEW t \in Threads, Transaction(t)
  PROVE  Snapshots'
<1>1. PICK local \in Locals : ~local.clean /\ Spoils(t, local)
  BY DEF Transaction
<1>2. ASSUME NEW u \in Threads PROVE ~thread'[u].clean
  <2>1. thread[u] \in Locals
    BY Parts DEF TypeInv
  <2> QED
    BY <1>1, <2>1, SpoilFacts DEF Spoils
<1>3. ~load'.clean /\ \A i \in DOMAIN wire' : ~CleanAt(i)'
  BY <1>1 DEF Spoils, CleanAt
<1> QED
  BY <1>2, <1>3 DEF Snapshots, UpToDate

LEMMA CalmKept ==
  ASSUME TypeInv, NEW t \in Threads, Move(t), Calm
  PROVE  Calm'
<1>1. ASSUME NEW u \in Threads PROVE ~Unannounced(u)'
  BY DEF Move, Calm, Unannounced
<1>2. ASSUME NEW u \in Threads, game.row.status = "FINISHED" PROVE ~Announcing(u)'
  BY <1>2 DEF Move, Calm, Announcing
<1> QED
  BY <1>1, <1>2 DEF Calm, Move

(* What is behind a message that was on the wire is either what was behind *)
(* it, or what goroutine t has sent.                                       *)
LEMMA SnapshotsMove ==
  ASSUME TypeInv, Snapshots, NEW t \in Threads, Move(t)
  PROVE  Snapshots'
<1>0. UNCHANGED <<game, load>> /\ wire \in Seq(Messages) /\ Mine' = Mine
  BY Parts DEF Move, TypeInv, Mine
<1>1. Calm => Calm'
  BY CalmKept
<1>2. ASSUME NEW u \in Threads PROVE UpToDate(thread[u])'
  <2>1. CASE u # t
    <3>1. UpToDate(thread[u]) /\ thread'[u] = thread[u]
      BY <2>1 DEF Snapshots, Move
    <3> QED
      BY <1>0, <1>1, <3>1 DEF UpToDate
  <2>2. CASE u = t
    <3>1. UpToDate(thread[t]) /\ TakesSnapshot(t)
      BY DEF Snapshots, Move
    <3> QED
      BY <1>0, <1>1, <2>2, <3>1 DEF UpToDate, TakesSnapshot
  <2> QED
    BY <2>1, <2>2
<1>3. ASSUME wire' = wire PROVE Snapshots'
  <2>1. Results' = Results
    BY <1>3 DEF Results
  <2> QED
    BY <1>0, <1>1, <1>2, <1>3, <2>1 DEF Snapshots, UpToDate, CleanAt
<1>4. ASSUME NEW m, Sends(t, m) PROVE Snapshots'
  <2> DEFINE n == Len(wire) + 1
  <2>1. m \in Messages /\ wire' = Append(wire, m)
    BY <1>4 DEF Sends
  <2>2. /\ DOMAIN wire = 1 .. n - 1 /\ DOMAIN wire' = 1 .. n /\ n \in Nat
        /\ wire'[n] = m /\ \A i \in 1 .. n - 1 : wire'[i] = wire[i]
    BY <1>0, <2>1, Appended
  <2> HIDE DEF n
  <2>3. Calm => m.type # "RESULT" \/ m.by # Me
    <3>1. m.type = "RESULT" => thread[t].pc = "result" /\ m.by = thread[t].by
      BY <1>4 DEF Sends, Result
    <3> QED
      BY <3>1 DEF Calm, Unannounced
  <2>4. Calm /\ game.row.status = "FINISHED" => m.type # "TURN"
    BY <1>4 DEF Sends, Calm
  <2>5. Calm => Results' = Results
    BY <2>2, <2>3 DEF Results
  <2>6. UpToDate(load)' /\ (load'.clean /\ load'.pc \in {"guesses", "send"} => Results' = {})
    BY <1>0, <1>1, <2>5 DEF Snapshots, UpToDate
  <2>7. ASSUME NEW i \in DOMAIN wire', CleanAt(i)'
        PROVE  /\ wire'[i].game = game.row /\ wire'[i].mine = Mine /\ Calm'
               /\ \A j \in DOMAIN wire' : j > i =>
                    j \notin Results' /\ (game.row.status = "FINISHED" => wire'[j].type # "TURN")
    <3>1. CASE i = n
      <4>1. /\ thread[t].pc = "send" /\ thread[t].clean /\ UpToDate(thread[t])
            /\ m.game = thread[t].view /\ m.mine = thread[t].mine
        BY <1>4, <2>2, <2>7, <3>1 DEF CleanAt, Sends, Snapshot, Snapshots
      <4> QED
        BY <1>1, <2>2, <3>1, <4>1 DEF UpToDate
    <3>2. CASE i # n
      <4>1. i \in DOMAIN wire /\ CleanAt(i) /\ wire'[i] = wire[i]
        BY <2>2, <2>7, <3>2 DEF CleanAt
      <4>2. /\ wire[i].game = game.row /\ wire[i].mine = Mine /\ Calm
            /\ \A j \in DOMAIN wire : j > i =>
                 j \notin Results /\ (game.row.status = "FINISHED" => wire[j].type # "TURN")
        BY <4>1 DEF Snapshots
      <4>3. ASSUME NEW j \in DOMAIN wire', j > i
            PROVE  j \notin Results' /\ (game.row.status = "FINISHED" => wire'[j].type # "TURN")
        BY <2>2, <2>4, <2>5, <4>2, <4>3 DEF Results
      <4> QED
        BY <1>1, <4>1, <4>2, <4>3
    <3> QED
      BY <3>1, <3>2
  <2> QED
    BY <1>0, <1>2, <2>6, <2>7 DEF Snapshots
<1> QED
  BY <1>3, <1>4 DEF Move

LEMMA SnapshotsReceive ==
  ASSUME TypeInv, Snapshots, Receive
  PROVE  Snapshots'
<1>0. /\ UNCHANGED <<game, load, thread>>
      /\ wire \in Seq(Messages) /\ wire # <<>> /\ wire' = Tail(wire)
  BY Parts DEF Receive, TypeInv, server
<1>1. \A i \in DOMAIN wire' : i + 1 \in DOMAIN wire /\ wire'[i] = wire[i + 1] /\ i \in Nat
  BY <1>0, Taken
<1>2. (Calm' <=> Calm) /\ Mine' = Mine
  BY <1>0 DEF Calm, Unannounced, Announcing, Mine
<1>3. Results = {} => Results' = {}
  BY <1>1 DEF Results
<1>4. /\ \A t \in Threads : UpToDate(thread[t])'
      /\ UpToDate(load)'
      /\ load'.clean /\ load'.pc \in {"guesses", "send"} => Results' = {}
  BY <1>0, <1>2, <1>3 DEF Snapshots, UpToDate
<1>5. ASSUME NEW i \in DOMAIN wire', CleanAt(i)'
      PROVE  /\ wire'[i].game = game.row /\ wire'[i].mine = Mine /\ Calm
             /\ \A j \in DOMAIN wire' : j > i =>
                  j \notin Results' /\ (game.row.status = "FINISHED" => wire'[j].type # "TURN")
  <2>1. i + 1 \in DOMAIN wire /\ CleanAt(i + 1) /\ wire'[i] = wire[i + 1] /\ i \in Nat
    BY <1>1, <1>5 DEF CleanAt
  <2>2. /\ wire[i + 1].game = game.row /\ wire[i + 1].mine = Mine /\ Calm
        /\ \A j \in DOMAIN wire : j > i + 1 =>
             j \notin Results /\ (game.row.status = "FINISHED" => wire[j].type # "TURN")
    BY <2>1 DEF Snapshots
  <2>3. ASSUME NEW j \in DOMAIN wire', j > i
        PROVE  j \notin Results' /\ (game.row.status = "FINISHED" => wire'[j].type # "TURN")
    <3>1. j + 1 \in DOMAIN wire /\ wire'[j] = wire[j + 1] /\ j + 1 > i + 1
      BY <1>1, <2>1, <2>3
    <3> QED
      BY <2>2, <3>1 DEF Results
  <2> QED
    BY <2>1, <2>2, <2>3
<1> QED
  BY <1>0, <1>2, <1>4, <1>5 DEF Snapshots

LEMMA SnapshotsOutside ==
  ASSUME TypeInv, Snapshots, Outside
  PROVE  Snapshots'
<1>0. UNCHANGED <<game, load, thread>> /\ (wire' = wire \/ wire' = <<>>)
  BY DEF Outside
<1>1. (Calm' <=> Calm) /\ Mine' = Mine
  BY <1>0 DEF Calm, Unannounced, Announcing, Mine
<1>2. CASE wire' = wire
  BY <1>0, <1>1, <1>2 DEF Snapshots, UpToDate, CleanAt, Results
<1>3. CASE wire' = <<>>
  <2>1. DOMAIN wire' = {}
    BY <1>3
  <2>2. Results' = {}
    BY <2>1 DEF Results
  <2> QED
    BY <1>0, <1>1, <2>1, <2>2 DEF Snapshots, UpToDate
<1> QED
  BY <1>0, <1>2, <1>3

LEMMA SnapshotsLoad ==
  ASSUME TypeInv, Snapshots, LoadReads \/ LoadFails \/ LoadArrives
  PROVE  Snapshots'
<1>0. UNCHANGED <<game, thread, wire>> /\ load \in Locals
  BY Parts DEF LoadReads, LoadFails, LoadArrives, server, TypeInv
<1>1. (Calm' <=> Calm) /\ Mine' = Mine /\ Results' = Results
  BY <1>0 DEF Calm, Unannounced, Announcing, Mine, Results
<1>2. UpToDate(load)' /\ (load'.clean /\ load'.pc \in {"guesses", "send"} => Results' = {})
  <2>1. CASE LoadReads /\ load.pc = "game"
    <3> DEFINE clean == /\ NobodyAnnounces({})
                        /\ \A i \in DOMAIN wire : wire[i].type # "RESULT"
    <3>1. load' = ReadGame(load, clean)
      BY <2>1 DEF LoadReads
    <3>2. clean \in BOOLEAN
      BY DEF NobodyAnnounces
    <3>3. clean => Calm /\ Results = {}
      BY CalmNow DEF Results
    <3> HIDE DEF clean
    <3>4. load'.pc = "guesses" /\ load'.view = game.row /\ load'.clean = clean
      BY <1>0, <3>1, <3>2, ReadFacts
    <3> QED
      BY <1>0, <1>1, <3>3, <3>4 DEF UpToDate
  <2>2. CASE LoadReads /\ load.pc = "guesses"
    <3>1. load' = ReadGuesses(load)
      BY <2>2 DEF LoadReads
    <3>2. /\ load'.pc = "send" /\ load'.view = load.view /\ load'.mine = Mine
          /\ load'.clean = load.clean
      BY <1>0, <3>1, ReadFacts
    <3>3. UpToDate(load) /\ (load.clean => Results = {})
      BY <2>2 DEF Snapshots
    <3> QED
      BY <1>0, <1>1, <2>2, <3>2, <3>3 DEF UpToDate
  <2>3. CASE LoadFails \/ LoadArrives
    <3>1. load'.pc = "idle"
      BY <1>0, <2>3, LocalParts DEF LoadFails, LoadArrives
    <3> QED
      BY <3>1 DEF UpToDate
  <2> QED
    BY <2>1, <2>2, <2>3 DEF LoadReads
<1> QED
  BY <1>0, <1>1, <1>2 DEF Snapshots, UpToDate, CleanAt

LEMMA SnapshotsStep ==
  ASSUME TypeInv, Snapshots, [Next]_vars
  PROVE  Snapshots'
BY Steps, SnapshotsTransaction, SnapshotsMove, SnapshotsReceive, SnapshotsOutside, SnapshotsLoad

-----------------------------------------------------------------------------
(* The guesses of Me are shown, on the wire, or yet to be announced        *)

LEMMA MineFacts ==
  ASSUME TypeInv
  PROVE  /\ Mine \in Seq(Guesses) /\ Len(Mine) \in Nat /\ DOMAIN Mine = 1 .. Len(Mine)
         /\ page \in Pages /\ page.mine \in Seq(Guesses) /\ Len(page.mine) \in Nat
         /\ \A t \in Threads : Unannounced(t) => thread[t].nth \in 1 .. Len(Mine)
<1>1. page \in Pages /\ page.mine \in Seq(Guesses) /\ Mine \in Seq(Guesses)
  BY Parts, PageParts DEF TypeInv, TypeOK, Pages
<1>2. DOMAIN Mine = 1 .. Len(Mine)
  BY <1>1, LenProperties
<1>3. \A t \in Threads : Unannounced(t) => thread[t].nth \in DOMAIN Mine
  BY DEF TypeInv, Made, Unannounced, Mine
<1> QED
  BY <1>1, <1>2, <1>3, LenProperties

LEMMA InStepSame ==
  ASSUME InStep, Mine' = Mine, page'.mine = page.mine, Results' = Results,
         \A i \in Results : wire'[i] = wire[i],
         \A t \in Threads : /\ Unannounced(t)' <=> Unannounced(t)
                            /\ Unannounced(t) => thread'[t].nth = thread[t].nth
  PROVE  InStep'
BY DEF InStep

(* A snapshot that is clean puts the page in step.                         *)
LEMMA InStepAnew ==
  ASSUME TypeInv, page'.mine = Mine, Mine' = Mine, Results' = {},
         \A t \in Threads : ~Unannounced(t)'
  PROVE  InStep'
<1>1. Len(page'.mine) = Len(Mine) /\ Len(Mine) \in Nat
  BY MineFacts
<1> QED
  BY <1>1 DEF InStep

LEMMA GuessTransaction ==
  ASSUME TypeInv, GuessInv, NEW t \in Threads, Transaction(t)
  PROVE  GuessInv'
<1>1. PICK local \in Locals :
        /\ thread[t].pc = "idle"
        /\ Spoils(t, local) /\ UNCHANGED <<page, mixed>>
        /\ \/ Begins(local) \/ CallsOff(local)
           \/ \E p \in Players, g \in Guesses : Plays(local, p, g)
  BY DEF Transaction
<1>2. ASSUME NEW u \in Threads, u # t
      PROVE  (Unannounced(u)' <=> Unannounced(u)) /\ thread'[u].nth = thread[u].nth
  <2>1. thread[u] \in Locals /\ thread'[u] = Spoil(thread[u])
    BY <1>1, <1>2, Parts DEF Spoils, TypeInv
  <2> QED
    BY <2>1, SpoilFacts DEF Unannounced
<1>3. ~Unannounced(t) /\ thread'[t] = local
  BY <1>1 DEF Unannounced, Spoils
<1>4. Results' = Results /\ \A i \in Results : wire'[i] = wire[i]
  BY <1>1 DEF Results, Spoils
<1>5. ASSUME Mine' = Mine, ~Unannounced(t)' PROVE GuessInv'
  <2>1. Genuine' /\ Apart'
    BY <1>2, <1>3, <1>4, <1>5 DEF GuessInv, Genuine, Apart
  <2>2. ~mixed /\ ~page.left => InStep'
    BY <1>1, <1>2, <1>3, <1>4, <1>5, InStepSame DEF GuessInv
  <2> QED
    BY <1>1, <2>1, <2>2 DEF GuessInv
<1>6. ASSUME NEW g \in Guesses, Plays(local, Me, g) PROVE GuessInv'
  <2> DEFINE n == Len(Mine) + 1
  <2>1. Mine' = Append(Mine, g)
    BY <1>6, Parts DEF Plays, Mine, TypeInv, Players
  <2>2. thread'[t].nth = n /\ Unannounced(t)'
    BY <1>3, <1>6 DEF Plays, Mine, Unannounced
  <2>3. /\ DOMAIN Mine = 1 .. n - 1 /\ DOMAIN Mine' = 1 .. n /\ n \in Nat /\ Len(Mine') = n
        /\ \A i \in 1 .. n - 1 : Mine'[i] = Mine[i]
    BY <2>1, Appended, MineFacts
  <2>4. /\ Len(Mine) = n - 1 /\ Len(page.mine) \in Nat
        /\ \A u \in Threads : Unannounced(u) => thread[u].nth \in 1 .. n - 1
    BY <2>3, MineFacts
  <2> HIDE DEF n
  <2>5. \A i \in Results : wire[i].nth \in 1 .. n - 1 /\ wire[i].guess = Mine[wire[i].nth]
    BY <2>3 DEF GuessInv, Genuine
  <2>6. Genuine'
    BY <1>4, <2>3, <2>5 DEF Genuine
  <2>7. Apart'
    BY <1>2, <2>2, <2>3, <2>4 DEF GuessInv, Apart
  <2>8. ASSUME InStep PROVE InStep'
    <3> DEFINE k == Len(page.mine)
    <3>1. k <= n - 1 /\ \A i \in 1 .. k : page.mine[i] = Mine[i]
      BY <2>4, <2>8 DEF InStep
    <3>2. \A i \in 1 .. k : page.mine[i] = Mine'[i]
      BY <2>3, <2>4, <3>1
    <3>3. \A i \in Results : /\ k < wire[i].nth
                             /\ \A j \in Results : i < j => wire[i].nth < wire[j].nth
      BY <2>8 DEF InStep
    <3>4. ASSUME NEW u \in Threads, Unannounced(u)'
          PROVE  k < thread'[u].nth /\ \A i \in Results : wire[i].nth < thread'[u].nth
      <4>1. CASE u = t
        BY <2>2, <2>3, <2>4, <2>5, <3>1, <4>1
      <4>2. CASE u # t
        BY <1>2, <2>8, <3>4, <4>2 DEF InStep
      <4> QED
        BY <4>1, <4>2
    <3>5. ASSUME NEW m \in k + 1 .. n
          PROVE  \/ \E i \in Results : wire[i].nth = m
                 \/ \E u \in Threads : Unannounced(u)' /\ thread'[u].nth = m
      <4>1. CASE m = n
        BY <2>2, <4>1
      <4>2. CASE m # n
        <5>1. m \in k + 1 .. Len(Mine)
          BY <2>3, <2>4, <4>2
        <5>2. \/ \E i \in Results : wire[i].nth = m
              \/ \E u \in Threads : Unannounced(u) /\ thread[u].nth = m
          BY <2>8, <5>1 DEF InStep
        <5> QED
          BY <1>2, <1>3, <5>2
      <4> QED
        BY <4>1, <4>2
    <3>6. k <= n
      BY <2>3, <2>4, <3>1
    <3>7. Len(page'.mine) = k /\ page' = page
      BY <1>1
    <3> HIDE DEF k
    <3> QED
      BY <1>4, <2>3, <3>2, <3>3, <3>4, <3>5, <3>6, <3>7 DEF InStep
  <2> QED
    BY <1>1, <2>6, <2>7, <2>8 DEF GuessInv
<1>7. CASE Begins(local) \/ CallsOff(local)
  <2>1. Mine' = Mine /\ ~Unannounced(t)'
    BY <1>3, <1>7 DEF Begins, CallsOff, Mine, Unannounced
  <2> QED
    BY <1>5, <2>1
<1>8. ASSUME NEW g \in Guesses, Plays(local, Opp, g) PROVE GuessInv'
  <2>1. Mine' = Mine /\ ~Unannounced(t)'
    BY <1>3, <1>8, Parts DEF Plays, Mine, Unannounced, TypeInv, Players
  <2> QED
    BY <1>5, <2>1
<1> QED
  BY <1>1, <1>6, <1>7, <1>8 DEF Players

LEMMA GuessMove ==
  ASSUME TypeInv, GuessInv, NEW t \in Threads, Move(t)
  PROVE  GuessInv'
<1>0. UNCHANGED <<game, page>> /\ Mine' = Mine /\ wire \in Seq(Messages) /\ (mixed => mixed')
  BY Parts DEF Move, Mine, TypeInv
<1>1. ASSUME NEW u \in Threads, Unannounced(u)'
      PROVE  Unannounced(u) /\ thread'[u].nth = thread[u].nth
  BY <1>1 DEF Move, Unannounced
<1>2. Apart'
  BY <1>1 DEF GuessInv, Apart
<1>3. ASSUME wire' = wire, wire' # Append(wire, Result(t)) PROVE GuessInv'
  <2>1. Results' = Results
    BY <1>3 DEF Results
  <2>2. Genuine'
    BY <1>0, <1>3, <2>1 DEF GuessInv, Genuine
  <2>3. ASSUME ~mixed', ~page'.left PROVE InStep'
    <3>1. ASSUME NEW u \in Threads PROVE Unannounced(u)' <=> Unannounced(u)
      BY <1>1, <1>3, <2>3 DEF Move, Unannounced
    <3>2. InStep
      BY <1>0, <2>3 DEF GuessInv
    <3> QED
      BY <1>0, <1>1, <1>3, <2>1, <3>1, <3>2, InStepSame
  <2> QED
    BY <1>2, <2>2, <2>3 DEF GuessInv
<1>4. wire # Append(wire, Result(t))
  <2> DEFINE r == Result(t)
  <2> HIDE DEF r
  <2>1. Len(wire) \in Nat /\ Len(Append(wire, r)) = Len(wire) + 1
    BY <1>0, Appended
  <2>2. wire # Append(wire, r)
    BY <2>1
  <2> QED
    BY <2>2 DEF r
<1>5. ASSUME NEW m, Sends(t, m) PROVE GuessInv'
  <2> DEFINE n == Len(wire) + 1
             k == Len(page.mine)
  <2>1. m \in Messages /\ wire' = Append(wire, m)
    BY <1>5 DEF Sends
  <2>2. /\ DOMAIN wire = 1 .. n - 1 /\ DOMAIN wire' = 1 .. n /\ n \in Nat \ {0}
        /\ wire'[n] = m /\ \A i \in 1 .. n - 1 : wire'[i] = wire[i]
    BY <1>0, <2>1, Appended
  <2>3. m = wire'[Len(wire) + 1]
    BY <2>2
  <2> HIDE DEF n
  <2>4. CASE m.type # "RESULT" \/ m.by # Me
    <3>1. Results' = Results /\ \A i \in Results : wire'[i] = wire[i]
      BY <2>2, <2>4 DEF Results
    <3>2. Genuine'
      BY <1>0, <3>1 DEF GuessInv, Genuine
    <3>3. ASSUME ~mixed', ~page'.left PROVE InStep'
      <4>1. ~(Unannounced(t) /\ wire' = Append(wire, Result(t)))
        <5>1. SUFFICES ASSUME Unannounced(t), wire' = Append(wire, Result(t)) PROVE FALSE
          OBVIOUS
        <5>2. m = Result(t)
          <6> DEFINE r == Result(t)
          <6>1. wire' = Append(wire, r)
            BY <5>1
          <6> HIDE DEF r
          <6>2. wire'[Len(wire) + 1] = r
            BY <1>0, <6>1, Appended
          <6> QED
            BY <2>3, <6>2 DEF r
        <5> QED
          BY <2>4, <5>1, <5>2 DEF Result, Unannounced
      <4>2. ASSUME NEW u \in Threads PROVE Unannounced(u)' <=> Unannounced(u)
        BY <1>1, <3>3, <4>1 DEF Move, Unannounced
      <4>3. InStep
        BY <1>0, <3>3 DEF GuessInv
      <4> QED
        BY <1>0, <1>1, <3>1, <4>2, <4>3, InStepSame
    <3> QED
      BY <1>2, <3>2, <3>3 DEF GuessInv
  <2>5. CASE m.type = "RESULT" /\ m.by = Me
    <3>1. /\ m.nth = thread[t].nth /\ m.guess = Mine[m.nth] /\ Unannounced(t) /\ ~Unannounced(t)'
          /\ Overtakes(t) => mixed'
      BY <1>5, <2>5 DEF Sends, Result, Announced, Mine, Unannounced
    <3>2. /\ Results' = Results \cup {n} /\ n \notin Results
          /\ \A i \in Results : wire'[i] = wire[i] /\ i \in 1 .. n - 1
      <4>1. \A i \in Results : i \in 1 .. n - 1 /\ wire'[i] = wire[i]
        BY <2>2 DEF Results
      <4>2. n \in Results' /\ Results \subseteq Results'
        <5>1. n \in 1 .. n /\ 1 .. n - 1 \subseteq 1 .. n
          BY <2>2
        <5>2. n \in Results'
          BY <2>2, <2>5, <5>1 DEF Results
        <5>3. ASSUME NEW i \in Results PROVE i \in Results'
          <6>1. i \in DOMAIN wire' /\ wire'[i] = wire[i]
            BY <2>2, <4>1, <5>1
          <6>2. wire[i].type = "RESULT" /\ wire[i].by = Me
            BY DEF Results
          <6> QED
            BY <6>1, <6>2 DEF Results
        <5> QED
          BY <5>2, <5>3
      <4>3. ASSUME NEW i \in Results', i # n PROVE i \in Results
        BY <2>2, <4>3 DEF Results
      <4>4. n \notin 1 .. n - 1
        BY <2>2
      <4> QED
        BY <4>1, <4>2, <4>3, <4>4
    <3>3. m.nth \in 1 .. Len(Mine) /\ DOMAIN Mine = 1 .. Len(Mine) /\ Len(Mine) \in Nat
          /\ k \in Nat
      BY <3>1, MineFacts
    <3>4. Genuine'
      BY <1>0, <2>2, <3>1, <3>2, <3>3 DEF GuessInv, Genuine
    <3>5. ASSUME ~mixed', ~page'.left PROVE InStep'
      <4>1. InStep /\ ~Overtakes(t) /\ thread[t].by = Me
        BY <1>0, <3>1, <3>5 DEF GuessInv, Unannounced
      <4>2. ASSUME NEW u \in Threads, Unannounced(u)'
            PROVE  Unannounced(u) /\ thread'[u].nth = thread[u].nth /\ m.nth < thread[u].nth
        <5>1. u # t /\ Unannounced(u) /\ thread'[u].nth = thread[u].nth
          BY <1>1, <3>1, <4>2
        <5>2. thread[u].nth # thread[t].nth
          BY <3>1, <5>1 DEF GuessInv, Apart
        <5>3. ~(thread[u].nth < thread[t].nth)
          BY <4>1, <5>1 DEF Overtakes
        <5>4. thread[u].nth \in 1 .. Len(Mine) /\ thread[t].nth \in 1 .. Len(Mine)
          BY <3>1, <5>1, MineFacts
        <5> QED
          BY <3>1, <3>3, <5>1, <5>2, <5>3, <5>4
      <4>3. k <= Len(Mine) /\ \A i \in 1 .. k : page.mine[i] = Mine[i]
        BY <4>1 DEF InStep
      <4>4. k < m.nth /\ \A i \in Results : k < wire[i].nth /\ wire[i].nth < m.nth
        BY <3>1, <4>1 DEF InStep
      <4>5. \A i, j \in Results : i < j => wire[i].nth < wire[j].nth
        BY <4>1 DEF InStep
      <4>6. ASSUME NEW i \in Results'
            PROVE  k < wire'[i].nth /\ \A j \in Results' : i < j => wire'[i].nth < wire'[j].nth
        BY <2>2, <3>2, <4>4, <4>5
      <4>7. ASSUME NEW u \in Threads, Unannounced(u)'
            PROVE  k < thread'[u].nth /\ \A i \in Results' : wire'[i].nth < thread'[u].nth
        <5>1. Unannounced(u) /\ thread'[u].nth = thread[u].nth /\ m.nth < thread[u].nth
          BY <4>2, <4>7
        <5>2. k < thread[u].nth /\ \A i \in Results : wire[i].nth < thread[u].nth
          BY <4>1, <5>1 DEF InStep
        <5> QED
          BY <2>2, <3>2, <5>1, <5>2
      <4>8. ASSUME NEW j \in k + 1 .. Len(Mine)
            PROVE  \/ \E i \in Results' : wire'[i].nth = j
                   \/ \E u \in Threads : Unannounced(u)' /\ thread'[u].nth = j
        <5>1. \/ \E i \in Results : wire[i].nth = j
              \/ \E u \in Threads : Unannounced(u) /\ thread[u].nth = j
          BY <4>1 DEF InStep
        <5>2. ASSUME NEW u \in Threads, u # t, Unannounced(u)
              PROVE  Unannounced(u)' /\ thread'[u].nth = thread[u].nth
          BY <5>2 DEF Move, Unannounced
        <5>3. n \in Results' /\ wire'[n].nth = thread[t].nth
          BY <2>2, <3>1, <3>2
        <5> QED
          BY <3>2, <5>1, <5>2, <5>3
      <4>9. Len(page'.mine) = k /\ page' = page
        BY <1>0
      <4> HIDE DEF k
      <4> QED
        BY <1>0, <4>3, <4>6, <4>7, <4>8, <4>9 DEF InStep
    <3> QED
      BY <1>2, <3>4, <3>5 DEF GuessInv
  <2> QED
    BY <2>4, <2>5
<1> QED
  BY <1>3, <1>4, <1>5 DEF Move

LEMMA GuessOutside ==
  ASSUME TypeInv, GuessInv, Outside
  PROVE  GuessInv'
<1>0. UNCHANGED <<game, thread>> /\ Mine' = Mine /\ (mixed => mixed')
  BY DEF Outside, Mine
<1>1. Apart' /\ \A t \in Threads : Unannounced(t)' <=> Unannounced(t)
  BY <1>0 DEF GuessInv, Apart, Unannounced
<1>2. CASE wire' = wire
  <2>1. Results' = Results
    BY <1>2 DEF Results
  <2>2. Genuine'
    BY <1>0, <1>2, <2>1 DEF GuessInv, Genuine
  <2>3. ASSUME ~mixed', ~page'.left PROVE InStep'
    <3>1. page'.mine = page.mine /\ InStep
      BY <1>0, <2>3 DEF Outside, GuessInv
    <3> QED
      BY <1>0, <1>1, <1>2, <2>1, <3>1, InStepSame
  <2> QED
    BY <1>1, <2>2, <2>3 DEF GuessInv
<1>3. CASE wire' = <<>> /\ mixed'
  <2>1. Results' = {}
    BY <1>3 DEF Results
  <2> QED
    BY <1>1, <1>3, <2>1 DEF GuessInv, Genuine
<1> QED
  BY <1>2, <1>3 DEF Outside

LEMMA GuessLoad ==
  ASSUME TypeInv, GuessInv, Snapshots, LoadReads \/ LoadFails \/ LoadArrives
  PROVE  GuessInv'
<1>0. UNCHANGED <<game, thread, wire>> /\ Mine' = Mine /\ Results' = Results
  BY DEF LoadReads, LoadFails, LoadArrives, server, Mine, Results
<1>1. Genuine' /\ Apart' /\ \A t \in Threads : Unannounced(t)' <=> Unannounced(t)
  BY <1>0 DEF GuessInv, Genuine, Apart, Unannounced
<1>2. CASE LoadReads \/ LoadFails
  <2>1. UNCHANGED <<page, mixed>>
    BY <1>2 DEF LoadReads, LoadFails
  <2>2. InStep => InStep'
    BY <1>0, <1>1, <2>1, InStepSame
  <2> QED
    BY <1>1, <2>1, <2>2 DEF GuessInv
<1>3. CASE LoadArrives
  <2>1. ASSUME ~mixed', ~page'.left PROVE InStep'
    <3> DEFINE view == SetState(page, Snapshot(load))
    <3>1. load.pc = "send" /\ load.clean /\ load \in Locals
      BY <1>3, <2>1, Parts DEF LoadArrives, TypeInv
    <3>2. page' = [view EXCEPT !.over = view.over \/ view.game.status = "FINISHED"]
      BY <1>3, <2>1 DEF LoadArrives
    <3>3. view \in Pages /\ view.mine = load.mine
      BY <3>1, SetStateFacts, MineFacts, LocalParts DEF Snapshot
    <3> HIDE DEF view
    <3>4. page'.mine = load.mine
      BY <3>2, <3>3, PageParts
    <3>5. load.mine = Mine /\ Results = {} /\ Calm
      BY <3>1 DEF Snapshots, UpToDate
    <3>6. \A t \in Threads : ~Unannounced(t)'
      BY <1>1, <3>5 DEF Calm
    <3> QED
      BY <1>0, <3>4, <3>5, <3>6, InStepAnew
  <2> QED
    BY <1>1, <2>1 DEF GuessInv
<1> QED
  BY <1>2, <1>3

(* The result of Me that is received is the result of the next guess.      *)
LEMMA NextGuess ==
  ASSUME TypeInv, Genuine, InStep, wire # <<>>, 1 \in Results
  PROVE  wire[1].nth = Len(page.mine) + 1 /\ wire[1].nth <= Len(Mine)
<1> DEFINE k == Len(page.mine)
<1>0. k \in Nat /\ Len(Mine) \in Nat /\ DOMAIN Mine = 1 .. Len(Mine) /\ k <= Len(Mine)
  BY MineFacts DEF InStep
<1>1. wire[1].nth \in 1 .. Len(Mine) /\ k < wire[1].nth
  BY <1>0 DEF Genuine, InStep
<1>2. \/ \E i \in Results : wire[i].nth = k + 1
      \/ \E t \in Threads : Unannounced(t) /\ thread[t].nth = k + 1
  <2>1. k + 1 \in k + 1 .. Len(Mine)
    BY <1>0, <1>1
  <2> QED
    BY <2>1 DEF InStep
<1>3. ASSUME NEW i \in Results PROVE i = 1 \/ wire[1].nth < wire[i].nth
  <2>1. i \in DOMAIN wire /\ wire \in Seq(Messages)
    BY Parts DEF Results, TypeInv
  <2>2. i = 1 \/ 1 < i
    BY <2>1, Taken
  <2> QED
    BY <2>2 DEF InStep
<1>4. ASSUME NEW t \in Threads, Unannounced(t) PROVE wire[1].nth < thread[t].nth
  BY <1>4 DEF InStep
<1> QED
  BY <1>0, <1>1, <1>2, <1>3, <1>4

LEMMA GuessReceive ==
  ASSUME TypeInv, GuessInv, Snapshots, Receive
  PROVE  GuessInv'
<1> DEFINE msg == Head(wire)
           k == Len(page.mine)
<1>0. /\ UNCHANGED <<game, thread>> /\ Mine' = Mine
      /\ wire \in Seq(Messages) /\ wire # <<>> /\ wire' = Tail(wire)
  BY Parts DEF Receive, TypeInv, server, Mine
<1>1. /\ msg = wire[1] /\ msg \in Messages /\ 1 \in DOMAIN wire
      /\ \A i \in DOMAIN wire' : i + 1 \in DOMAIN wire /\ wire'[i] = wire[i + 1] /\ i \in Nat
      /\ \A i \in DOMAIN wire : i \in Nat /\ (i # 1 => i > 1 /\ i - 1 \in DOMAIN wire')
  BY <1>0, Taken
<1>2. \A t \in Threads : Unannounced(t)' <=> Unannounced(t)
  BY <1>0 DEF Unannounced
<1>3. /\ \A i \in Results' : i + 1 \in Results /\ wire'[i] = wire[i + 1] /\ i \in Nat
      /\ \A i \in Results : i # 1 => i - 1 \in Results' /\ wire'[i - 1] = wire[i]
  <2>1. ASSUME NEW i \in Results' PROVE i + 1 \in Results /\ wire'[i] = wire[i + 1] /\ i \in Nat
    BY <1>1 DEF Results
  <2>2. ASSUME NEW i \in Results, i # 1 PROVE i - 1 \in Results' /\ wire'[i - 1] = wire[i]
    <3>1. i \in Nat /\ i > 1 /\ i - 1 \in DOMAIN wire'
      BY <1>1, <2>2 DEF Results
    <3>2. wire'[i - 1] = wire[i]
      BY <1>1, <3>1
    <3> QED
      BY <3>1, <3>2 DEF Results
  <2> QED
    BY <2>1, <2>2
<1>4. Genuine' /\ Apart'
  <2>1. ASSUME NEW i \in Results'
        PROVE  wire'[i].nth \in DOMAIN Mine /\ wire'[i].guess = Mine[wire'[i].nth]
    <3>1. i + 1 \in Results /\ wire'[i] = wire[i + 1]
      BY <1>3
    <3> QED
      BY <3>1 DEF GuessInv, Genuine
  <2>2. Genuine'
    BY <1>0, <2>1 DEF Genuine
  <2> QED
    BY <1>0, <1>2, <2>2 DEF GuessInv, Apart
<1>5. ASSUME ~mixed', ~page'.left PROVE InStep'
  <2>1. ~page.left /\ page' = Reduce(page, msg) /\ page \in Pages
    BY <1>5, MineFacts DEF Receive
  <2>2. mixed' = IF msg.type = "SYNC" THEN ~msg.clean ELSE mixed
    BY DEF Receive
  <2> HIDE DEF msg
  <2>3. CASE msg.type = "SYNC"
    <3>1. CleanAt(1)
      BY <1>1, <1>5, <2>2, <2>3, MessageFacts DEF CleanAt
    <3>2. /\ msg.mine = Mine /\ Calm /\ \A j \in DOMAIN wire : j > 1 => j \notin Results
      BY <1>1, <3>1 DEF Snapshots
    <3>3. Results' = {}
      <4>1. SUFFICES ASSUME NEW i \in Results' PROVE FALSE
        OBVIOUS
      <4>2. i + 1 \in Results /\ i + 1 \in DOMAIN wire /\ i \in Nat
        BY <1>3 DEF Results
      <4>3. i \in DOMAIN wire'
        BY DEF Results
      <4>4. i > 0
        <5>1. Tail(wire) \in Seq(Messages)
          BY <1>0, Taken
        <5> QED
          BY <1>0, <4>3, <5>1, LenProperties
      <4> QED
        BY <3>2, <4>2, <4>4
    <3>4. page'.mine = Mine
      <4>1. msg \in Messages /\ page \in Pages /\ page' = SetState(page, msg)
        BY <1>1, <2>1, <2>3, ReduceFacts
      <4>2. msg.game \in Rows /\ msg.mine \in Shown /\ msg.count \in Nat
        BY <2>3, <4>1, MessageFacts
      <4> QED
        BY <3>2, <4>1, <4>2, SetStateFacts
    <3>5. \A t \in Threads : ~Unannounced(t)'
      BY <1>2, <3>2 DEF Calm
    <3> QED
      BY <1>0, <3>3, <3>4, <3>5, InStepAnew
  <2>4. CASE msg.type = "RESULT" /\ msg.by = Me
    <3>0. InStep /\ 1 \in Results /\ k \in Nat /\ Len(Mine) \in Nat
      BY <1>1, <1>5, <2>1, <2>2, <2>4, MineFacts DEF GuessInv, Results
    <3>1. msg.nth = k + 1 /\ msg.nth <= Len(Mine) /\ msg.guess = Mine[k + 1]
      BY <1>0, <1>1, <3>0, NextGuess DEF GuessInv, Genuine
    <3>2. page'.mine = Append(page.mine, msg.guess)
      BY <1>1, <2>1, <2>4, ReduceFacts
    <3>3. /\ Len(page'.mine) = k + 1
          /\ \A i \in 1 .. k : page'.mine[i] = page.mine[i]
          /\ page'.mine[k + 1] = msg.guess
      BY <3>2, MineFacts, Appended
    <3> HIDE DEF k
    <3>4. \A i \in 1 .. k : page.mine[i] = Mine[i]
      BY <3>0 DEF InStep, k
    <3>5. \A i \in 1 .. k + 1 : page'.mine[i] = Mine[i]
      BY <3>0, <3>1, <3>3, <3>4
    <3>6. \A i \in Results : /\ i # 1 => k + 1 < wire[i].nth
                             /\ \A j \in Results : i < j => wire[i].nth < wire[j].nth
      <4>1. \A i \in Results : \A j \in Results : i < j => wire[i].nth < wire[j].nth
        BY <3>0 DEF InStep
      <4>2. \A i \in Results : i # 1 => 1 < i
        BY <1>1 DEF Results
      <4> QED
        BY <1>1, <3>0, <3>1, <4>1, <4>2
    <3>7. \A i \in Results' : i # 0
      <4>1. Tail(wire) \in Seq(Messages)
        BY <1>0, Taken
      <4> QED
        BY <1>0, <4>1, LenProperties DEF Results
    <3>8. ASSUME NEW i \in Results'
          PROVE  /\ k + 1 < wire'[i].nth
                 /\ \A j \in Results' : i < j => wire'[i].nth < wire'[j].nth
      <4>1. i + 1 \in Results /\ wire'[i] = wire[i + 1] /\ i \in Nat /\ i # 0
        BY <1>3, <3>7
      <4>2. ASSUME NEW j \in Results', i < j
            PROVE  j + 1 \in Results /\ wire'[j] = wire[j + 1] /\ i + 1 < j + 1
        <5>1. j + 1 \in Results /\ wire'[j] = wire[j + 1] /\ j \in Nat
          BY <1>3
        <5> QED
          BY <4>1, <4>2, <5>1
      <4> QED
        BY <3>6, <4>1, <4>2
    <3>9. ASSUME NEW t \in Threads, Unannounced(t)'
          PROVE  k + 1 < thread'[t].nth /\ \A i \in Results' : wire'[i].nth < thread'[t].nth
      <4>1. Unannounced(t) /\ \A i \in Results : wire[i].nth < thread[t].nth
        BY <1>2, <3>0, <3>9 DEF InStep
      <4> QED
        BY <1>0, <1>1, <1>3, <3>0, <3>1, <4>1
    <3>10. ASSUME NEW n \in k + 2 .. Len(Mine)
           PROVE  \/ \E i \in Results' : wire'[i].nth = n
                  \/ \E t \in Threads : Unannounced(t)' /\ thread'[t].nth = n
      <4>1. n \in k + 1 .. Len(Mine) /\ n # k + 1
        BY <3>0
      <4>2. \/ \E i \in Results : wire[i].nth = n
            \/ \E t \in Threads : Unannounced(t) /\ thread[t].nth = n
        BY <3>0, <4>1 DEF InStep, k
      <4>3. ASSUME NEW i \in Results, wire[i].nth = n PROVE \E j \in Results' : wire'[j].nth = n
        BY <1>1, <1>3, <3>1, <4>1, <4>3
      <4> QED
        BY <1>0, <1>2, <4>2, <4>3
    <3>11. k + 1 <= Len(Mine) /\ k + 1 + 1 = k + 2
      BY <3>0, <3>1
    <3> QED
      BY <1>0, <3>3, <3>5, <3>8, <3>9, <3>10, <3>11 DEF InStep
  <2>5. CASE msg.type # "SYNC" /\ ~(msg.type = "RESULT" /\ msg.by = Me)
    <3>0. InStep /\ 1 \notin Results
      BY <1>1, <1>5, <2>1, <2>2, <2>5 DEF GuessInv, Results
    <3>1. page'.mine = page.mine
      <4>1. msg \in Messages /\ page \in Pages /\ page' = Reduce(page, msg)
        BY <1>1, <2>1
      <4>2. msg.type \in {"TURN", "RESULT", "OVER"}
        BY <2>5, <4>1, MessageFacts
      <4> QED
        BY <2>5, <4>1, <4>2, ReduceFacts
    <3>2. ASSUME NEW i \in Results'
          PROVE  /\ k < wire'[i].nth
                 /\ \A j \in Results' : i < j => wire'[i].nth < wire'[j].nth
      <4>1. i + 1 \in Results /\ wire'[i] = wire[i + 1] /\ i \in Nat
        BY <1>3
      <4>2. ASSUME NEW j \in Results', i < j
            PROVE  j + 1 \in Results /\ wire'[j] = wire[j + 1] /\ i + 1 < j + 1
        <5>1. j + 1 \in Results /\ wire'[j] = wire[j + 1] /\ j \in Nat
          BY <1>3
        <5> QED
          BY <4>1, <4>2, <5>1
      <4> QED
        BY <3>0, <4>1, <4>2 DEF InStep
    <3>3. ASSUME NEW t \in Threads, Unannounced(t)'
          PROVE  k < thread'[t].nth /\ \A i \in Results' : wire'[i].nth < thread'[t].nth
      BY <1>0, <1>2, <1>3, <3>0, <3>3 DEF InStep
    <3>4. ASSUME NEW n \in k + 1 .. Len(Mine)
          PROVE  \/ \E i \in Results' : wire'[i].nth = n
                 \/ \E t \in Threads : Unannounced(t)' /\ thread'[t].nth = n
      <4>1. \/ \E i \in Results : wire[i].nth = n
            \/ \E t \in Threads : Unannounced(t) /\ thread[t].nth = n
        BY <3>0 DEF InStep
      <4> QED
        BY <1>0, <1>2, <1>3, <3>0, <4>1
    <3>5. k <= Len(Mine) /\ \A i \in 1 .. k : page.mine[i] = Mine[i]
      BY <3>0 DEF InStep
    <3> QED
      BY <1>0, <3>1, <3>2, <3>3, <3>4, <3>5 DEF InStep
  <2> QED
    BY <2>3, <2>4, <2>5
<1> QED
  BY <1>4, <1>5 DEF GuessInv

LEMMA GuessStep ==
  ASSUME TypeInv, Snapshots, GuessInv, [Next]_vars
  PROVE  GuessInv'
BY Steps, GuessTransaction, GuessMove, GuessReceive, GuessOutside, GuessLoad

-----------------------------------------------------------------------------
(* The page knows that the game is over, or will be told                   *)

(* A transaction that ends the game is announced by who made it.           *)
LEMMA EndTransaction ==
  ASSUME TypeInv, NEW t \in Threads, Transaction(t)
  PROVE  EndInv'
<1>1. PICK local \in Locals :
        /\ Spoils(t, local)
        /\ \/ Begins(local) \/ CallsOff(local)
           \/ \E p \in Players, g \in Guesses : Plays(local, p, g)
  BY DEF Transaction
<1>2. thread'[t] = local
  BY <1>1 DEF Spoils
<1>3. CASE Begins(local)
  BY <1>3 DEF Begins, EndInv
<1>4. CASE CallsOff(local)
  <2>1. Ends(t)'
    BY <1>2, <1>4 DEF CallsOff, Ends
  <2> QED
    BY <2>1 DEF EndInv, EndComes
<1>5. ASSUME NEW p \in Players, NEW g \in Guesses, Plays(local, p, g) PROVE EndInv'
  <2>1. SUFFICES ASSUME game'.row.status = "FINISHED" PROVE Ends(t)'
    BY DEF EndInv, EndComes
  <2>2. game.guesses \in [Players -> Shown] /\ game.guesses[p] \in Seq(Guesses)
    BY Parts DEF TypeInv, Shown
  <2>3. /\ game'.guesses[p] = Append(game.guesses[p], g) /\ IsWin(g.digits)
        /\ local.pc = "read" /\ local.by = p /\ local.nth = Len(game.guesses[p]) + 1
    BY <1>5, <2>1, <2>2 DEF Plays
  <2>4. game'.guesses[p][Len(game.guesses[p]) + 1] = g
    BY <2>2, <2>3, Appended
  <2> QED
    BY <1>2, <2>3, <2>4 DEF Ends, Wins, Announced
<1> QED
  BY <1>1, <1>3, <1>4, <1>5

LEMMA EndMove ==
  ASSUME TypeInv, EndInv, NEW t \in Threads, Move(t)
  PROVE  EndInv'
<1>1. SUFFICES ASSUME game.row.status = "FINISHED", ~mixed', ~page.left
               PROVE  Informed' \/ EndComes'
  BY DEF EndInv, Move
<1>2. UNCHANGED <<game, page>> /\ wire \in Seq(Messages) /\ (Informed \/ EndComes)
  BY <1>1, Parts DEF Move, TypeInv, EndInv
<1>3. wire' = wire \/ \E m : wire' = Append(wire, m) /\ (m.type = "TURN" => Announcing(t))
  BY DEF Move, Sends
<1>4. /\ \A i \in DOMAIN wire : i \in DOMAIN wire' /\ wire'[i] = wire[i]
      /\ \A i \in DOMAIN wire' : i \in DOMAIN wire \/ (wire'[i].type = "TURN" => Announcing(t))
  <2>1. CASE wire' = wire
    BY <2>1
  <2>2. ASSUME NEW m, wire' = Append(wire, m), m.type = "TURN" => Announcing(t)
        PROVE  <1>4!:
    <3> DEFINE n == Len(wire) + 1
    <3>1. /\ DOMAIN wire = 1 .. n - 1 /\ DOMAIN wire' = 1 .. n /\ n \in Nat \ {0}
          /\ wire'[n] = m /\ \A i \in 1 .. n - 1 : wire'[i] = wire[i]
      BY <1>2, <2>2, Appended
    <3> HIDE DEF n
    <3>2. 1 .. n = 1 .. n - 1 \cup {n}
      BY <3>1
    <3> QED
      BY <2>2, <3>1, <3>2
  <2> QED
    BY <1>3, <2>1, <2>2
<1>5. CASE Informed
  <2>1. ASSUME \A i \in DOMAIN wire : wire[i].type # "TURN", \A u \in Threads : ~Announcing(u)
        PROVE  /\ \A i \in DOMAIN wire' : wire'[i].type # "TURN"
               /\ \A u \in Threads : ~Announcing(u)'
    <3>1. \A u \in Threads : ~Announcing(u)'
      BY <1>1, <2>1 DEF Move, Announcing
    <3>2. \A i \in DOMAIN wire' : wire'[i].type # "TURN"
      BY <1>4, <2>1
    <3> QED
      BY <3>1, <3>2
  <2> QED
    BY <1>2, <1>5, <2>1 DEF Informed
<1>6. ASSUME NEW i \in DOMAIN wire, wire[i].type = "OVER" PROVE EndComes'
  BY <1>4, <1>6 DEF EndComes
<1>7. ASSUME NEW u \in Threads, Ends(u) PROVE EndComes'
  <2>1. CASE u # t
    <3>1. Ends(u)'
      BY <1>2, <1>7, <2>1 DEF Move, Ends, Wins, Announced
    <3> QED
      BY <3>1 DEF EndComes
  <2>2. CASE u = t
    <3>1. Ends(t)' \/ \E m : m.type = "OVER" /\ wire' = Append(wire, m)
      BY <1>1, <1>7, <2>2 DEF Move
    <3>2. ASSUME NEW m, m.type = "OVER", wire' = Append(wire, m) PROVE EndComes'
      <4>1. LET n == Len(wire) + 1 IN n \in DOMAIN wire' /\ wire'[n] = m
        BY <1>2, <3>2, Appended
      <4> QED
        BY <3>2, <4>1 DEF EndComes
    <3> QED
      BY <3>1, <3>2 DEF EndComes
  <2> QED
    BY <2>1, <2>2
<1> QED
  BY <1>2, <1>5, <1>6, <1>7 DEF EndComes

LEMMA EndOutside ==
  ASSUME EndInv, Outside
  PROVE  EndInv'
<1>1. SUFFICES ASSUME game.row.status = "FINISHED", ~mixed', ~page'.left
               PROVE  Informed' \/ EndComes'
  BY DEF EndInv, Outside
<1>2. /\ UNCHANGED <<game, thread, wire>> /\ page'.over = page.over /\ page'.game = page.game
      /\ Informed \/ EndComes
  BY <1>1 DEF Outside, EndInv
<1> QED
  BY <1>2 DEF Informed, EndComes, Ends, Wins, Announced, Announcing

LEMMA EndLoad ==
  ASSUME TypeInv, Snapshots, EndInv, LoadReads \/ LoadFails \/ LoadArrives
  PROVE  EndInv'
<1>1. SUFFICES ASSUME game'.row.status = "FINISHED", ~mixed', ~page'.left
               PROVE  Informed' \/ EndComes'
  BY DEF EndInv
<1>2. UNCHANGED <<game, thread, wire>>
  BY DEF LoadReads, LoadFails, LoadArrives, server
<1>3. CASE LoadReads \/ LoadFails
  <2>1. UNCHANGED <<page, mixed>>
    BY <1>3 DEF LoadReads, LoadFails
  <2> QED
    BY <1>1, <1>2, <2>1 DEF EndInv, Informed, EndComes, Ends, Wins, Announced, Announcing
<1>4. CASE LoadArrives
  <2> DEFINE view == SetState(page, Snapshot(load))
  <2>1. load.pc = "send" /\ load.clean /\ load \in Locals
    BY <1>1, <1>4, Parts DEF LoadArrives, TypeInv
  <2>2. page' = [view EXCEPT !.over = view.over \/ view.game.status = "FINISHED"]
    BY <1>1, <1>4 DEF LoadArrives
  <2>3. view \in Pages /\ view.game = load.view
    BY <2>1, SetStateFacts, MineFacts, LocalParts DEF Snapshot
  <2> HIDE DEF view
  <2>4. load.view = game.row
    BY <2>1 DEF Snapshots, UpToDate
  <2>5. page'.over
    <3>1. (view.over \/ view.game.status = "FINISHED") = TRUE
      BY <1>1, <1>2, <2>3, <2>4
    <3>2. page' = [view EXCEPT !.over = TRUE]
      BY <2>2, <3>1
    <3> QED
      BY <2>3, <3>2, PageParts
  <2> QED
    BY <2>5 DEF Informed
<1> QED
  BY <1>3, <1>4

LEMMA EndReceive ==
  ASSUME TypeInv, Snapshots, EndInv, Receive
  PROVE  EndInv'
<1> DEFINE msg == Head(wire)
<1>1. SUFFICES ASSUME game'.row.status = "FINISHED", ~mixed', ~page'.left
               PROVE  Informed' \/ EndComes'
  BY DEF EndInv
<1>2. UNCHANGED <<game, thread>> /\ wire \in Seq(Messages) /\ wire # <<>> /\ wire' = Tail(wire)
  BY Parts DEF Receive, TypeInv, server
<1>3. /\ msg = wire[1] /\ msg \in Messages /\ 1 \in DOMAIN wire
      /\ \A i \in DOMAIN wire' : i + 1 \in DOMAIN wire /\ wire'[i] = wire[i + 1] /\ i \in Nat
      /\ \A i \in DOMAIN wire : i \in Nat /\ (i # 1 => i > 1 /\ i - 1 \in DOMAIN wire')
  BY <1>2, Taken
<1>4. /\ ~page.left /\ page' = Reduce(page, msg) /\ page \in Pages
      /\ mixed' = IF msg.type = "SYNC" THEN ~msg.clean ELSE mixed
  BY <1>1, MineFacts DEF Receive
<1> HIDE DEF msg
<1>5. \A u \in Threads : (Announcing(u)' <=> Announcing(u)) /\ (Ends(u)' <=> Ends(u))
  BY <1>2 DEF Announcing, Ends, Wins, Announced
<1>6. CASE msg.type = "SYNC"
  <2>1. CleanAt(1)
    BY <1>1, <1>3, <1>4, <1>6, MessageFacts DEF CleanAt
  <2>2. /\ msg.game = game.row /\ Calm
        /\ \A j \in DOMAIN wire : j > 1 => wire[j].type # "TURN"
    BY <1>1, <1>2, <1>3, <2>1 DEF Snapshots
  <2>3. \A i \in DOMAIN wire' : wire'[i].type # "TURN"
    <3>1. SUFFICES ASSUME NEW i \in DOMAIN wire' PROVE wire'[i].type # "TURN"
      OBVIOUS
    <3>2. i > 0
      BY <1>2, Taken, LenProperties
    <3>3. i + 1 \in DOMAIN wire /\ wire'[i] = wire[i + 1] /\ i + 1 > 1
      BY <1>3, <3>2
    <3> QED
      BY <2>2, <3>3
  <2>4. page'.game = game.row
    <3>1. page' = SetState(page, msg)
      BY <1>3, <1>4, <1>6, ReduceFacts
    <3>2. msg.game \in Rows /\ msg.mine \in Shown /\ msg.count \in Nat
      BY <1>3, <1>6, MessageFacts
    <3> QED
      BY <1>4, <2>2, <3>1, <3>2, SetStateFacts
  <2>5. \A u \in Threads : ~Announcing(u)'
    BY <1>1, <1>2, <1>5, <2>2 DEF Calm
  <2> QED
    BY <1>1, <1>2, <2>3, <2>4, <2>5 DEF Informed
<1>7. CASE msg.type = "OVER"
  BY <1>3, <1>4, <1>7, ReduceFacts DEF Informed
<1>8. CASE msg.type \in {"TURN", "RESULT"}
  <2>1. Informed \/ EndComes
    BY <1>1, <1>2, <1>4, <1>8 DEF EndInv
  <2>2. page'.over = page.over
    BY <1>3, <1>4, <1>8, ReduceFacts
  <2>3. CASE page.over
    BY <2>2, <2>3 DEF Informed
  <2>4. CASE ~page.over /\ Informed
    <3>1. msg.type = "RESULT" /\ page.game.status = "FINISHED"
      BY <1>3, <1>8, <2>4 DEF Informed
    <3>2. page'.game.status = "FINISHED"
      BY <1>3, <1>4, <3>1, ReduceFacts
    <3>3. \A i \in DOMAIN wire' : wire'[i].type # "TURN"
      BY <1>3, <2>4 DEF Informed
    <3>4. \A u \in Threads : ~Announcing(u)'
      BY <1>5, <2>4 DEF Informed
    <3> QED
      BY <3>2, <3>3, <3>4 DEF Informed
  <2>5. ASSUME NEW i \in DOMAIN wire, wire[i].type = "OVER" PROVE EndComes'
    <3>1. i # 1
      BY <1>3, <1>8, <2>5
    <3>2. i \in Nat /\ i > 1 /\ i - 1 \in DOMAIN wire'
      BY <1>3, <3>1
    <3>3. wire'[i - 1] = wire[i]
      BY <1>3, <3>2
    <3> QED
      BY <2>5, <3>2, <3>3 DEF EndComes
  <2>6. ASSUME NEW u \in Threads, Ends(u) PROVE EndComes'
    BY <1>5, <2>6 DEF EndComes
  <2> QED
    BY <2>1, <2>3, <2>4, <2>5, <2>6 DEF EndComes
<1> QED
  BY <1>3, <1>6, <1>7, <1>8, MessageFacts

LEMMA EndStep ==
  ASSUME TypeInv, Snapshots, EndInv, [Next]_vars
  PROVE  EndInv'
BY Steps, EndTransaction, EndMove, EndOutside, EndLoad, EndReceive

-----------------------------------------------------------------------------
(* The theorems                                                            *)

LEMMA InitInv ==
  ASSUME Init
  PROVE  TypeInv /\ Snapshots /\ GuessInv /\ EndInv
<1>1. /\ thread = [t \in Threads |-> Idle] /\ load = [Idle EXCEPT !.pc = "game"]
      /\ wire = <<>> /\ mixed /\ hidden = {} /\ conn = 1 /\ mishaps = 0 /\ sends = 0
      /\ page = InitialPage
      /\ inbox = [c \in MyConns |-> IF c = 1 THEN <<[type |-> "SYNC_REQUEST"]>> ELSE <<>>]
  BY DEF Init
<1>2. PICK p \in Players :
        game = [row |-> Row, first |-> p, guesses |-> [q \in Players |-> <<>>]]
  BY DEF Init
<1>3. <<>> \in Shown /\ DOMAIN wire = {} /\ wire \in Seq(Messages)
  BY <1>1 DEF Shown
<1>4. game \in [row : Rows, first : Players, guesses : [Players -> Shown]] /\ game.row = Row
  BY <1>2, <1>3, RowFacts
<1>5. thread \in [Threads -> Locals] /\ \A t \in Threads : thread[t] = Idle
  BY <1>1, RowFacts
<1>6. load \in Locals /\ load.pc = "game"
  BY <1>1, RowFacts DEF Locals
<1>7. page \in Pages
  BY <1>1, <1>3, RowFacts DEF InitialPage, Pages
<1>8. inbox \in [MyConns -> Seq(Requests)]
  <2> DEFINE sync == [type |-> "SYNC_REQUEST"]
             none == <<>>
  <2>1. sync \in Requests
    BY DEF Requests
  <2>2. none \in Seq(Requests)
    BY EmptySeq
  <2>3. inbox = [c \in MyConns |-> IF c = 1 THEN <<sync>> ELSE none]
    BY <1>1
  <2> HIDE DEF sync, none
  <2>4. <<sync>> \in Seq(Requests)
    BY <2>1
  <2> QED
    BY <2>2, <2>3, <2>4
<1>9. TypeOK
  BY <1>1, <1>3, <1>4, <1>5, <1>6, <1>7, <1>8 DEF TypeOK, Pages, Requests
<1>10. TypeInv
  BY <1>4, <1>5, <1>9, RowFacts DEF TypeInv, Made
<1>11. Snapshots
  BY <1>3, <1>5, <1>6, RowFacts DEF Snapshots, UpToDate
<1>12. GuessInv /\ EndInv
  <2>1. \A t \in Threads : ~Unannounced(t)
    BY <1>5, RowFacts DEF Unannounced
  <2> QED
    BY <1>1, <1>3, <2>1 DEF GuessInv, Genuine, Apart, Results, EndInv
<1> QED
  BY <1>10, <1>11, <1>12

PageInv == TypeInv /\ Snapshots /\ GuessInv /\ EndInv

LEMMA PageInvariant == Spec => []PageInv
<1>1. Init => PageInv
  BY InitInv DEF PageInv
<1>2. PageInv /\ [Next]_vars => PageInv'
  BY TypeStep, SnapshotsStep, GuessStep, EndStep DEF PageInv
<1> QED
  BY <1>1, <1>2, PTL DEF Spec

(* Every variable stays in its type: in particular a TURN_CHANGED names a  *)
(* player and a turn (game_play.go:255-276), and a GUESS_RESULT the        *)
(* opponent of who guessed, whether or not the guess wins (171-173).       *)
THEOREM TypeCorrect == Spec => []TypeOK
<1>1. PageInv => TypeOK
  BY DEF PageInv, TypeInv
<1> QED
  BY <1>1, PageInvariant, PTL

(* useGameState.tsx:88-109: whatever snapshots, results, lost sockets and  *)
(* reconnections there were, a page to which nothing is on its way, and    *)
(* which has no excuse, shows each guess of its player once, in order.     *)
THEOREM GuessesAreShown == Spec => []GuessesShown
<1>1. ASSUME PageInv, Settled PROVE page.mine = Mine
  <2>1. InStep /\ Results = {} /\ \A t \in Threads : ~Unannounced(t)
    BY <1>1 DEF PageInv, GuessInv, Settled, Results, Unannounced
  <2>2. /\ Mine \in Seq(Guesses) /\ page.mine \in Seq(Guesses)
        /\ Len(page.mine) \in Nat /\ Len(Mine) \in Nat
    BY <1>1, MineFacts DEF PageInv
  <2>3. Len(page.mine) = Len(Mine)
    <3>1. Len(page.mine) + 1 .. Len(Mine) = {}
      BY <2>1 DEF InStep
    <3>2. Len(page.mine) <= Len(Mine)
      BY <2>1 DEF InStep
    <3>3. SUFFICES ASSUME Len(page.mine) < Len(Mine) PROVE FALSE
      BY <2>2, <3>2
    <3>4. Len(Mine) \in Len(page.mine) + 1 .. Len(Mine)
      BY <2>2, <3>3
    <3> QED
      BY <3>1, <3>4
  <2>4. \A i \in 1 .. Len(page.mine) : page.mine[i] = Mine[i]
    BY <2>1 DEF InStep
  <2> QED
    BY <2>2, <2>3, <2>4, SeqEqual
<1>2. PageInv => GuessesShown
  BY <1>1 DEF GuessesShown, ListByPlayer, Mine
<1> QED
  BY <1>2, PageInvariant, PTL

(* useGameState.tsx:80-87, 110-115: when the game is over, a page to which *)
(* nothing is on its way, and which has no excuse, knows it, although      *)
(* turns are announced after the end (game_play.go:255-276).               *)
THEOREM EndIsShown == Spec => []EndShown
<1>1. ASSUME PageInv, Settled, game.row.status = "FINISHED"
      PROVE  page.over \/ page.game.status = "FINISHED"
  <2>1. Informed \/ EndComes
    BY <1>1 DEF PageInv, EndInv, Settled
  <2>2. ~EndComes
    BY <1>1 DEF EndComes, Ends, Settled
  <2> QED
    BY <2>1, <2>2 DEF Informed
<1>2. PageInv => EndShown
  BY <1>1 DEF EndShown
<1> QED
  BY <1>2, PageInvariant, PTL

=============================================================================
