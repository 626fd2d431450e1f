------------------------------ MODULE BoardPage ------------------------------
(***************************************************************************)
(* The scoreboard page (web/static/index.html) in front of a controller    *)
(* that is crashed and restarted: its event stream, its requests, the      *)
(* recovery that freezes the board, and the attract loop after a round.    *)
(*                                                                         *)
(* A snapshot is its game and a version that only grows, 0 as the game     *)
(* starts and MaxVersion once it is finished; the counters that            *)
(* stateContinued compares grow with it.  The script of a page is          *)
(* single-threaded: an action is what runs between two awaits.  What the   *)
(* controller does behind its board is Controller; here it publishes the   *)
(* game in order, unless it was restarted and could not restore it.        *)
(***************************************************************************)
EXTENDS Integers, Sequences, Bags

CONSTANTS
    MaxGames,    \* bound: rounds played
    MaxVersion,  \* bound: the version of a finished snapshot
    Lag,         \* messages that wait for a slow page, 128 in the controller
    Slots,       \* bound: requests that one page has under way
    MaxEvents    \* bound: crashes, streams that break off, and buttons pressed

ASSUME PageAssumption ==
    /\ MaxEvents \in Nat
    /\ {MaxGames, MaxVersion, Lag, Slots} \subseteq Nat \ {0}

VARIABLES
    round,     \* Temporal: the snapshot of the latest game
    server,    \* the controller's process: up, which, its board, does it observe
    stream,    \* the page's event source: is it open, and what is on its way
    panel,     \* what the page shows, and its attract loop
    recovery,  \* the recovery: active, the proof it began with, out of time
    known,     \* currentProcessProof
    timer,     \* the timer that recoveryPollTimer names
    loose,     \* timers it named before, still running
    requests,  \* the bag of the requests under way, with their answers
    budget,    \* crashes, broken streams and clicks so far
    newest,    \* history: the newest snapshot the page has shown
    frozen     \* history: what it showed when the recovery began, and was an
               \* answer to a poll of an earlier one still on its way

vars == <<round, server, stream, panel, recovery, known, timer, loose,
          requests, budget, newest, frozen>>

page == <<panel, recovery, known, timer, loose, requests, newest, frozen>>

Empty == [game |-> 0, version |-> 0]
Snapshots == {Empty} \cup [game : 1 .. MaxGames, version : 0 .. MaxVersion]
NoProof == [instance |-> 0, board |-> Empty]
NoTimers == [poll |-> 0, finish |-> 0]

Happens == budget < MaxEvents /\ budget' = budget + 1

Finished(b) == b.version = MaxVersion
Running(b) == b.game > 0 /\ ~Finished(b)
Older(a, b) == a.game < b.game \/ (a.game = b.game /\ a.version < b.version)
-----------------------------------------------------------------------------
(* Plausible slips in the definitions below, for the mutation runs. *)

\* A restored board of any game will do.
AnyGame(before, after) == TRUE

\* Only a proof ends a recovery.
NeverExpires == FALSE

\* The hold is over for good when it ends during a recovery.
GivesUpHold(game) == 0

\* A slow page is not sent the newest message.
SkipsNewest(queue, b) == IF Len(queue) = Lag THEN queue ELSE Append(queue, b)

\* A stream that comes back goes on where it was.
NoRefresh(reqs) == reqs
-----------------------------------------------------------------------------
(* render and schedulePostRoundIntermission.                               *)

\* A finished board is held for 30 seconds, once, unless the attract loop is on.
Rendered(p, b) ==
    LET q == [p EXCEPT !.shown = b] IN
    IF ~Finished(b) THEN [q EXCEPT !.timer = 0, !.held = 0]
    ELSE IF p.attract THEN [q EXCEPT !.timer = 0]
    ELSE IF p.held = b.game THEN q
    ELSE [q EXCEPT !.timer = b.game, !.held = b.game]

Show(p, b) ==
    /\ panel' = Rendered(p, b)
    /\ newest' = IF Older(newest, b) THEN b ELSE newest

EnterAttract(p) == [p EXCEPT !.attract = TRUE, !.timer = 0]

\* startRound
LeaveAttract(p) == [p EXCEPT !.attract = FALSE, !.held = 0, !.timer = 0]

\* The timer is set again while the board is frozen.
HoldAgain(game) == game

HoldEnds ==
    LET stays == Finished(panel.shown) /\ panel.shown.game = panel.timer /\ ~panel.attract
    IN  /\ panel.timer > 0
        /\ panel' = IF ~stays THEN [panel EXCEPT !.timer = 0]
                    ELSE IF recovery.active THEN [panel EXCEPT !.timer = HoldAgain(@)]
                    ELSE EnterAttract(panel)
        /\ UNCHANGED <<round, server, stream, recovery, known, timer, loose,
                       requests, budget, newest, frozen>>
-----------------------------------------------------------------------------
(* Requests.                                                               *)

Room(reqs) == BagCardinality(reqs) < Slots
Sent(reqs, kind) == reqs (+) SetToBag({[kind |-> kind, reply |-> NoProof]})

Proof == [instance |-> server.instance, board |-> server.board]

\* A game is started.
StartNext ==
    /\ round.game < MaxGames
    /\ round' = [game |-> round.game + 1, version |-> 0]

\* The oldest message is skipped for a page that lags behind.
Enqueued(queue, b) == IF Len(queue) = Lag THEN Append(Tail(queue), b) ELSE Append(queue, b)

Published(b) ==
    /\ server' = [server EXCEPT !.board = b, !.watching = TRUE]
    /\ stream' = [stream EXCEPT !.queue = IF stream.open THEN Enqueued(@, b) ELSE <<>>]

Without(q) == requests (-) SetToBag({q})
Unanswered(q) == q.reply = NoProof

\* The controller answers: with its board, its identity, or a started game.
Serve(q) ==
    /\ server.up
    /\ Unanswered(q)
    /\ LET answer(proof) == requests' = Without(q) (+) SetToBag({[q EXCEPT !.reply = proof]})
       IN  IF q.kind # "start"
             THEN answer(Proof) /\ UNCHANGED <<round, server, stream>>
           ELSE IF ~Running(round) /\ round.game < MaxGames
             THEN StartNext /\ Published(round') /\ answer([Proof EXCEPT !.board = round'])
           ELSE requests' = Without(q) /\ UNCHANGED <<round, server, stream>>
    /\ UNCHANGED <<panel, recovery, known, timer, loose, budget, newest, frozen>>

\* An answer arrives, or the request fails because no process is there.
Arrives(q, kind) == q.kind = kind /\ (Unanswered(q) => ~server.up)

\* refreshState after a button or a recovery.
RefreshArrives(q) ==
    /\ Arrives(q, "refresh")
    /\ IF Unanswered(q) \/ recovery.active
         THEN UNCHANGED <<panel, newest>> ELSE Show(panel, q.reply.board)
    /\ requests' = Without(q)
    /\ UNCHANGED <<round, server, stream, recovery, known, timer, loose, budget, frozen>>

StartArrives(q) ==
    /\ Arrives(q, "start")
    /\ IF Unanswered(q)
         THEN UNCHANGED <<panel, newest>> ELSE Show(LeaveAttract(panel), q.reply.board)
    /\ requests' = Without(q)
    /\ UNCHANGED <<round, server, stream, recovery, known, timer, loose, budget, frozen>>
-----------------------------------------------------------------------------
(* The recovery.                                                           *)

NoRecovery == [active |-> FALSE, proof |-> NoProof, expired |-> TRUE]
Recovering(proof) == [active |-> TRUE, proof |-> proof, expired |-> FALSE]

NothingFrozen == [board |-> Empty, late |-> FALSE]
Freezing == [board |-> panel.shown,
             late |-> \E q \in BagToSet(requests) : q.kind = "poll" /\ ~Unanswered(q)]

\* beginRecovery: the board freezes and the polling starts.
BeginRecovery(proof, reqs) ==
    IF recovery.active
      THEN UNCHANGED <<recovery, timer, frozen>> /\ requests' = reqs
      ELSE /\ Room(reqs)
           /\ recovery' = Recovering(proof)
           /\ frozen' = Freezing
           /\ timer' = "none"
           /\ requests' = Sent(reqs, "poll")

\* RECOVERY_TIMEOUT_MS are over since a recovery began.
Expire ==
    /\ ~recovery.expired
    /\ recovery' = [recovery EXCEPT !.expired = TRUE]
    /\ UNCHANGED <<round, server, stream, panel, known, timer, loose, requests, budget, newest, frozen>>

IsNewProcess(proof) ==
    recovery.proof # NoProof /\ proof.instance # recovery.proof.instance

StateContinued(before, after) ==
    before.game = after.game /\ before.version <= after.version

Proven(q) ==
    /\ ~Unanswered(q)
    /\ IsNewProcess(q.reply)
    /\ StateContinued(recovery.proof.board, q.reply.board)

\* finishRecovery shows the board of its proof, if it has one, and stays for
\* 2.5 seconds.
FinishRecovery(proof) ==
    /\ known' = proof
    /\ IF proof = NoProof THEN UNCHANGED <<panel, newest>> ELSE Show(panel, proof.board)
    /\ timer' = "finish"
    /\ UNCHANGED loose

Expired == recovery.expired

\* The answer to a poll: a proof, the time limit, or the next poll in 250 ms.  The
\* page does not ask whether the recovery is still on, or still the one it polled for.
PollArrives(q) ==
    /\ Arrives(q, "poll")
    /\ requests' = Without(q)
    /\ IF Proven(q) THEN FinishRecovery(q.reply)
       ELSE IF Expired THEN FinishRecovery(known)
       ELSE /\ loose' = IF timer = "none" THEN loose ELSE [loose EXCEPT ![timer] = @ + 1]
            /\ timer' = "poll"
            /\ UNCHANGED <<panel, known, newest>>
    /\ UNCHANGED <<round, server, stream, recovery, budget, frozen>>

\* A timer fires: the next poll, or the end of the recovery, which a poll that is
\* under way outlives; the proof that the recovery began with stays.
Fire(kind) ==
    /\ IF kind = "poll"
         THEN /\ UNCHANGED recovery
              /\ IF recovery.active
                   THEN Room(requests) /\ requests' = Sent(requests, "poll")
                   ELSE UNCHANGED requests
              /\ UNCHANGED frozen
         ELSE /\ recovery' = [recovery EXCEPT !.active = FALSE]
              /\ frozen' = NothingFrozen
              /\ Room(requests) /\ requests' = Sent(requests, "refresh")
    /\ UNCHANGED <<round, server, stream, panel, known, budget, newest>>

TimerFires ==
    \/ timer # "none" /\ Fire(timer) /\ timer' = "none" /\ UNCHANGED loose
    \/ \E kind \in DOMAIN loose :
          /\ loose[kind] > 0
          /\ Fire(kind)
          /\ loose' = [loose EXCEPT ![kind] = @ - 1]
          /\ UNCHANGED timer
-----------------------------------------------------------------------------
(* The event stream.                                                       *)

\* A message is drawn, unless the board is frozen.
Message ==
    /\ stream.open /\ stream.queue # <<>>
    /\ stream' = [stream EXCEPT !.queue = Tail(@)]
    /\ IF recovery.active THEN UNCHANGED <<panel, newest>>
                          ELSE Show(panel, Head(stream.queue))
    /\ UNCHANGED <<round, server, recovery, known, timer, loose, requests, budget, frozen>>

RefreshOnOpen(reqs) == Sent(reqs, "open")

\* onopen asks for the board; the stream itself begins with the next message.
Open ==
    /\ ~stream.open /\ server.up
    /\ Room(requests)
    /\ stream' = [open |-> TRUE, queue |-> <<>>]
    /\ requests' = RefreshOnOpen(requests)
    /\ UNCHANGED <<round, server, panel, recovery, known, timer, loose, budget, newest, frozen>>

\* A recovery that is on then polls at once, beside the polling that is under way.
OpenArrives(q) ==
    /\ Arrives(q, "open")
    /\ IF Unanswered(q)
         THEN BeginRecovery(known, Without(q)) /\ UNCHANGED <<panel, newest>>
         ELSE /\ UNCHANGED <<recovery, timer, frozen>>
              /\ IF recovery.active
                   THEN requests' = Sent(Without(q), "poll") /\ UNCHANGED <<panel, newest>>
                   ELSE requests' = Without(q) /\ Show(panel, q.reply.board)
    /\ UNCHANGED <<round, server, stream, known, loose, budget>>

\* onerror: the stream broke, or could not be opened again.
Broken == [open |-> FALSE, queue |-> <<>>]

StreamLost ==
    /\ ~server.up
    /\ stream' = Broken
    /\ BeginRecovery(known, requests)
    /\ UNCHANGED <<round, server, panel, known, loose, budget, newest>>

StreamDrops ==
    /\ server.up /\ stream.open
    /\ Happens
    /\ stream' = Broken
    /\ BeginRecovery(known, requests)
    /\ UNCHANGED <<round, server, panel, known, loose, newest>>
-----------------------------------------------------------------------------
(* The buttons.                                                            *)

\* A chaos command or END ROUND was accepted (refreshState follows), START
\* ROUND, and the crash, whose handler first asks for the proof.
Click(kind) ==
    /\ Happens
    /\ Room(requests)
    /\ kind = "start" => ~Running(panel.shown)
    /\ requests' = Sent(requests, kind)
    /\ UNCHANGED <<round, server, stream, panel, recovery, known, timer, loose, newest, frozen>>

\* NEW ROUND
ClickNewRound ==
    /\ Happens
    /\ ~Running(panel.shown)
    /\ panel' = EnterAttract(panel)
    /\ UNCHANGED <<round, server, stream, recovery, known, timer, loose, requests, newest, frozen>>

CrashArrives(q) ==
    /\ Arrives(q, "crash")
    /\ IF Unanswered(q)
         THEN requests' = Without(q) /\ UNCHANGED <<recovery, timer, frozen>>
         ELSE BeginRecovery(q.reply, Without(q))
    /\ UNCHANGED <<round, server, stream, panel, known, loose, budget, newest>>
-----------------------------------------------------------------------------
(* The controller and Temporal.                                            *)

\* The round goes on, controller or no controller.
Progress ==
    /\ Running(round)
    /\ round' = [round EXCEPT !.version = @ + 1]
    /\ UNCHANGED <<server, stream, page, budget>>

\* Another page starts a game.
StartedElsewhere ==
    /\ server.up
    /\ ~Running(round)
    /\ StartNext
    /\ Published(round')
    /\ UNCHANGED <<page, budget>>

Publish ==
    /\ server.up /\ server.watching
    /\ server.board # round
    /\ Published(round)
    /\ UNCHANGED <<round, page, budget>>

\* The process exits, 300 ms after it answered a crash button or by itself.
Exit ==
    /\ server.up
    /\ Happens
    /\ server' = [server EXCEPT !.up = FALSE, !.board = Empty, !.watching = FALSE]
    /\ UNCHANGED <<round, stream, page>>

\* The supervisor starts it again after two seconds, when the answers of the old
\* process have arrived and its stream has broken off.  It restores the game
\* before it listens, or goes on without it when the Query fails.
Restart ==
    /\ ~server.up /\ ~stream.open
    /\ \A q \in BagToSet(requests) : q.reply.instance # server.instance
    /\ \E restored \in BOOLEAN :
          server' = [up |-> TRUE, instance |-> server.instance + 1,
                     board |-> IF restored THEN round ELSE Empty, watching |-> restored]
    /\ UNCHANGED <<round, stream, page, budget>>
-----------------------------------------------------------------------------
Fresh(b) == [shown |-> b, attract |-> FALSE, held |-> 0, timer |-> 0]

\* A loaded page has its board and a proof of the process; a page that could not
\* load them begins with a recovery.
Init ==
    /\ round \in {Empty, [game |-> 1, version |-> 0]}
    /\ server = [up |-> TRUE, instance |-> 1, board |-> round, watching |-> TRUE]
    /\ stream = Broken
    /\ \/ /\ panel = Fresh(round) /\ known = Proof
          /\ recovery = NoRecovery
          /\ requests = EmptyBag
       \/ /\ panel = Fresh(Empty) /\ known = NoProof
          /\ recovery = Recovering(NoProof)
          /\ requests = Sent(EmptyBag, "poll")
    /\ timer = "none" /\ loose = NoTimers
    /\ budget = 0
    /\ newest = panel.shown /\ frozen = NothingFrozen

Request(q) ==
    \/ Serve(q)
    \/ RefreshArrives(q) \/ StartArrives(q) \/ OpenArrives(q) \/ PollArrives(q) \/ CrashArrives(q)

Next ==
    \/ \E q \in BagToSet(requests) : Request(q)
    \/ HoldEnds \/ Expire \/ TimerFires
    \/ Message \/ Open \/ StreamLost \/ StreamDrops
    \/ \E kind \in {"refresh", "start", "crash"} : Click(kind)
    \/ ClickNewRound
    \/ Progress \/ StartedElsewhere \/ Publish \/ Exit \/ Restart

Spec == Init /\ [][Next]_vars

\* Requests are answered or fail, timers fire, the stream delivers and
\* reconnects, the controller publishes and is restarted; people owe nothing.
Fairness ==
    /\ \A kind \in {"poll", "refresh", "open", "start", "crash"}, waits \in BOOLEAN :
          WF_vars(\E q \in BagToSet(requests) :
                     q.kind = kind /\ Unanswered(q) = waits /\ Request(q))
    /\ WF_vars(HoldEnds) /\ WF_vars(Expire) /\ WF_vars(TimerFires)
    /\ WF_vars(Message) /\ WF_vars(Open) /\ WF_vars(StreamLost)
    /\ WF_vars(Publish) /\ WF_vars(Restart)

FairSpec == Spec /\ Fairness
-----------------------------------------------------------------------------
(* Properties.                                                             *)

Proofs == [instance : Nat, board : Snapshots]

\* Every variable is of its kind.
TypeOK ==
    /\ round \in Snapshots
    /\ server \in [up : BOOLEAN, instance : Nat, board : Snapshots, watching : BOOLEAN]
    /\ stream.queue \in Seq(Snapshots) /\ Len(stream.queue) <= Lag
    /\ panel \in [shown : Snapshots, attract : BOOLEAN, held : 0 .. MaxGames,
                  timer : 0 .. MaxGames]
    /\ recovery \in [active : BOOLEAN, proof : Proofs, expired : BOOLEAN]
    /\ known \in Proofs
    /\ timer \in {"none", "poll", "finish"}
    /\ loose \in [{"poll", "finish"} -> Nat]
    /\ \A q \in BagToSet(requests) : q.reply \in Proofs

\* "A restored snapshot that continues the frozen board": what ends a recovery
\* in time comes from a process that replaced the one the recovery began with, and
\* a proof never takes the page back behind the board it froze, unless an answer
\* to a poll of an earlier recovery was on its way as it froze.  (The time limit
\* may take it back, and a recovery whose own proof is of another game than that
\* board: the page took it when it was loaded.)
FrozenBoardContinues ==
    [][\A q \in BagToSet(requests) : PollArrives(q) /\ ~recovery.expired /\ timer' = "finish"
          => /\ server.instance > recovery.proof.instance
             /\ recovery.proof.board.game = frozen.board.game /\ ~frozen.late
                   => ~Older(panel'.shown, frozen.board)]_vars

\* An answer that will be the controller's board.
Refetches(q) == q.kind \in {"open", "refresh"} /\ (Unanswered(q) \/ q.reply.board = server.board)

\* The 2.5 seconds after which the board is asked for.
Finishing == timer = "finish" \/ loose["finish"] > 0

\* Nothing is missed for good: whatever the stream skipped, broke off before or
\* delivered to a frozen board, a page on a live stream that does not show the
\* controller's board has it as the last message on its way, asks for it, or is in
\* a recovery, which ends by asking, or was taken back to its proof by a poll that
\* outlived it, which asks too; unless a late answer took it back.
NothingMissed ==
    server.up /\ stream.open =>
        \/ panel.shown = server.board \/ Older(panel.shown, newest)
        \/ stream.queue # <<>> /\ stream.queue[Len(stream.queue)] = server.board
        \/ recovery.active \/ Finishing
        \/ \E q \in BagToSet(requests) : Refetches(q)

\* "Bounded by a timeout so the board can never be left frozen."
RecoveryEnds == recovery.active ~> ~recovery.active

\* Whatever was lost, skipped or frozen over, the page ends on the board of the
\* controller, unless the last answer it drew was older than what it had shown.
PageCatchesUp == <>[](panel.shown = server.board \/ Older(panel.shown, newest))

\* "The finished board remains visible for 30 seconds, then enters this attract
\* loop automatically", also when the 30 seconds end while the board is frozen.
AttractComes == Finished(panel.shown) ~> panel.attract \/ ~Finished(panel.shown)
=============================================================================
