-------------------------- MODULE BoardPageProofs --------------------------
(***************************************************************************)
(* Proofs about BoardPage: for any number of games, crashes, requests and  *)
(* messages, however they overtake one another, what ends a recovery in    *)
(* time comes from a process that replaced the one it began with, and does *)
(* not take the page back behind the board it froze, unless an answer to a *)
(* poll of an earlier recovery was on its way as it froze.                 *)
(*                                                                         *)
(* A page never misses for good what the controller shows, either: a board *)
(* it does not show is the last message on its way, or is asked for.       *)
(*                                                                         *)
(* All rest on where a board on the page, or on its way to it, can come    *)
(* from: it is no newer than the round, nor, when it is of the same game,  *)
(* than the controller's (Behind).  An answer is of the process that runs, *)
(* because a restart waits for the answers of the old one, and the answer  *)
(* to a poll that had none as the board froze is no older than that board  *)
(* (PInv).  What is missed on one way comes on another: an answer that is  *)
(* out of date is older than a message that is still to come or that the   *)
(* page has seen, and a poll that outlives its recovery and draws the      *)
(* board of a proof is followed by another request (MInv).                 *)
(***************************************************************************)
EXTENDS BoardPage, SequenceTheorems, TLAPS

AtMost(a, b) == a.game < b.game \/ (a.game = b.game /\ a.version <= b.version)

Behind(b) ==
    /\ AtMost(b, round)
    /\ b.game = server.board.game => b.version <= server.board.version

\* A proof that the controller gave, now or before.
Sound(proof) ==
    /\ proof \in Proofs
    /\ proof.instance <= server.instance
    /\ Behind(proof.board)

Servers == [up : BOOLEAN, instance : Nat, board : Snapshots, watching : BOOLEAN]
Panels == [shown : Snapshots, attract : BOOLEAN, held : 0 .. MaxGames, timer : 0 .. MaxGames]
Streams == [open : BOOLEAN, queue : Seq(Snapshots)]
Recoveries == [active : BOOLEAN, proof : Proofs, expired : BOOLEAN]
Timers == [{"poll", "finish"} -> Nat]
Requests == [kind : {"refresh", "start", "crash", "open", "poll"}, reply : Proofs]

Shows(b) == b \in Snapshots /\ Behind(b)
PanelOK(p) == p \in Panels /\ Behind(p.shown)
StreamOK(s) ==
    /\ s \in Streams /\ Len(s.queue) <= Lag
    /\ \A i \in 1 .. Len(s.queue) : Behind(s.queue[i])
RecoveryOK(r) == r \in Recoveries /\ Sound(r.proof)
RequestOK(q) ==
    /\ q \in Requests /\ Sound(q.reply)
    /\ Unanswered(q) \/ q.reply.instance = server.instance

\* The answer to a poll is no older than what was frozen, unless it was on its way.
PollOK(q) ==
    /\ q.kind = "poll" /\ ~Unanswered(q)
    /\ ~frozen.late /\ q.reply.board.game = frozen.board.game
    => q.reply.board.version >= frozen.board.version

PInv ==
    /\ round \in Snapshots
    /\ server \in Servers /\ server.instance > 0 /\ AtMost(server.board, round)
    /\ PanelOK(panel) /\ StreamOK(stream) /\ Sound(known) /\ RecoveryOK(recovery)
    /\ timer \in {"none", "poll", "finish"} /\ loose \in Timers
    /\ Shows(frozen.board)
    /\ \A q \in BagToSet(requests) : RequestOK(q) /\ PollOK(q)

-----------------------------------------------------------------------------
(* Boards. *)

LEMMA Numbers ==
    /\ MaxGames \in Nat /\ MaxVersion \in Nat \ {0} /\ Lag \in Nat \ {0} /\ Slots \in Nat \ {0}
    /\ Empty \in Snapshots /\ Empty.game = 0 /\ Empty.version = 0
    /\ \A b \in Snapshots : /\ b.game \in 0 .. MaxGames /\ b.version \in 0 .. MaxVersion
                            /\ b.game = 0 => b = Empty
                            /\ b.game # 0 => b \in [game : 1 .. MaxGames, version : 0 .. MaxVersion]
<1>1. /\ MaxGames \in Nat /\ MaxVersion \in Nat \ {0} /\ Lag \in Nat \ {0} /\ Slots \in Nat \ {0}
    BY PageAssumption
<1>2. Empty \in Snapshots /\ Empty.game = 0 /\ Empty.version = 0
    BY DEF Snapshots, Empty
<1>3. ASSUME NEW b \in Snapshots
      PROVE  /\ b.game \in 0 .. MaxGames /\ b.version \in 0 .. MaxVersion
             /\ b.game = 0 => b = Empty
             /\ b.game # 0 => b \in [game : 1 .. MaxGames, version : 0 .. MaxVersion]
    BY <1>1, <1>2 DEF Snapshots
<1> QED BY <1>1, <1>2, <1>3

LEMMA NoProofIsSound ==
    ASSUME PInv
    PROVE  NoProof \in Proofs /\ Sound(NoProof) /\ Shows(Empty)
<1>1. round.game \in 0 .. MaxGames /\ round.version \in 0 .. MaxVersion
    BY Numbers DEF PInv
<1>2. /\ server.board.game \in 0 .. MaxGames /\ server.board.version \in 0 .. MaxVersion
      /\ server.instance \in Nat
    BY Numbers DEF PInv, Servers
<1>3. Shows(Empty)
    BY <1>1, <1>2, Numbers DEF Shows, Behind, AtMost
<1> QED BY <1>2, <1>3, Numbers DEF NoProof, Proofs, Sound, Shows

\* What the controller shows is behind itself.
LEMMA ServerBoard ==
    ASSUME PInv
    PROVE  Shows(server.board) /\ Sound(Proof) /\ Proof \in Proofs /\ Proof # NoProof
<1>1. server.board \in Snapshots /\ server.instance \in Nat \ {0}
    BY DEF PInv, Servers
<1>2. Shows(server.board)
    BY <1>1, Numbers DEF PInv, Shows, Behind
<1> QED BY <1>1, <1>2 DEF Proof, Proofs, Sound, Shows, NoProof

\* The round and the controller's board move so that nothing on the page gets
\* ahead of them.
BoardsMove ==
    /\ round' \in Snapshots
    /\ \/ round' = round
       \/ round'.game = round.game /\ round'.version >= round.version
       \/ round'.game > round.game
    /\ server' \in Servers /\ server'.instance >= server.instance
    /\ \/ server'.board = server.board
       \/ server'.board = Empty
       \/ server'.board = round /\ round' = round
       \/ server'.board = round' /\ round'.game > round.game

LEMMA StaysBehind ==
    ASSUME PInv, BoardsMove, NEW b \in Snapshots, Behind(b)
    PROVE  /\ AtMost(b, round')
           /\ b.game = server'.board.game => b.version <= server'.board.version
           /\ AtMost(server'.board, round')
<1>1. /\ b.game \in Nat /\ b.version \in Nat /\ (b.game = 0 => b.version = 0)
      /\ round.game \in Nat /\ round.version \in Nat
      /\ round'.game \in Nat /\ round'.version \in Nat
    BY Numbers DEF PInv, BoardsMove
<1>2. /\ server.board.game \in Nat /\ server.board.version \in Nat
      /\ server'.board.game \in Nat /\ server'.board.version \in Nat
    BY Numbers DEF PInv, BoardsMove, Servers
<1>3. Empty.game = 0 /\ Empty.version = 0
    BY Numbers
<1> QED BY <1>1, <1>2, <1>3 DEF PInv, BoardsMove, Behind, AtMost

-----------------------------------------------------------------------------
(* Requests. *)

NewRequest(kind) == [kind |-> kind, reply |-> NoProof]

LEMMA SentRequests ==
    ASSUME NEW reqs, NEW kind
    PROVE  BagToSet(Sent(reqs, kind)) = BagToSet(reqs) \cup {NewRequest(kind)}
BY DEF Sent, NewRequest, BagToSet, SetToBag, (+)

LEMMA RequestsWithout ==
    ASSUME NEW q
    PROVE  BagToSet(Without(q)) \subseteq BagToSet(requests)
BY DEF Without, BagToSet, SetToBag, (-)

LEMMA RequestsAnswered ==
    ASSUME NEW q, NEW x
    PROVE  BagToSet(Without(q) (+) SetToBag({x})) \subseteq BagToSet(requests) \cup {x}
<1>1. BagToSet(Without(q) (+) SetToBag({x})) = BagToSet(Without(q)) \cup {x}
    BY DEF BagToSet, SetToBag, (+)
<1> QED BY <1>1, RequestsWithout

LEMMA NewRequestOK ==
    ASSUME PInv, NEW kind \in {"refresh", "start", "crash", "open", "poll"}
    PROVE  /\ RequestOK(NewRequest(kind)) /\ Unanswered(NewRequest(kind))
           /\ NewRequest(kind).kind = kind
BY NoProofIsSound DEF NewRequest, RequestOK, Requests, Unanswered

-----------------------------------------------------------------------------
(* What happens on the page: the round and the controller stand still. *)

LEMMA PageStep ==
    ASSUME PInv, UNCHANGED <<round, server>>,
           PanelOK(panel'), StreamOK(stream'), Sound(known'), RecoveryOK(recovery'),
           timer' \in {"none", "poll", "finish"}, loose' \in Timers, Shows(frozen'.board),
           \A q \in BagToSet(requests') : RequestOK(q),
           \/ frozen'.late \/ frozen' = NothingFrozen
           \/ \A q \in BagToSet(requests') :
                 \/ q.kind = "poll" => Unanswered(q)
                 \/ q \in BagToSet(requests) /\ frozen' = frozen
    PROVE  PInv'
<1>1. ASSUME NEW q \in BagToSet(requests')
      PROVE  RequestOK(q)' /\ PollOK(q)'
  <2>1. RequestOK(q)'
      BY DEF RequestOK, Sound, Behind
  <2>2. CASE frozen' = NothingFrozen
    <3>1. /\ frozen'.board = Empty /\ q.reply.board \in Snapshots
          /\ q.reply.board.version \in Nat /\ Empty.version = 0
        BY <2>2, Numbers DEF NothingFrozen, RequestOK, Sound, Proofs
    <3> QED BY <2>1, <3>1 DEF PollOK
  <2>3. CASE \/ frozen'.late
             \/ q.kind = "poll" => Unanswered(q)
             \/ q \in BagToSet(requests) /\ frozen' = frozen
    <3>1. PollOK(q)'
        BY <2>3 DEF PInv, PollOK, Unanswered
    <3> QED BY <2>1, <3>1
  <2> QED BY <2>2, <2>3
<1> QED BY <1>1 DEF PInv, PanelOK, StreamOK, Sound, RecoveryOK, Shows, Behind

\* Nothing of the page but the requests changes: an answer arrived, or a new
\* request that is no poll was sent.
LEMMA RequestStep ==
    ASSUME PInv, UNCHANGED <<round, server, recovery, frozen, stream, timer, loose>>,
           PanelOK(panel'), Sound(known'),
           \A q \in BagToSet(requests') :
              \/ q \in BagToSet(requests)
              \/ RequestOK(q) /\ Unanswered(q)
    PROVE  PInv'
<1>1. ASSUME NEW q \in BagToSet(requests')
      PROVE  /\ RequestOK(q)
             /\ Unanswered(q) \/ (q \in BagToSet(requests) /\ frozen' = frozen)
    BY DEF PInv
<1> QED BY <1>1, PageStep DEF PInv

LEMMA RenderedPanel ==
    ASSUME PInv, NEW p \in Panels, NEW b, Shows(b)
    PROVE  PanelOK(Rendered(p, b))
<1>1. b \in Snapshots /\ (Finished(b) => b.game \in 0 .. MaxGames)
    BY Numbers DEF Shows
<1>2. Rendered(p, b) \in Panels /\ Rendered(p, b).shown = b
    BY <1>1, Numbers DEF Rendered, Panels
<1> QED BY <1>2 DEF PanelOK, Shows

LEMMA Attracted ==
    ASSUME NEW p, PanelOK(p)
    PROVE  PanelOK(EnterAttract(p)) /\ PanelOK(LeaveAttract(p))
BY Numbers DEF PanelOK, Panels, EnterAttract, LeaveAttract

LEMMA ShownPanel ==
    ASSUME PInv, NEW p, PanelOK(p), NEW b, Shows(b), Show(p, b)
    PROVE  PanelOK(panel')
BY RenderedPanel DEF Show, PanelOK

\* An answer that has come is a proof, and its board one that may be shown.
LEMMA AnswersShow ==
    ASSUME PInv, NEW q \in BagToSet(requests)
    PROVE  /\ RequestOK(q) /\ PollOK(q) /\ Sound(q.reply) /\ Shows(q.reply.board)
           /\ Shows(known.board) /\ q \in Requests
BY DEF PInv, RequestOK, Sound, Shows, Proofs

LEMMA HoldKeepsPInv ==
    ASSUME PInv, HoldEnds \/ Expire
    PROVE  PInv'
<1>1. CASE HoldEnds
  <2>1. PanelOK(panel')
    <3>1. PanelOK(panel) /\ panel \in Panels
        BY DEF PInv, PanelOK
    <3>2. PanelOK([panel EXCEPT !.timer = 0]) /\ PanelOK([panel EXCEPT !.timer = HoldAgain(@)])
        BY <3>1, Numbers DEF PanelOK, Panels, HoldAgain
    <3> QED BY <1>1, <3>1, <3>2, Attracted DEF HoldEnds
  <2> QED BY <1>1, <2>1, RequestStep DEF HoldEnds, PInv
<1>2. CASE Expire
  <2>1. RecoveryOK(recovery') /\ recovery'.active = recovery.active
      BY <1>2 DEF Expire, PInv, RecoveryOK, Recoveries, Sound
  <2> QED BY <1>2, <2>1, PageStep DEF Expire, PInv, PollOK
<1> QED BY <1>1, <1>2

LEMMA ClickKeepsPInv ==
    ASSUME PInv, ClickNewRound \/ \E kind \in {"refresh", "start", "crash"} : Click(kind)
    PROVE  PInv'
<1>1. CASE ClickNewRound
    BY <1>1, Attracted, RequestStep DEF ClickNewRound, PInv
<1>2. ASSUME NEW kind \in {"refresh", "start", "crash"}, Click(kind)
      PROVE  PInv'
  <2>1. requests' = Sent(requests, kind)
      BY <1>2 DEF Click
  <2>2. \A q \in BagToSet(requests') : q \in BagToSet(requests) \/ q = NewRequest(kind)
      BY <2>1, SentRequests
  <2> QED BY <1>2, <2>2, NewRequestOK, RequestStep DEF Click, PInv
<1> QED BY <1>1, <1>2

LEMMA RefreshKeepsPInv ==
    ASSUME PInv, NEW q \in BagToSet(requests), RefreshArrives(q) \/ StartArrives(q)
    PROVE  PInv'
<1>1. \A r \in BagToSet(requests') : r \in BagToSet(requests)
    BY RequestsWithout DEF RefreshArrives, StartArrives
<1>2. PanelOK(panel')
  <2>1. PanelOK(panel) /\ PanelOK(LeaveAttract(panel))
      BY Attracted DEF PInv
  <2>2. \/ panel' = panel
        \/ Show(panel, q.reply.board)
        \/ Show(LeaveAttract(panel), q.reply.board)
      BY DEF RefreshArrives, StartArrives
  <2> QED BY <2>1, <2>2, AnswersShow, ShownPanel
<1> QED BY <1>1, <1>2, RequestStep DEF RefreshArrives, StartArrives, PInv

LEMMA PollKeepsPInv ==
    ASSUME PInv, NEW q \in BagToSet(requests), PollArrives(q)
    PROVE  PInv'
<1>1. \A r \in BagToSet(requests') : r \in BagToSet(requests)
    BY RequestsWithout DEF PollArrives
<1>2. UNCHANGED <<round, server, stream, recovery, budget, frozen>>
    BY DEF PollArrives
<1>3. PanelOK(panel) /\ Sound(known) /\ loose \in Timers /\ timer \in {"none", "poll", "finish"}
    BY DEF PInv
<1>4. ASSUME NEW proof, Sound(proof), FinishRecovery(proof)
      PROVE  PanelOK(panel') /\ Sound(known') /\ timer' = "finish" /\ loose' = loose
    BY <1>3, <1>4, ShownPanel DEF FinishRecovery, Sound, Shows, Proofs
<1>5. /\ PanelOK(panel') /\ Sound(known')
      /\ timer' \in {"none", "poll", "finish"} /\ loose' \in Timers
  <2>1. CASE Proven(q)
      BY <1>3, <1>4, <2>1, AnswersShow DEF PollArrives
  <2>2. CASE ~Proven(q) /\ Expired
      BY <1>3, <1>4, <2>2 DEF PollArrives
  <2>3. CASE ~Proven(q) /\ ~Expired
    <3>1. /\ loose' = IF timer = "none" THEN loose ELSE [loose EXCEPT ![timer] = @ + 1]
          /\ timer' = "poll" /\ UNCHANGED <<panel, known>>
        BY <2>3 DEF PollArrives
    <3>2. loose' \in Timers
        BY <1>3, <3>1 DEF Timers
    <3> QED BY <1>3, <3>1, <3>2
  <2> QED BY <2>1, <2>2, <2>3
<1> QED BY <1>1, <1>2, <1>5, PageStep DEF PInv, PollOK

\* A recovery that begins freezes what is shown, and knows the answers on their way.
LEMMA RecoveryBegins ==
    ASSUME PInv, NEW proof, Sound(proof), NEW reqs,
           BagToSet(reqs) \subseteq BagToSet(requests),
           BeginRecovery(proof, reqs),
           UNCHANGED <<round, server, panel, known, loose>>, StreamOK(stream')
    PROVE  PInv'
<1>1. CASE recovery.active
    BY <1>1, PageStep DEF BeginRecovery, PInv, PollOK
<1>2. CASE ~recovery.active
  <2>1. /\ recovery' = Recovering(proof) /\ frozen' = Freezing
        /\ timer' = "none" /\ requests' = Sent(reqs, "poll")
      BY <1>2 DEF BeginRecovery
  <2>2. RecoveryOK(recovery') /\ recovery'.active
      BY <2>1 DEF Recovering, RecoveryOK, Recoveries, Sound
  <2>3. Shows(frozen'.board)
      BY <2>1 DEF Freezing, PInv, PanelOK, Panels, Shows
  <2>4. \A r \in BagToSet(requests') : r \in BagToSet(requests) \/ r = NewRequest("poll")
      BY <2>1, SentRequests
  <2>5. ASSUME NEW r \in BagToSet(requests')
        PROVE  RequestOK(r) /\ (frozen'.late \/ (r.kind = "poll" => Unanswered(r)))
      BY <2>1, <2>4, NewRequestOK DEF PInv, Freezing
  <2> QED BY <2>1, <2>2, <2>3, <2>5, PageStep DEF PInv
<1> QED BY <1>1, <1>2

LEMMA CrashArrivesKeepsPInv ==
    ASSUME PInv, NEW q \in BagToSet(requests), CrashArrives(q)
    PROVE  PInv'
<1>1. CASE Unanswered(q)
    BY <1>1, RequestsWithout, RequestStep DEF CrashArrives, PInv
<1>2. CASE ~Unanswered(q)
    BY <1>2, RequestsWithout, AnswersShow, RecoveryBegins DEF CrashArrives, PInv
<1> QED BY <1>1, <1>2

LEMMA OpenArrivesKeepsPInv ==
    ASSUME PInv, NEW q \in BagToSet(requests), OpenArrives(q)
    PROVE  PInv'
<1>1. CASE Unanswered(q)
    BY <1>1, RequestsWithout, RecoveryBegins DEF OpenArrives, PInv
<1>2. CASE ~Unanswered(q) /\ recovery.active
  <2>1. \A r \in BagToSet(requests') : r \in BagToSet(requests) \/ r = NewRequest("poll")
      BY <1>2, SentRequests, RequestsWithout DEF OpenArrives
  <2> QED BY <1>2, <2>1, NewRequestOK, RequestStep DEF OpenArrives, PInv
<1>3. CASE ~Unanswered(q) /\ ~recovery.active
  <2>1. PanelOK(panel')
      BY <1>3, AnswersShow, ShownPanel DEF OpenArrives, PInv
  <2> QED BY <1>3, <2>1, RequestsWithout, RequestStep DEF OpenArrives, PInv
<1> QED BY <1>1, <1>2, <1>3

LEMMA FiredKeepsPInv ==
    ASSUME PInv, NEW kind, Fire(kind), kind \in {"poll", "finish"},
           timer' \in {"none", "poll", "finish"}, loose' \in Timers
    PROVE  PInv'
<1>1. UNCHANGED <<round, server, stream, panel, known>>
    BY DEF Fire
<1>2. CASE kind = "poll" /\ recovery.active
  <2>1. \A r \in BagToSet(requests') : r \in BagToSet(requests) \/ r = NewRequest("poll")
      BY <1>2, SentRequests DEF Fire
  <2> QED BY <1>1, <1>2, <2>1, NewRequestOK, PageStep DEF Fire, PInv, PollOK
<1>3. CASE kind = "poll" /\ ~recovery.active
    BY <1>1, <1>3, PageStep DEF Fire, PInv, PollOK
<1>4. CASE kind = "finish"
  <2>1. /\ recovery' = [recovery EXCEPT !.active = FALSE] /\ frozen' = NothingFrozen
        /\ requests' = Sent(requests, "refresh")
      BY <1>4 DEF Fire
  <2>2. \A r \in BagToSet(requests') : r \in BagToSet(requests) \/ r = NewRequest("refresh")
      BY <2>1, SentRequests
  <2>3. RecoveryOK(recovery') /\ Shows(frozen'.board)
      BY <2>1, NoProofIsSound DEF NothingFrozen, PInv, RecoveryOK, Recoveries, Sound
  <2>4. ASSUME NEW r \in BagToSet(requests')
        PROVE  RequestOK(r)
      BY <2>1, <2>2, NewRequestOK DEF PInv
  <2> QED BY <1>1, <2>1, <2>3, <2>4, PageStep DEF PInv
<1> QED BY <1>2, <1>3, <1>4

LEMMA TimerKeepsPInv ==
    ASSUME PInv, TimerFires
    PROVE  PInv'
<1>1. loose \in Timers /\ timer \in {"none", "poll", "finish"}
    BY DEF PInv
<1>2. CASE timer # "none" /\ Fire(timer) /\ timer' = "none" /\ UNCHANGED loose
    BY <1>1, <1>2, FiredKeepsPInv
<1>3. ASSUME NEW kind \in DOMAIN loose, loose[kind] > 0, Fire(kind),
             loose' = [loose EXCEPT ![kind] = @ - 1], timer' = timer
      PROVE  PInv'
  <2>1. kind \in {"poll", "finish"} /\ loose' \in Timers
      BY <1>1, <1>3 DEF Timers
  <2> QED BY <1>1, <1>3, <2>1, FiredKeepsPInv
<1> QED BY <1>2, <1>3 DEF TimerFires

LEMMA StreamKeepsPInv ==
    ASSUME PInv, Message \/ Open \/ StreamLost \/ StreamDrops
    PROVE  PInv'
<1>1. stream \in Streams /\ StreamOK(Broken) /\ StreamOK([open |-> TRUE, queue |-> <<>>])
  <2>1. <<>> \in Seq(Snapshots) /\ Len(<<>>) = 0
      OBVIOUS
  <2> QED BY <2>1, Numbers DEF PInv, StreamOK, Streams, Broken
<1>2. CASE Message
  <2>1. /\ stream.queue \in Seq(Snapshots) /\ stream.queue # <<>>
        /\ \A i \in 1 .. Len(stream.queue) : Behind(stream.queue[i])
        /\ Len(stream.queue) <= Lag
      BY <1>2 DEF Message, PInv, StreamOK, Streams
  <2>2. PICK queue \in Seq(Snapshots) : queue = stream.queue
      BY <2>1
  <2>3. /\ Tail(queue) \in Seq(Snapshots) /\ Len(Tail(queue)) = Len(queue) - 1
        /\ Len(queue) \in Nat \ {0}
        /\ \A i \in 1 .. Len(Tail(queue)) : i + 1 \in 1 .. Len(queue)
                                            /\ Tail(queue)[i] = queue[i + 1]
        /\ Head(queue) = queue[1] /\ queue[1] \in Snapshots
      BY <2>1, <2>2
  <2>4. stream' = [open |-> stream.open, queue |-> Tail(queue)]
      BY <1>1, <1>2, <2>2 DEF Message, Streams
  <2>5. StreamOK(stream')
      BY <1>1, <2>1, <2>2, <2>3, <2>4, Numbers DEF StreamOK, Streams
  <2>6. Shows(Head(stream.queue))
      BY <2>1, <2>2, <2>3 DEF Shows
  <2>7. PanelOK(panel')
      BY <1>2, <2>6, ShownPanel DEF Message, PInv
  <2> QED BY <1>2, <2>5, <2>7, PageStep DEF Message, PInv, PollOK
<1>3. CASE Open
  <2>1. \A r \in BagToSet(requests') : r \in BagToSet(requests) \/ r = NewRequest("open")
      BY <1>3, SentRequests DEF Open, RefreshOnOpen
  <2>2. StreamOK(stream')
      BY <1>1, <1>3 DEF Open
  <2> QED BY <1>3, <2>1, <2>2, NewRequestOK, PageStep DEF Open, PInv, PollOK
<1>4. CASE StreamLost \/ StreamDrops
    BY <1>1, <1>4, RecoveryBegins DEF StreamLost, StreamDrops, PInv
<1> QED BY <1>2, <1>3, <1>4
-----------------------------------------------------------------------------
(* What the controller and Temporal do: the page stands still. *)

\* Messages are added that show the controller's board; requests are answered
\* with its proof, and a new process has no answers of its predecessor before it.
LEMMA ServerStep ==
    ASSUME PInv, BoardsMove,
           UNCHANGED <<panel, recovery, known, timer, loose, frozen>>,
           stream' \in Streams, Len(stream'.queue) <= Lag,
           \A i \in 1 .. Len(stream'.queue) :
              Shows(stream'.queue[i]) \/ stream'.queue[i] = server'.board,
           \A q \in BagToSet(requests') :
              \/ /\ q \in BagToSet(requests)
                 /\ Unanswered(q) \/ server'.instance = server.instance
              \/ /\ q \in Requests
                 /\ q.reply = [instance |-> server'.instance, board |-> server'.board]
    PROVE  PInv'
<1>1. ASSUME NEW b, Shows(b)
      PROVE  /\ AtMost(b, round')
             /\ b.game = server'.board.game => b.version <= server'.board.version
    BY <1>1, StaysBehind DEF Shows
<1>2. /\ AtMost(server'.board, round') /\ server'.board \in Snapshots
      /\ server'.instance \in Nat /\ server.instance \in Nat
      /\ server'.instance >= server.instance /\ server.instance > 0
      /\ server'.board.version \in Nat
    BY ServerBoard, StaysBehind, Numbers DEF Shows, BoardsMove, Servers, PInv
<1>4. AtMost(server'.board, round') /\ server'.board.version <= server'.board.version
    BY <1>2
<1>5. (\A i \in 1 .. Len(stream.queue) : Behind(stream.queue[i]))'
    BY <1>1, <1>4 DEF Behind
<1>6. StreamOK(stream)'
    BY <1>5 DEF StreamOK
<1>7. ASSUME NEW proof, Sound(proof)
      PROVE  Sound(proof)'
  <2>1. proof.instance \in Nat /\ Shows(proof.board)
      BY <1>7 DEF Sound, Proofs, Shows
  <2> QED BY <1>1, <1>2, <1>7, <2>1 DEF Sound, Behind
<1>8. ASSUME NEW q \in BagToSet(requests')
      PROVE  RequestOK(q)' /\ PollOK(q)'
  <2>1. CASE q \in BagToSet(requests) /\ (Unanswered(q) \/ server'.instance = server.instance)
    <3>1. RequestOK(q) /\ PollOK(q)
        BY <2>1 DEF PInv
    <3> QED BY <1>7, <2>1, <3>1 DEF RequestOK, PollOK, Unanswered
  <2>2. CASE /\ q \in Requests
             /\ q.reply = [instance |-> server'.instance, board |-> server'.board]
    <3>1. q.reply.instance = server'.instance /\ q.reply.board = server'.board
          /\ q.reply \in Proofs
        BY <2>2 DEF Requests
    <3>2. Sound(q.reply)'
        BY <1>2, <1>4, <3>1 DEF Sound, Behind
    <3>3. RequestOK(q)'
        BY <2>2, <3>1, <3>2 DEF RequestOK
    <3>4. Behind(frozen.board)'
        BY <1>1 DEF PInv, Behind
    <3>5. frozen.board.version \in Nat
        BY Numbers DEF PInv, Shows
    <3> QED BY <1>2, <2>2, <3>1, <3>3, <3>4, <3>5 DEF PollOK, Behind
  <2> QED BY <2>1, <2>2
<1>9. PanelOK(panel)' /\ Shows(frozen.board)' /\ RecoveryOK(recovery)' /\ Sound(known)'
  <2>1. Shows(panel.shown) /\ Shows(frozen.board) /\ Sound(known) /\ Sound(recovery.proof)
      BY DEF PInv, PanelOK, Panels, Shows, RecoveryOK
  <2>2. Behind(panel.shown)' /\ Behind(frozen.board)' /\ Sound(known)' /\ Sound(recovery.proof)'
      BY <1>1, <1>7, <2>1 DEF Behind
  <2> QED BY <2>1, <2>2 DEF PInv, PanelOK, RecoveryOK, Shows
<1>10. /\ round' \in Snapshots /\ server' \in Servers /\ server'.instance > 0
       /\ timer' \in {"none", "poll", "finish"} /\ loose' \in Timers
    BY <1>2 DEF BoardsMove, PInv
<1> QED BY <1>4, <1>6, <1>8, <1>9, <1>10 DEF PInv

\* A message joins the queue, and the oldest one is skipped if it is full.
LEMMA QueueGrows ==
    ASSUME NEW queue \in Seq(Snapshots), Len(queue) <= Lag, NEW b \in Snapshots
    PROVE  /\ Enqueued(queue, b) \in Seq(Snapshots) /\ Len(Enqueued(queue, b)) <= Lag
           /\ \A i \in 1 .. Len(Enqueued(queue, b)) :
                 \/ Enqueued(queue, b)[i] = b
                 \/ \E j \in 1 .. Len(queue) : Enqueued(queue, b)[i] = queue[j]
<1>1. Lag \in Nat \ {0} /\ Len(queue) \in Nat
    BY Numbers
<1>2. ASSUME NEW rest \in Seq(Snapshots), Len(rest) < Lag
      PROVE  /\ Append(rest, b) \in Seq(Snapshots) /\ Len(Append(rest, b)) <= Lag
             /\ \A i \in 1 .. Len(Append(rest, b)) :
                   \/ Append(rest, b)[i] = b
                   \/ i \in 1 .. Len(rest) /\ Append(rest, b)[i] = rest[i]
    BY <1>1, <1>2
<1>3. CASE Len(queue) = Lag
  <2>1. /\ Tail(queue) \in Seq(Snapshots) /\ Len(Tail(queue)) = Len(queue) - 1
        /\ \A i \in 1 .. Len(Tail(queue)) : i + 1 \in 1 .. Len(queue)
                                            /\ Tail(queue)[i] = queue[i + 1]
      BY <1>1, <1>3
  <2>2. Len(Tail(queue)) < Lag
      BY <1>1, <1>3, <2>1
  <2>3. Enqueued(queue, b) = Append(Tail(queue), b)
      BY <1>3 DEF Enqueued
  <2>4. ASSUME NEW i \in 1 .. Len(Append(Tail(queue), b))
        PROVE  \/ Append(Tail(queue), b)[i] = b
               \/ \E j \in 1 .. Len(queue) : Append(Tail(queue), b)[i] = queue[j]
      BY <1>2, <2>1, <2>2
  <2> QED BY <1>2, <2>1, <2>2, <2>3, <2>4
<1>4. CASE Len(queue) # Lag
  <2>1. Len(queue) < Lag /\ Enqueued(queue, b) = Append(queue, b)
      BY <1>1, <1>4 DEF Enqueued
  <2> QED BY <1>2, <2>1
<1> QED BY <1>3, <1>4

LEMMA PublishedStep ==
    ASSUME PInv, NEW b \in Snapshots, Published(b)
    PROVE  /\ server' \in Servers /\ server'.board = b /\ server'.instance = server.instance
           /\ stream' \in Streams /\ Len(stream'.queue) <= Lag
           /\ \A i \in 1 .. Len(stream'.queue) :
                 Shows(stream'.queue[i]) \/ stream'.queue[i] = server'.board
<1>1. server' \in Servers /\ server'.board = b /\ server'.instance = server.instance
    BY DEF Published, PInv, Servers
<1>2. /\ stream \in Streams /\ stream.queue \in Seq(Snapshots) /\ Len(stream.queue) <= Lag
      /\ \A i \in 1 .. Len(stream.queue) : Shows(stream.queue[i])
    BY DEF PInv, StreamOK, Streams, Shows
<1>3. PICK queue :
        /\ stream' = [open |-> stream.open, queue |-> queue]
        /\ queue = IF stream.open THEN Enqueued(stream.queue, b) ELSE <<>>
    BY <1>2 DEF Published, Streams
<1>4. <<>> \in Seq(Snapshots) /\ Len(<<>>) = 0
    OBVIOUS
<1>5. /\ queue \in Seq(Snapshots) /\ Len(queue) <= Lag
      /\ \A i \in 1 .. Len(queue) : Shows(queue[i]) \/ queue[i] = b
  <2>1. CASE stream.open
    <3>1. queue = Enqueued(stream.queue, b)
        BY <1>3, <2>1
    <3>2. PICK old \in Seq(Snapshots) : old = stream.queue
        BY <1>2
    <3>3. /\ queue \in Seq(Snapshots) /\ Len(queue) <= Lag
          /\ \A i \in 1 .. Len(queue) :
                queue[i] = b \/ \E j \in 1 .. Len(old) : queue[i] = old[j]
        BY <1>2, <3>1, <3>2, QueueGrows
    <3> QED BY <1>2, <3>2, <3>3
  <2>2. CASE ~stream.open
    <3>1. queue = <<>>
        BY <1>3, <2>2
    <3> QED BY <1>4, <3>1, Numbers
  <2> QED BY <2>1, <2>2
<1>6. stream'.queue = queue /\ stream' \in Streams
    BY <1>2, <1>3, <1>5 DEF Streams
<1> QED BY <1>1, <1>5, <1>6

\* The next game is newer than every board there is.
LEMMA NextGame ==
    ASSUME PInv, StartNext
    PROVE  round' \in Snapshots /\ round'.game > round.game
<1>1. round.game \in Nat /\ MaxGames \in Nat /\ MaxVersion \in Nat
    BY Numbers DEF PInv
<1> QED BY <1>1 DEF StartNext, Snapshots

\* A stream and requests nobody touches.
LEMMA StreamStays ==
    ASSUME PInv, stream' = stream
    PROVE  /\ stream' \in Streams /\ Len(stream'.queue) <= Lag
           /\ \A i \in 1 .. Len(stream'.queue) : Shows(stream'.queue[i])
BY DEF PInv, StreamOK, Streams, Shows

LEMMA ServeKeepsPInv ==
    ASSUME PInv, NEW q \in BagToSet(requests), Serve(q)
    PROVE  PInv'
<1>1. q \in Requests /\ Unanswered(q)
    BY AnswersShow DEF Serve
<1>2. ASSUME NEW proof \in Proofs, proof = [instance |-> server'.instance, board |-> server'.board],
             requests' = Without(q) (+) SetToBag({[q EXCEPT !.reply = proof]}),
             server'.instance = server.instance
      PROVE  \A r \in BagToSet(requests') :
                \/ /\ r \in BagToSet(requests)
                   /\ Unanswered(r) \/ server'.instance = server.instance
                \/ /\ r \in Requests
                   /\ r.reply = [instance |-> server'.instance, board |-> server'.board]
  <2>1. [q EXCEPT !.reply = proof] \in Requests /\ [q EXCEPT !.reply = proof].kind = q.kind
        /\ [q EXCEPT !.reply = proof].reply = proof
      BY <1>1 DEF Requests
  <2>2. BagToSet(requests') \subseteq BagToSet(requests) \cup {[q EXCEPT !.reply = proof]}
      BY <1>2, RequestsAnswered
  <2>3. PICK answer : answer = [q EXCEPT !.reply = proof]
      OBVIOUS
  <2>4. \A r \in BagToSet(requests') : r \in BagToSet(requests) \/ r = answer
      BY <2>2, <2>3
  <2> QED BY <1>2, <2>1, <2>3, <2>4
<1>3. CASE q.kind # "start"
  <2>1. requests' = Without(q) (+) SetToBag({[q EXCEPT !.reply = Proof]})
        /\ UNCHANGED <<round, server, stream>>
      BY <1>3 DEF Serve
  <2>2. Proof = [instance |-> server'.instance, board |-> server'.board] /\ Proof \in Proofs
      BY <2>1, ServerBoard DEF Proof
  <2>3. BoardsMove
      BY <2>1, Numbers DEF BoardsMove, PInv, Servers
  <2> QED BY <1>2, <2>1, <2>2, <2>3, StreamStays, ServerStep DEF Serve
<1>4. CASE q.kind = "start" /\ ~Running(round) /\ round.game < MaxGames
  <2>1. /\ StartNext /\ Published(round')
        /\ requests' = Without(q) (+) SetToBag({[q EXCEPT !.reply = [Proof EXCEPT !.board = round']]})
      BY <1>4 DEF Serve
  <2>2. round' \in Snapshots /\ round'.game > round.game
      BY <2>1, NextGame
  <2>3. server' \in Servers /\ server'.board = round' /\ server'.instance = server.instance
      BY <2>1, <2>2, PublishedStep
  <2>4. [Proof EXCEPT !.board = round'] = [instance |-> server'.instance, board |-> server'.board]
      BY <2>3 DEF Proof
  <2>5. [Proof EXCEPT !.board = round'] \in Proofs
      BY <2>2, ServerBoard DEF Proofs
  <2>6. BoardsMove
      BY <2>2, <2>3 DEF BoardsMove, PInv, Servers
  <2> QED BY <1>2, <2>1, <2>2, <2>3, <2>4, <2>5, <2>6, PublishedStep, ServerStep DEF Serve
<1>5. CASE q.kind = "start" /\ ~(~Running(round) /\ round.game < MaxGames)
  <2>1. requests' = Without(q) /\ UNCHANGED <<round, server, stream>>
      BY <1>5 DEF Serve
  <2>2. BoardsMove
      BY <2>1, Numbers DEF BoardsMove, PInv, Servers
  <2> QED BY <2>1, <2>2, RequestsWithout, StreamStays, ServerStep DEF Serve
<1> QED BY <1>3, <1>4, <1>5

LEMMA ControllerKeepsPInv ==
    ASSUME PInv, Progress \/ StartedElsewhere \/ Publish \/ Exit \/ Restart
    PROVE  PInv'
<1>1. /\ UNCHANGED <<panel, recovery, known, timer, loose, frozen>>
      /\ UNCHANGED requests
    BY DEF Progress, StartedElsewhere, Publish, Exit, Restart, page
<1>2. /\ round \in Snapshots /\ server \in Servers /\ server.instance \in Nat
      /\ Empty \in Snapshots
    BY Numbers DEF PInv, Servers
<1>3. CASE Progress
  <2>1. round' \in Snapshots /\ round'.game = round.game /\ round'.version >= round.version
    <3>1. round.game # 0 /\ round.version # MaxVersion
          /\ round.version \in 0 .. MaxVersion /\ MaxVersion \in Nat
        BY <1>2, <1>3, Numbers DEF Progress, Running, Finished
    <3>2. round \in [game : 1 .. MaxGames, version : 0 .. MaxVersion]
        BY <1>2, <3>1, Numbers
    <3>3. round' = [game |-> round.game, version |-> round.version + 1]
        BY <1>3, <3>2 DEF Progress
    <3> QED BY <3>1, <3>2, <3>3 DEF Snapshots
  <2>2. BoardsMove
      BY <1>2, <1>3, <2>1 DEF BoardsMove, Progress
  <2> QED BY <1>1, <1>3, <2>2, StreamStays, ServerStep DEF Progress
<1>4. CASE StartedElsewhere
  <2>1. round' \in Snapshots /\ round'.game > round.game /\ Published(round')
      BY <1>4, NextGame DEF StartedElsewhere
  <2>2. BoardsMove
      BY <1>2, <2>1, PublishedStep DEF BoardsMove
  <2> QED BY <1>1, <2>1, <2>2, PublishedStep, ServerStep
<1>5. CASE Publish
  <2>1. round' = round /\ Published(round)
      BY <1>5 DEF Publish
  <2>2. BoardsMove
      BY <1>2, <2>1, PublishedStep DEF BoardsMove
  <2> QED BY <1>1, <1>2, <2>1, <2>2, PublishedStep, ServerStep
<1>6. CASE Exit
  <2>1. /\ round' = round /\ stream' = stream
        /\ server' \in Servers /\ server'.board = Empty /\ server'.instance = server.instance
      BY <1>2, <1>6 DEF Exit, Servers
  <2>2. BoardsMove
      BY <1>2, <2>1 DEF BoardsMove
  <2> QED BY <1>1, <2>1, <2>2, StreamStays, ServerStep
<1>7. CASE Restart
  <2>1. /\ round' = round /\ stream' = stream
        /\ server' \in Servers /\ server'.instance = server.instance + 1
        /\ server'.board \in {round, Empty}
        /\ \A q \in BagToSet(requests) : q.reply.instance # server.instance
      BY <1>2, <1>7 DEF Restart, Servers
  <2>2. BoardsMove
      BY <1>2, <2>1 DEF BoardsMove
  <2>3. \A q \in BagToSet(requests) : Unanswered(q)
      BY <2>1 DEF PInv, RequestOK
  <2> QED BY <1>1, <2>1, <2>2, <2>3, StreamStays, ServerStep
<1> QED BY <1>3, <1>4, <1>5, <1>6, <1>7

-----------------------------------------------------------------------------
(* The invariant. *)

LEMMA InitPInv == Init => PInv
<1> SUFFICES ASSUME Init PROVE PInv
    OBVIOUS
<1>1. /\ round \in Snapshots /\ round.version = 0 /\ Empty \in Snapshots
      /\ round.game \in Nat /\ round.version \in Nat
  <2>1. round \in Snapshots /\ round.version = 0
    <3>1. CASE round = Empty
        BY <3>1, Numbers
    <3>2. CASE round = [game |-> 1, version |-> 0]
        BY <3>2, PageAssumption DEF Snapshots
    <3> QED BY <3>1, <3>2 DEF Init
  <2> QED BY <2>1, Numbers
<1>2. /\ server \in Servers /\ server.instance = 1 /\ server.board = round
      /\ Shows(round) /\ Shows(Empty) /\ AtMost(server.board, round)
    BY <1>1, Numbers DEF Init, Servers, Shows, Behind, AtMost
<1>3. StreamOK(stream)
  <2>1. <<>> \in Seq(Snapshots) /\ Len(<<>>) = 0
      OBVIOUS
  <2> QED BY <2>1, Numbers DEF Init, Broken, StreamOK, Streams
<1>4. NoProof \in Proofs /\ Sound(NoProof) /\ Proof \in Proofs /\ Sound(Proof)
    BY <1>1, <1>2 DEF NoProof, Proof, Proofs, Sound, Shows
<1>5. PanelOK(panel) /\ Sound(known) /\ RecoveryOK(recovery)
  <2>1. PanelOK(Fresh(round)) /\ PanelOK(Fresh(Empty))
      BY <1>1, <1>2, Numbers DEF Fresh, PanelOK, Panels, Shows
  <2>2. RecoveryOK(NoRecovery) /\ RecoveryOK(Recovering(NoProof))
      BY <1>4 DEF NoRecovery, Recovering, RecoveryOK, Recoveries
  <2> QED BY <1>4, <2>1, <2>2 DEF Init
<1>6. ASSUME NEW q \in BagToSet(requests)
      PROVE  RequestOK(q) /\ PollOK(q)
  <2>1. BagToSet(EmptyBag) = {}
      BY DEF EmptyBag, BagToSet, SetToBag
  <2>2. requests = Sent(EmptyBag, "poll")
      BY <2>1 DEF Init
  <2>3. q = NewRequest("poll")
      BY <2>1, <2>2, SentRequests
  <2> QED BY <1>4, <2>2, <2>3 DEF NewRequest, RequestOK, Requests, PollOK, Unanswered
<1>7. timer \in {"none", "poll", "finish"} /\ loose \in Timers
    BY DEF Init, NoTimers, Timers
<1>8. frozen.board = Empty
    BY DEF Init, NothingFrozen
<1> QED BY <1>1, <1>2, <1>3, <1>5, <1>6, <1>7, <1>8 DEF PInv

LEMMA NextKeepsPInv == PInv /\ [Next]_vars => PInv'
<1> SUFFICES ASSUME PInv, [Next]_vars PROVE PInv'
    OBVIOUS
<1>1. CASE UNCHANGED vars
    BY <1>1, RequestStep DEF vars, PInv
<1>2. ASSUME NEW q \in BagToSet(requests), Request(q)
      PROVE  PInv'
    BY <1>2, ServeKeepsPInv, RefreshKeepsPInv, OpenArrivesKeepsPInv, PollKeepsPInv,
       CrashArrivesKeepsPInv DEF Request
<1>3. CASE HoldEnds \/ Expire
    BY <1>3, HoldKeepsPInv
<1>4. CASE TimerFires
    BY <1>4, TimerKeepsPInv
<1>5. CASE Message \/ Open \/ StreamLost \/ StreamDrops
    BY <1>5, StreamKeepsPInv
<1>6. CASE ClickNewRound \/ \E kind \in {"refresh", "start", "crash"} : Click(kind)
    BY <1>6, ClickKeepsPInv
<1>7. CASE Progress \/ StartedElsewhere \/ Publish \/ Exit \/ Restart
    BY <1>7, ControllerKeepsPInv
<1> QED BY <1>1, <1>2, <1>3, <1>4, <1>5, <1>6, <1>7 DEF Next

LEMMA AlwaysPInv == Spec => []PInv
BY InitPInv, NextKeepsPInv, PTL DEF Spec

\* Every variable of the page and of the controller in front of it keeps its
\* kind; the queue of a slow page never holds more than Lag messages.
THEOREM TypesHold == Spec => []TypeOK
<1>1. PInv => TypeOK
  <2> SUFFICES ASSUME PInv PROVE TypeOK
      OBVIOUS
  <2>1. stream.queue \in Seq(Snapshots) /\ Len(stream.queue) <= Lag
      BY DEF PInv, StreamOK, Streams
  <2>2. \A q \in BagToSet(requests) : q.reply \in Proofs
      BY DEF PInv, RequestOK, Sound
  <2>3. known \in Proofs
      BY DEF PInv, Sound
  <2> QED BY <2>1, <2>2, <2>3
          DEF PInv, Servers, PanelOK, Panels, RecoveryOK, Recoveries, Timers, TypeOK
<1> QED BY <1>1, AlwaysPInv, PTL

\* What ends a recovery in time comes from a process that replaced the one the
\* recovery began with, and takes no page back behind the board it froze, unless an
\* answer to a poll of an earlier recovery was on its way as it froze.
THEOREM FrozenBoardIsContinued == Spec => FrozenBoardContinues
<1>1. ASSUME PInv, NEW q \in BagToSet(requests), PollArrives(q),
             ~recovery.expired, timer' = "finish"
      PROVE  /\ server.instance > recovery.proof.instance
             /\ recovery.proof.board.game = frozen.board.game /\ ~frozen.late
                   => ~Older(panel'.shown, frozen.board)
  <2>1. Proven(q) /\ FinishRecovery(q.reply)
      BY <1>1 DEF PollArrives, Expired
  <2>2. /\ q.reply.instance = server.instance /\ q.reply \in Proofs
        /\ recovery.proof.instance <= server.instance
        /\ recovery.proof.instance \in Nat /\ server.instance \in Nat
      BY <1>1, <2>1, AnswersShow
      DEF Proven, RequestOK, PInv, RecoveryOK, Sound, Proofs, Servers
  <2>3. server.instance > recovery.proof.instance
      BY <2>1, <2>2 DEF Proven, IsNewProcess
  <2>4. panel'.shown = q.reply.board
    <3>1. panel' = Rendered(panel, q.reply.board) /\ panel \in Panels
        BY <1>1, <2>1 DEF Proven, Unanswered, FinishRecovery, Show, PInv, PanelOK
    <3> QED BY <3>1 DEF Rendered, Panels
  <2>5. recovery.proof.board.game = q.reply.board.game
      BY <2>1 DEF Proven, StateContinued
  <2>6. q.kind = "poll" /\ PollOK(q) /\ ~Unanswered(q)
      BY <1>1, <2>1, AnswersShow DEF PollArrives, Arrives, Proven
  <2>7. /\ frozen.board.version \in Nat /\ frozen.board.game \in Nat
        /\ q.reply.board.version \in Nat /\ q.reply.board.game \in Nat
      BY <1>1, <2>2, Numbers DEF PInv, Shows, Proofs
  <2> QED BY <2>3, <2>4, <2>5, <2>6, <2>7 DEF PollOK, Older
<1>2. PInv /\ [Next]_vars =>
        [\A q \in BagToSet(requests) : PollArrives(q) /\ ~recovery.expired /\ timer' = "finish"
          => /\ server.instance > recovery.proof.instance
             /\ recovery.proof.board.game = frozen.board.game /\ ~frozen.late
                   => ~Older(panel'.shown, frozen.board)]_vars
    BY <1>1
<1> QED BY <1>2, AlwaysPInv, PTL DEF Spec, FrozenBoardContinues
-----------------------------------------------------------------------------
(* Nothing is missed: what the page has seen, what the stream still brings,  *)
(* and what the answers on their way are worth.                              *)

\* newest is the newest board that was shown.
Seen == newest \in Snapshots /\ AtMost(panel.shown, newest)

\* The last message of a live stream is the controller's board.
Queued ==
    /\ ~stream.open => stream.queue = <<>>
    /\ server.up /\ stream.queue # <<>> => stream.queue[Len(stream.queue)] = server.board

\* The page will be told of the controller's board.
Coming ==
    \/ stream.queue # <<>> /\ stream.queue[Len(stream.queue)] = server.board
    \/ recovery.active \/ Finishing
    \/ \E q \in BagToSet(requests) : Refetches(q)

\* An answer is no newer than the controller's board ...
Told(q) == server.up /\ ~Unanswered(q) => AtMost(q.reply.board, server.board)

\* ... and harmless when it is older: the page has seen that board, or will.
Current(q) ==
    server.up /\ stream.open /\ ~Unanswered(q) /\ q.kind # "poll" =>
        q.reply.board = server.board \/ ~Older(newest, server.board) \/ Coming

MInv ==
    /\ PInv /\ IsABag(requests)
    /\ Seen /\ Queued /\ NothingMissed
    /\ \A q \in BagToSet(requests) : Told(q) /\ Current(q)

LEMMA BagPlus ==
    ASSUME NEW B, IsABag(B), NEW x
    PROVE  IsABag(B (+) SetToBag({x})) /\ BagToSet(B (+) SetToBag({x})) = BagToSet(B) \cup {x}
BY DEF IsABag, BagToSet, SetToBag, (+)

LEMMA BagMinus ==
    ASSUME NEW B, IsABag(B), NEW x
    PROVE  /\ IsABag(B (-) SetToBag({x}))
           /\ BagToSet(B (-) SetToBag({x})) \subseteq BagToSet(B)
           /\ BagToSet(B) \ {x} \subseteq BagToSet(B (-) SetToBag({x}))
BY DEF IsABag, BagToSet, SetToBag, (-)

LEMMA RequestBags ==
    ASSUME IsABag(requests), NEW q, NEW kind, NEW x
    PROVE  /\ IsABag(Without(q)) /\ IsABag(Sent(requests, kind)) /\ IsABag(Sent(Without(q), kind))
           /\ IsABag(Without(q) (+) SetToBag({x}))
           /\ BagToSet(Without(q) (+) SetToBag({x})) = BagToSet(Without(q)) \cup {x}
           /\ BagToSet(requests) \ {q} \subseteq BagToSet(Without(q))
           /\ BagToSet(Without(q)) \subseteq BagToSet(requests)
<1>1. /\ IsABag(Without(q))
      /\ BagToSet(requests) \ {q} \subseteq BagToSet(Without(q))
      /\ BagToSet(Without(q)) \subseteq BagToSet(requests)
    BY BagMinus DEF Without
<1>2. IsABag(Sent(requests, kind)) /\ IsABag(Sent(Without(q), kind))
    BY <1>1, BagPlus DEF Sent
<1>3. /\ IsABag(Without(q) (+) SetToBag({x}))
      /\ BagToSet(Without(q) (+) SetToBag({x})) = BagToSet(Without(q)) \cup {x}
    BY <1>1, BagPlus
<1> QED BY <1>1, <1>2, <1>3

\* Older is a strict order, and AtMost its complement.
LEMMA BoardOrder ==
    ASSUME NEW a \in Snapshots, NEW b \in Snapshots, NEW c \in Snapshots
    PROVE  /\ AtMost(a, b) <=> ~Older(b, a)
           /\ AtMost(a, b) /\ a # b => Older(a, b)
           /\ Older(a, b) => AtMost(a, b)
           /\ Older(a, b) /\ AtMost(b, c) => Older(a, c)
           /\ AtMost(a, b) /\ AtMost(b, c) => AtMost(a, c)
           /\ AtMost(a, a)
<1>1. /\ a.game \in Nat /\ a.version \in Nat /\ b.game \in Nat /\ b.version \in Nat
      /\ c.game \in Nat /\ c.version \in Nat
    BY Numbers
<1>2. a.game = b.game /\ a.version = b.version => a = b
    BY Numbers DEF Snapshots
<1> QED BY <1>1, <1>2 DEF AtMost, Older

LEMMA SnapshotsHere ==
    ASSUME PInv
    PROVE  /\ server.board \in Snapshots /\ panel.shown \in Snapshots /\ round \in Snapshots
           /\ \A q \in BagToSet(requests) : q.reply.board \in Snapshots
BY DEF PInv, Servers, PanelOK, Panels, RequestOK, Sound, Proofs

\* A board that is drawn is shown, and seen.
LEMMA ShownIsSeen ==
    ASSUME PInv, Seen, NEW p \in Panels, NEW b \in Snapshots, Show(p, b)
    PROVE  /\ Seen' /\ panel'.shown = b
           /\ AtMost(newest, newest') /\ AtMost(b, newest')
<1>1. panel'.shown = b
    BY DEF Show, Rendered, Panels
<1>2. newest' = IF Older(newest, b) THEN b ELSE newest
    BY DEF Show
<1>3. newest \in Snapshots
    BY DEF Seen
<1> QED BY <1>1, <1>2, <1>3, BoardOrder DEF Seen

\* What is coming suffices.
LEMMA ComingSuffices ==
    ASSUME PInv', IsABag(requests'), Seen', Queued', server'.up /\ stream'.open => Coming',
           \A q \in BagToSet(requests') : Told(q)'
    PROVE  MInv'
BY DEF MInv, NothingMissed, Current, Coming

\* Answers are told as long as the controller stands still.
LEMMA StillTold ==
    ASSUME MInv, server' = server,
           \A q \in BagToSet(requests') : q \in BagToSet(requests) \/ Unanswered(q)
    PROVE  \A q \in BagToSet(requests') : Told(q)'
BY DEF MInv, Told, Unanswered

\* A step on which the page and the controller stay as they are and no request
\* that fetches the board goes.
LEMMA QuietStep ==
    ASSUME MInv, PInv', IsABag(requests'), UNCHANGED <<server, stream, newest>>,
           panel'.shown = panel.shown, recovery.active => recovery'.active,
           Finishing => Finishing',
           \A q \in BagToSet(requests) : Refetches(q) => q \in BagToSet(requests'),
           \A q \in BagToSet(requests') : q \in BagToSet(requests) \/ Unanswered(q)
    PROVE  MInv'
<1>1. Seen' /\ Queued'
    BY DEF MInv, Seen, Queued
<1>2. Coming => Coming'
    BY DEF Coming, Refetches, Unanswered
<1>3. NothingMissed'
    BY <1>2 DEF MInv, NothingMissed, Coming
<1>4. \A q \in BagToSet(requests') : Told(q)'
    BY StillTold
<1>5. \A q \in BagToSet(requests') : Current(q)'
    BY <1>2 DEF MInv, Current, Unanswered
<1> QED BY <1>1, <1>3, <1>4, <1>5 DEF MInv

LEMMA QuietActions ==
    ASSUME MInv, PInv',
           \/ HoldEnds \/ Expire \/ ClickNewRound
           \/ \E kind \in {"refresh", "start", "crash"} : Click(kind)
    PROVE  MInv'
<1>1. CASE HoldEnds \/ Expire \/ ClickNewRound
  <2>1. UNCHANGED <<server, stream, requests, newest>>
      BY <1>1 DEF HoldEnds, Expire, ClickNewRound
  <2>2. recovery.active => recovery'.active
      BY <1>1 DEF HoldEnds, Expire, ClickNewRound, MInv, PInv, RecoveryOK, Recoveries
  <2>3. panel'.shown = panel.shown
      BY <1>1 DEF HoldEnds, Expire, ClickNewRound, EnterAttract, MInv, PInv, PanelOK, Panels
  <2>4. Finishing => Finishing'
      BY <1>1 DEF HoldEnds, Expire, ClickNewRound, Finishing
  <2> QED BY <2>1, <2>2, <2>3, <2>4, QuietStep DEF MInv
<1>2. ASSUME NEW kind \in {"refresh", "start", "crash"}, Click(kind)
      PROVE  MInv'
  <2>1. requests' = Sent(requests, kind) /\ UNCHANGED <<server, stream, newest, panel, recovery>>
      BY <1>2 DEF Click
  <2>2. BagToSet(requests') = BagToSet(requests) \cup {NewRequest(kind)} /\ IsABag(requests')
      BY <2>1, SentRequests, RequestBags DEF MInv
  <2>3. Finishing => Finishing'
      BY <1>2 DEF Click, Finishing
  <2> QED BY <2>1, <2>2, <2>3, NewRequestOK, QuietStep DEF MInv
<1> QED BY <1>1, <1>2

LEMMA TimerKeepsMInv ==
    ASSUME MInv, PInv', TimerFires
    PROVE  MInv'
<1>1. PICK kind \in {"poll", "finish"} :
        /\ Fire(kind)
        /\ \/ timer = kind /\ timer' = "none" /\ loose' = loose
           \/ loose' = [loose EXCEPT ![kind] = @ - 1] /\ timer' = timer
  <2>1. DOMAIN loose = {"poll", "finish"} /\ (timer # "none" => timer \in {"poll", "finish"})
      BY DEF MInv, PInv, Timers
  <2> QED BY <2>1 DEF TimerFires
<1>2. UNCHANGED <<server, stream, newest, panel>>
    BY <1>1 DEF Fire
<1>3. CASE kind = "poll"
  <2>1. recovery' = recovery /\ (requests' = requests \/ requests' = Sent(requests, "poll"))
      BY <1>1, <1>3 DEF Fire
  <2>2. /\ IsABag(requests')
        /\ \/ BagToSet(requests') = BagToSet(requests)
           \/ BagToSet(requests') = BagToSet(requests) \cup {NewRequest("poll")}
      BY <2>1, SentRequests, RequestBags DEF MInv
  <2>3. Finishing => Finishing'
      BY <1>1, <1>3 DEF Finishing, MInv, PInv, Timers
  <2> QED BY <1>2, <2>1, <2>2, <2>3, NewRequestOK, QuietStep DEF MInv
<1>4. CASE kind = "finish"
  <2>1. requests' = Sent(requests, "refresh")
      BY <1>1, <1>4 DEF Fire
  <2>2. BagToSet(requests') = BagToSet(requests) \cup {NewRequest("refresh")} /\ IsABag(requests')
      BY <2>1, SentRequests, RequestBags DEF MInv
  <2>3. Coming'
    <3>1. Unanswered(NewRequest("refresh")) /\ NewRequest("refresh").kind = "refresh"
        BY NewRequestOK DEF MInv
    <3> QED BY <2>2, <3>1 DEF Coming, Refetches, Unanswered
  <2>4. \A q \in BagToSet(requests') : Told(q)'
      BY <1>2, <2>2, NewRequestOK, StillTold DEF MInv
  <2>5. Seen' /\ Queued'
      BY <1>2 DEF MInv, Seen, Queued
  <2> QED BY <2>2, <2>3, <2>4, <2>5, ComingSuffices
<1> QED BY <1>3, <1>4

\* An answer arrives at a page that is not frozen, and is drawn.
LEMMA DrawnAnswer ==
    ASSUME MInv, PInv', NEW q \in BagToSet(requests), ~Unanswered(q), q.kind # "poll",
           UNCHANGED <<server, stream, recovery, timer, loose>>, requests' = Without(q),
           NEW p \in Panels, Show(p, q.reply.board)
    PROVE  MInv'
<1>1. /\ q.reply.board \in Snapshots /\ server.board \in Snapshots /\ newest \in Snapshots
      /\ newest' \in Snapshots
      /\ Seen' /\ panel'.shown = q.reply.board
      /\ AtMost(newest, newest') /\ AtMost(q.reply.board, newest')
  <2>1. q.reply.board \in Snapshots /\ server.board \in Snapshots
      BY SnapshotsHere DEF MInv
  <2>2. /\ Seen' /\ panel'.shown = q.reply.board
        /\ AtMost(newest, newest') /\ AtMost(q.reply.board, newest')
      BY <2>1, ShownIsSeen DEF MInv
  <2> QED BY <2>1, <2>2 DEF MInv, Seen
<1>2. /\ IsABag(requests') /\ BagToSet(requests') \subseteq BagToSet(requests)
      /\ BagToSet(requests) \ {q} \subseteq BagToSet(requests')
    BY RequestBags DEF MInv
<1>3. Queued' /\ \A r \in BagToSet(requests') : Told(r)'
    BY <1>2, StillTold DEF MInv, Queued
<1>4. CASE q.reply.board = server.board
  <2>1. ~Older(newest', server.board)
      BY <1>1, <1>4, BoardOrder
  <2> QED BY <1>1, <1>2, <1>3, <1>4, <2>1 DEF MInv, NothingMissed, Current
<1>5. CASE q.reply.board # server.board /\ server.up /\ ~Older(newest, server.board)
  <2>1. AtMost(q.reply.board, server.board) /\ AtMost(server.board, newest)
      BY <1>1, <1>5, BoardOrder DEF MInv, Told
  <2>2. Older(q.reply.board, newest') /\ ~Older(newest', server.board)
      BY <1>1, <1>5, <2>1, BoardOrder
  <2> QED BY <1>1, <1>2, <1>3, <2>2 DEF MInv, NothingMissed, Current
<1>6. CASE q.reply.board # server.board /\ server.up /\ stream.open /\ Coming
  <2>1. ~Refetches(q)
      BY <1>6 DEF Refetches
  <2>2. Coming'
      BY <1>2, <1>6, <2>1 DEF Coming, Finishing, Refetches, Unanswered
  <2> QED BY <1>1, <1>2, <1>3, <2>2, ComingSuffices
<1>7. CASE ~(server.up /\ stream.open)
    BY <1>1, <1>2, <1>3, <1>7, ComingSuffices
<1>8. server.up /\ stream.open =>
        q.reply.board = server.board \/ ~Older(newest, server.board) \/ Coming
    BY DEF MInv, Current
<1> QED BY <1>4, <1>5, <1>6, <1>7, <1>8

\* An answer that is not drawn, because a recovery is on, or a request that
\* failed, because no process is there, costs nothing.
LEMMA DroppedAnswer ==
    ASSUME MInv, PInv', NEW q \in BagToSet(requests), server' = server, stream' = stream,
           Seen', IsABag(requests'),
           \A r \in BagToSet(requests') : r \in BagToSet(requests) \/ Unanswered(r),
           recovery'.active \/ ~server.up
    PROVE  MInv'
<1>1. Queued' /\ \A r \in BagToSet(requests') : Told(r)'
    BY StillTold DEF MInv, Queued
<1>2. server'.up /\ stream'.open => Coming'
    BY DEF Coming
<1> QED BY <1>1, <1>2, ComingSuffices

LEMMA AnswerKeepsMInv ==
    ASSUME MInv, PInv', NEW q \in BagToSet(requests),
           RefreshArrives(q) \/ StartArrives(q)
    PROVE  MInv'
<1>1. /\ requests' = Without(q) /\ UNCHANGED <<server, stream, recovery, timer, loose>>
      /\ Unanswered(q) => ~server.up
      /\ q.kind # "poll"
    BY DEF RefreshArrives, StartArrives, Arrives
<1>2. IsABag(requests') /\ BagToSet(requests') \subseteq BagToSet(requests)
    BY <1>1, RequestBags DEF MInv
<1>3. panel \in Panels /\ LeaveAttract(panel) \in Panels
    BY Attracted DEF MInv, PInv, PanelOK
<1>4. CASE UNCHANGED <<panel, newest>> /\ (Unanswered(q) \/ recovery.active)
  <2>1. Seen'
      BY <1>4 DEF MInv, Seen
  <2> QED BY <1>1, <1>2, <1>4, <2>1, DroppedAnswer
<1>5. CASE ~Unanswered(q) /\ Show(panel, q.reply.board)
    BY <1>1, <1>3, <1>5, DrawnAnswer
<1>6. CASE ~Unanswered(q) /\ Show(LeaveAttract(panel), q.reply.board)
    BY <1>1, <1>3, <1>6, DrawnAnswer
<1> QED BY <1>4, <1>5, <1>6 DEF RefreshArrives, StartArrives

\* A poll that draws a board asks for another one 2.5 seconds later.
LEMMA PollKeepsMInv ==
    ASSUME MInv, PInv', NEW q \in BagToSet(requests), PollArrives(q)
    PROVE  MInv'
<1>1. requests' = Without(q) /\ UNCHANGED <<server, stream, recovery>> /\ q.kind = "poll"
    BY DEF PollArrives, Arrives
<1>2. /\ IsABag(requests') /\ BagToSet(requests') \subseteq BagToSet(requests)
      /\ BagToSet(requests) \ {q} \subseteq BagToSet(requests')
    BY <1>1, RequestBags DEF MInv
<1>3. ASSUME NEW proof, Sound(proof), FinishRecovery(proof)
      PROVE  MInv'
  <2>1. Coming'
      BY <1>3 DEF FinishRecovery, Finishing, Coming
  <2>2. Seen'
    <3>1. CASE proof = NoProof
        BY <1>3, <3>1 DEF FinishRecovery, MInv, Seen
    <3>2. CASE proof # NoProof
      <4>1. proof.board \in Snapshots /\ panel \in Panels
          BY <1>3 DEF Sound, Proofs, MInv, PInv, PanelOK
      <4> QED BY <1>3, <3>2, <4>1, ShownIsSeen DEF FinishRecovery, MInv
    <3> QED BY <3>1, <3>2
  <2>3. Queued' /\ \A r \in BagToSet(requests') : Told(r)'
      BY <1>1, <1>2, StillTold DEF MInv, Queued
  <2> QED BY <1>2, <2>1, <2>2, <2>3, ComingSuffices
<1>4. CASE Proven(q) \/ Expired
  <2>1. Sound(q.reply) /\ Sound(known)
      BY AnswersShow DEF MInv, PInv
  <2> QED BY <1>3, <1>4, <2>1 DEF PollArrives
<1>5. CASE ~Proven(q) /\ ~Expired
  <2>1. /\ loose' = IF timer = "none" THEN loose ELSE [loose EXCEPT ![timer] = @ + 1]
        /\ timer' = "poll" /\ UNCHANGED <<panel, newest>>
      BY <1>5 DEF PollArrives
  <2>2. Finishing => Finishing'
      BY <2>1 DEF Finishing, MInv, PInv, Timers
  <2>3. \A r \in BagToSet(requests) : Refetches(r) => r \in BagToSet(requests')
      BY <1>1, <1>2 DEF Refetches
  <2> QED BY <1>1, <1>2, <2>1, <2>2, <2>3, QuietStep
<1> QED BY <1>4, <1>5

LEMMA Recovers ==
    ASSUME MInv, PInv', NEW proof, NEW reqs, IsABag(reqs), BagToSet(reqs) \subseteq BagToSet(requests),
           BeginRecovery(proof, reqs), UNCHANGED <<server, panel, newest>>
    PROVE  /\ recovery'.active /\ IsABag(requests') /\ Seen'
           /\ \A r \in BagToSet(requests') : r \in BagToSet(requests) \/ Unanswered(r)
<1>1. Seen'
    BY DEF MInv, Seen
<1>2. CASE recovery.active
    BY <1>1, <1>2 DEF BeginRecovery
<1>3. CASE ~recovery.active
  <2>1. recovery' = Recovering(proof) /\ requests' = Sent(reqs, "poll")
      BY <1>3 DEF BeginRecovery
  <2>2. BagToSet(requests') = BagToSet(reqs) \cup {NewRequest("poll")} /\ IsABag(requests')
      BY <2>1, SentRequests, BagPlus DEF Sent
  <2> QED BY <1>1, <2>1, <2>2, NewRequestOK DEF Recovering, MInv
<1> QED BY <1>2, <1>3

LEMMA CrashAndOpenKeepMInv ==
    ASSUME MInv, PInv', NEW q \in BagToSet(requests), CrashArrives(q) \/ OpenArrives(q)
    PROVE  MInv'
<1>1. UNCHANGED <<server, stream>> /\ (Unanswered(q) => ~server.up) /\ q.kind # "poll"
    BY DEF CrashArrives, OpenArrives, Arrives
<1>2. /\ IsABag(Without(q)) /\ IsABag(Sent(Without(q), "poll"))
      /\ BagToSet(Without(q)) \subseteq BagToSet(requests)
      /\ BagToSet(requests) \ {q} \subseteq BagToSet(Without(q))
    BY RequestBags DEF MInv
<1>3. CASE CrashArrives(q) /\ Unanswered(q)
  <2>1. Seen' /\ requests' = Without(q)
      BY <1>3 DEF CrashArrives, MInv, Seen
  <2> QED BY <1>1, <1>2, <1>3, <2>1, DroppedAnswer
<1>4. CASE (CrashArrives(q) /\ ~Unanswered(q)) \/ (OpenArrives(q) /\ Unanswered(q))
  <2>1. PICK proof : BeginRecovery(proof, Without(q)) /\ UNCHANGED <<panel, newest>>
      BY <1>4 DEF CrashArrives, OpenArrives
  <2> QED BY <1>1, <1>2, <2>1, Recovers, DroppedAnswer
<1>5. CASE OpenArrives(q) /\ ~Unanswered(q) /\ recovery.active
  <2>1. /\ requests' = Sent(Without(q), "poll") /\ UNCHANGED <<panel, newest, recovery>>
        /\ BagToSet(requests') = BagToSet(Without(q)) \cup {NewRequest("poll")}
      BY <1>5, SentRequests DEF OpenArrives
  <2>2. Seen'
      BY <2>1 DEF MInv, Seen
  <2> QED BY <1>1, <1>2, <1>5, <2>1, <2>2, NewRequestOK, DroppedAnswer DEF MInv
<1>6. CASE OpenArrives(q) /\ ~Unanswered(q) /\ ~recovery.active
  <2>1. requests' = Without(q) /\ Show(panel, q.reply.board) /\ recovery' = recovery
      BY <1>6 DEF OpenArrives
  <2>2. UNCHANGED <<timer, loose>>
      BY <1>6 DEF OpenArrives
  <2> QED BY <1>1, <1>6, <2>1, <2>2, DrawnAnswer DEF MInv, PInv, PanelOK
<1> QED BY <1>3, <1>4, <1>5, <1>6

\* What is left of a queue ends as the queue did.
LEMMA TailLast ==
    ASSUME NEW queue \in Seq(Snapshots), queue # <<>>
    PROVE  /\ Len(queue) = 1 => Tail(queue) = <<>>
           /\ Len(queue) # 1 => /\ Tail(queue) # <<>>
                                /\ Tail(queue)[Len(Tail(queue))] = queue[Len(queue)]
<1>1. /\ Tail(queue) \in Seq(Snapshots) /\ Len(Tail(queue)) = Len(queue) - 1
      /\ \A i \in 1 .. Len(Tail(queue)) : Tail(queue)[i] = queue[i + 1]
      /\ Len(queue) \in Nat \ {0}
    BY HeadTailProperties, EmptySeq
<1>2. PICK rest \in Seq(Snapshots) : rest = Tail(queue)
    BY <1>1
<1>3. rest # <<>> => Len(rest) \in Nat \ {0}
    BY EmptySeq
<1>4. rest = <<>> => Len(rest) = 0
    BY EmptySeq
<1>5. CASE Len(queue) = 1
    BY <1>1, <1>2, <1>3, <1>5
<1>6. CASE Len(queue) # 1
  <2>1. Len(rest) \in 1 .. Len(rest) /\ Len(rest) + 1 = Len(queue)
      BY <1>1, <1>2, <1>6
  <2> QED BY <1>1, <1>2, <1>4, <1>6, <2>1
<1> QED BY <1>5, <1>6

LEMMA StreamKeepsMInv ==
    ASSUME MInv, PInv', Message \/ Open \/ StreamLost \/ StreamDrops
    PROVE  MInv'
<1>1. <<>> \in Seq(Snapshots) /\ stream \in Streams
    BY DEF MInv, PInv, StreamOK
<1>2. CASE Message
  <2>1. PICK queue \in Seq(Snapshots) : queue = stream.queue /\ queue # <<>>
      BY <1>1, <1>2 DEF Message, Streams
  <2>2. /\ stream' = [open |-> TRUE, queue |-> Tail(queue)] /\ stream.open
        /\ UNCHANGED <<server, requests, recovery>>
      BY <1>1, <1>2, <2>1 DEF Message, Streams
  <2>3. Len(queue) \in Nat \ {0} /\ Head(queue) = queue[1] /\ queue[1] \in Snapshots
      BY <2>1
  <2>4. Len(queue) = 1 => Tail(queue) = <<>>
      BY <2>1, TailLast
  <2>5. Len(queue) # 1 => /\ Tail(queue) # <<>>
                          /\ Tail(queue)[Len(Tail(queue))] = queue[Len(queue)]
      BY <2>1, TailLast
  <2>6. Queued'
      BY <2>1, <2>2, <2>3, <2>4, <2>5 DEF MInv, Queued
  <2>7. \A r \in BagToSet(requests') : Told(r)'
      BY <2>2, StillTold
  <2>8. CASE recovery.active
    <3>1. Seen' /\ Coming'
        BY <1>2, <2>2, <2>8 DEF Message, MInv, Seen, Coming
    <3> QED BY <2>2, <2>6, <2>7, <3>1, ComingSuffices DEF MInv
  <2>9. CASE ~recovery.active
    <3>1. Show(panel, queue[1]) /\ panel \in Panels
        BY <1>2, <2>1, <2>3, <2>9 DEF Message, MInv, PInv, PanelOK
    <3>2. Seen' /\ panel'.shown = queue[1] /\ AtMost(queue[1], newest')
        BY <2>3, <3>1, ShownIsSeen DEF MInv
    <3>3. CASE Len(queue) # 1 /\ server.up
      <4>1. Coming'
          BY <2>1, <2>2, <2>5, <3>3 DEF Coming, MInv, Queued
      <4> QED BY <2>2, <2>6, <2>7, <3>2, <4>1, ComingSuffices DEF MInv
    <3>4. CASE Len(queue) = 1 /\ server.up
      <4>1. panel'.shown = server.board
          BY <2>1, <3>2, <3>4 DEF MInv, Queued
      <4>2. ~Older(newest', server.board)
          BY <2>3, <3>2, <4>1, BoardOrder DEF Seen
      <4> QED BY <2>2, <2>6, <2>7, <3>2, <4>1, <4>2 DEF MInv, NothingMissed, Current
    <3>5. CASE ~server.up
        BY <2>2, <2>6, <2>7, <3>2, <3>5, ComingSuffices DEF MInv
    <3> QED BY <3>3, <3>4, <3>5
  <2> QED BY <2>8, <2>9
<1>3. CASE Open
  <2>1. /\ stream' = [open |-> TRUE, queue |-> <<>>] /\ requests' = Sent(requests, "open")
        /\ UNCHANGED <<server, panel, newest>>
      BY <1>3 DEF Open, RefreshOnOpen
  <2>2. BagToSet(requests') = BagToSet(requests) \cup {NewRequest("open")} /\ IsABag(requests')
      BY <2>1, SentRequests, RequestBags DEF MInv
  <2>3. Unanswered(NewRequest("open")) /\ NewRequest("open").kind = "open"
      BY NewRequestOK DEF MInv
  <2>4. Coming' /\ Seen' /\ Queued'
      BY <2>1, <2>2, <2>3 DEF Coming, Refetches, Unanswered, MInv, Seen, Queued
  <2>5. \A r \in BagToSet(requests') : Told(r)'
      BY <2>1, <2>2, <2>3, StillTold
  <2> QED BY <2>2, <2>4, <2>5, ComingSuffices
<1>4. CASE StreamLost \/ StreamDrops
  <2>1. stream' = Broken /\ BeginRecovery(known, requests) /\ UNCHANGED <<server, panel, newest>>
      BY <1>4 DEF StreamLost, StreamDrops
  <2>2. /\ IsABag(requests') /\ Seen'
        /\ \A r \in BagToSet(requests') : r \in BagToSet(requests) \/ Unanswered(r)
      BY <2>1, Recovers DEF MInv
  <2>3. Queued' /\ ~stream'.open
      BY <2>1 DEF Queued, Broken
  <2>4. \A r \in BagToSet(requests') : Told(r)'
      BY <2>1, <2>2, StillTold
  <2> QED BY <2>2, <2>3, <2>4, ComingSuffices
<1> QED BY <1>2, <1>3, <1>4
\* The controller shows a newer board: it is the last message of a live stream.
LEMMA PublishedMInv ==
    ASSUME MInv, PInv', NEW b \in Snapshots, Published(b), AtMost(server.board, b),
           UNCHANGED <<panel, newest, recovery>>, IsABag(requests'),
           \A q \in BagToSet(requests') :
              q \in BagToSet(requests) \/ Unanswered(q) \/ q.reply.board = b
    PROVE  MInv'
<1>1. /\ stream \in Streams /\ server \in Servers
      /\ stream.queue \in Seq(Snapshots) /\ Len(stream.queue) <= Lag
    BY DEF MInv, PInv, StreamOK, Streams
<1>2. server'.board = b /\ server'.up = server.up
    BY <1>1 DEF Published, Servers
<1>3. PICK queue :
        /\ stream' = [open |-> stream.open, queue |-> queue]
        /\ queue = IF stream.open THEN Enqueued(stream.queue, b) ELSE <<>>
    BY <1>1 DEF Published, Streams
<1>4. stream.open => queue # <<>> /\ queue[Len(queue)] = b
  <2>1. ASSUME NEW rest \in Seq(Snapshots)
        PROVE  Append(rest, b) # <<>> /\ Append(rest, b)[Len(Append(rest, b))] = b
      OBVIOUS
  <2>2. Len(stream.queue) = Lag => Tail(stream.queue) \in Seq(Snapshots)
    <3>1. ASSUME NEW old \in Seq(Snapshots), Len(old) # 0
          PROVE  Tail(old) \in Seq(Snapshots)
        BY <3>1
    <3> QED BY <1>1, <3>1, Numbers
  <2> QED BY <1>1, <1>3, <2>1, <2>2 DEF Enqueued
<1>5. stream.open \in BOOLEAN /\ stream'.open = stream.open /\ stream'.queue = queue
    BY <1>1, <1>3 DEF Streams
<1>6. ~stream.open => queue = <<>>
    BY <1>3, <1>5
<1>7. Queued' /\ (stream'.open => Coming')
    BY <1>2, <1>4, <1>5, <1>6 DEF Queued, Coming
<1>8. \A q \in BagToSet(requests') : Told(q)'
  <2> SUFFICES ASSUME NEW q \in BagToSet(requests'), server'.up, ~Unanswered(q)
               PROVE  AtMost(q.reply.board, b)
      BY <1>2 DEF Told, Unanswered
  <2>1. CASE q \in BagToSet(requests)
    <3>1. AtMost(q.reply.board, server.board)
        BY <1>2, <2>1 DEF MInv, Told
    <3>2. q.reply.board \in Snapshots /\ server.board \in Snapshots
        BY <2>1, SnapshotsHere DEF MInv
    <3> QED BY <3>1, <3>2, BoardOrder
  <2>2. CASE q.reply.board = b
      BY <2>2, BoardOrder
  <2> QED BY <2>1, <2>2
<1>9. Seen'
    BY DEF MInv, Seen
<1> QED BY <1>7, <1>8, <1>9, ComingSuffices

LEMMA NextGameIsNewer ==
    ASSUME PInv, StartNext
    PROVE  round' \in Snapshots /\ AtMost(server.board, round')
<1>1. /\ round' \in Snapshots /\ round'.game > round.game /\ AtMost(server.board, round)
      /\ round \in Snapshots /\ server.board \in Snapshots
    BY NextGame, SnapshotsHere DEF PInv
<1>2. round.game \in Nat /\ round'.game \in Nat /\ server.board.game \in Nat
    BY <1>1, Numbers
<1> QED BY <1>1, <1>2 DEF AtMost

LEMMA ServeKeepsMInv ==
    ASSUME MInv, PInv', NEW q \in BagToSet(requests), Serve(q)
    PROVE  MInv'
<1>1. /\ UNCHANGED <<panel, recovery, newest>> /\ server.up /\ Unanswered(q)
      /\ q \in Requests /\ (Finishing => Finishing')
    BY AnswersShow DEF Serve, MInv, Finishing
<1>2. /\ IsABag(Without(q))
      /\ BagToSet(Without(q)) \subseteq BagToSet(requests)
      /\ BagToSet(requests) \ {q} \subseteq BagToSet(Without(q))
    BY RequestBags DEF MInv
<1>3. CASE q.kind # "start"
  <2>1. PICK answer : answer = [q EXCEPT !.reply = Proof]
      OBVIOUS
  <2>2. requests' = Without(q) (+) SetToBag({answer}) /\ UNCHANGED <<server, stream>>
      BY <1>3, <2>1 DEF Serve
  <2>3. IsABag(requests') /\ BagToSet(requests') = BagToSet(Without(q)) \cup {answer}
      BY <2>2, RequestBags DEF MInv
  <2>4. answer.kind = q.kind /\ answer.reply.board = server.board
      BY <1>1, <2>1 DEF Requests, Proof
  <2>5. Seen' /\ Queued'
      BY <1>1, <2>2 DEF MInv, Seen, Queued
  <2>6. Coming => Coming'
    <3>1. ASSUME NEW r \in BagToSet(requests), Refetches(r)
          PROVE  \E x \in BagToSet(requests') : Refetches(x)'
      <4>1. CASE r = q
          BY <2>2, <2>3, <2>4, <3>1, <4>1 DEF Refetches, Unanswered
      <4>2. CASE r # q
          BY <1>2, <2>2, <2>3, <3>1, <4>2 DEF Refetches, Unanswered
      <4> QED BY <4>1, <4>2
    <3> QED BY <1>1, <2>2, <3>1 DEF Coming
  <2>7. NothingMissed'
      BY <1>1, <2>2, <2>6 DEF MInv, NothingMissed, Coming
  <2>8. ASSUME NEW r \in BagToSet(requests')
        PROVE  Told(r)' /\ Current(r)'
    <3>1. CASE r = answer
      <4>1. AtMost(server.board, server.board)
          BY SnapshotsHere, BoardOrder DEF MInv
      <4> QED BY <2>2, <2>4, <3>1, <4>1 DEF Told, Current
    <3>2. CASE r \in BagToSet(requests)
      <4>1. Told(r) /\ Current(r)
          BY <3>2 DEF MInv
      <4> QED BY <1>1, <2>2, <2>6, <4>1 DEF Told, Current, Unanswered
    <3> QED BY <1>2, <2>3, <3>1, <3>2
  <2> QED BY <2>3, <2>5, <2>7, <2>8 DEF MInv
<1>4. CASE q.kind = "start" /\ ~Running(round) /\ round.game < MaxGames
  <2>1. PICK answer : answer = [q EXCEPT !.reply = [Proof EXCEPT !.board = round']]
      OBVIOUS
  <2>2. StartNext /\ Published(round') /\ requests' = Without(q) (+) SetToBag({answer})
      BY <1>4, <2>1 DEF Serve
  <2>3. answer.reply.board = round'
      BY <1>1, <2>1 DEF Requests, Proof
  <2>4. IsABag(requests') /\ BagToSet(requests') = BagToSet(Without(q)) \cup {answer}
      BY <2>2, RequestBags DEF MInv
  <2> QED BY <1>1, <1>2, <2>2, <2>3, <2>4, NextGameIsNewer, PublishedMInv DEF MInv
<1>5. CASE q.kind = "start" /\ ~(~Running(round) /\ round.game < MaxGames)
  <2>1. requests' = Without(q) /\ UNCHANGED <<server, stream>>
      BY <1>5 DEF Serve
  <2>2. \A r \in BagToSet(requests) : Refetches(r) => r \in BagToSet(requests')
      BY <1>2, <1>5, <2>1 DEF Refetches
  <2> QED BY <1>1, <1>2, <2>1, <2>2, QuietStep DEF MInv
<1> QED BY <1>3, <1>4, <1>5

LEMMA ControllerKeepsMInv ==
    ASSUME MInv, PInv', Progress \/ StartedElsewhere \/ Publish \/ Exit \/ Restart
    PROVE  MInv'
<1>1. UNCHANGED <<panel, recovery, newest, requests>> /\ (Finishing => Finishing')
    BY DEF Progress, StartedElsewhere, Publish, Exit, Restart, page, Finishing
<1>2. server \in Servers /\ stream \in Streams /\ IsABag(requests')
    BY <1>1 DEF MInv, PInv, StreamOK
<1>3. CASE Progress
    BY <1>1, <1>3, QuietStep DEF Progress, MInv
<1>4. CASE StartedElsewhere
    BY <1>1, <1>4, NextGameIsNewer, PublishedMInv DEF StartedElsewhere, MInv
<1>5. CASE Publish
  <2>1. AtMost(server.board, round) /\ round \in Snapshots /\ Published(round)
      BY <1>5 DEF Publish, MInv, PInv
  <2> QED BY <1>1, <2>1, PublishedMInv DEF MInv
<1>6. CASE Exit
  <2>1. ~server'.up /\ stream' = stream
      BY <1>2, <1>6 DEF Exit, Servers
  <2>2. Seen' /\ Queued' /\ \A q \in BagToSet(requests') : Told(q)'
      BY <1>1, <2>1 DEF MInv, Seen, Queued, Told
  <2> QED BY <1>2, <2>1, <2>2, ComingSuffices
<1>7. CASE Restart
  <2>1. /\ stream' = stream /\ ~stream.open /\ stream.queue = <<>>
        /\ \A q \in BagToSet(requests) : q.reply.instance # server.instance
      BY <1>7 DEF Restart, MInv, Queued
  <2>2. \A q \in BagToSet(requests) : Unanswered(q)
      BY <2>1 DEF MInv, PInv, RequestOK
  <2>3. Seen' /\ Queued' /\ \A q \in BagToSet(requests') : Told(q)'
      BY <1>1, <2>1, <2>2 DEF MInv, Seen, Queued, Told, Unanswered
  <2> QED BY <1>2, <2>1, <2>3, ComingSuffices
<1> QED BY <1>3, <1>4, <1>5, <1>6, <1>7

LEMMA InitMInv == Init => MInv
<1> SUFFICES ASSUME Init PROVE MInv
    OBVIOUS
<1>1. PInv
    BY InitPInv
<1>2. BagToSet(EmptyBag) = {} /\ IsABag(EmptyBag)
    BY DEF EmptyBag, BagToSet, SetToBag, IsABag
<1>3. IsABag(requests)
  <2>1. IsABag(Sent(EmptyBag, "poll"))
      BY <1>2, BagPlus DEF Sent
  <2> QED BY <1>2, <2>1 DEF Init
<1>4. Seen
    BY <1>1, SnapshotsHere, BoardOrder DEF Init, Seen
<1>5. Queued /\ ~stream.open
    BY DEF Init, Broken, Queued
<1>6. ASSUME NEW q \in BagToSet(requests)
      PROVE  Unanswered(q)
  <2>1. requests = Sent(EmptyBag, "poll")
      BY <1>2 DEF Init
  <2>2. q = NewRequest("poll")
      BY <1>2, <2>1, SentRequests
  <2> QED BY <2>2 DEF NewRequest, Unanswered
<1> QED BY <1>1, <1>3, <1>4, <1>5, <1>6 DEF MInv, NothingMissed, Told, Current

LEMMA NextKeepsMInv == MInv /\ [Next]_vars => MInv'
<1> SUFFICES ASSUME MInv, [Next]_vars PROVE MInv'
    OBVIOUS
<1>1. PInv'
    BY NextKeepsPInv DEF MInv
<1>2. CASE UNCHANGED vars
    BY <1>1, <1>2, QuietStep DEF vars, MInv, Finishing
<1>3. ASSUME NEW q \in BagToSet(requests), Request(q)
      PROVE  MInv'
    BY <1>1, <1>3, ServeKeepsMInv, AnswerKeepsMInv, PollKeepsMInv, CrashAndOpenKeepMInv DEF Request
<1>4. CASE HoldEnds \/ Expire \/ ClickNewRound
           \/ \E kind \in {"refresh", "start", "crash"} : Click(kind)
    BY <1>1, <1>4, QuietActions
<1>5. CASE TimerFires
    BY <1>1, <1>5, TimerKeepsMInv
<1>6. CASE Message \/ Open \/ StreamLost \/ StreamDrops
    BY <1>1, <1>6, StreamKeepsMInv
<1>7. CASE Progress \/ StartedElsewhere \/ Publish \/ Exit \/ Restart
    BY <1>1, <1>7, ControllerKeepsMInv
<1> QED BY <1>2, <1>3, <1>4, <1>5, <1>6, <1>7 DEF Next

\* Whatever the stream skipped, broke off before or delivered to a frozen board, a
\* page on a live stream that does not show the controller's board is told of it,
\* or was taken back by a late answer.
THEOREM NothingIsMissed == Spec => []NothingMissed
<1>1. MInv => NothingMissed
    BY DEF MInv
<1> QED BY <1>1, InitMInv, NextKeepsMInv, PTL DEF Spec
=============================================================================
