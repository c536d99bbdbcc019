------------------------- MODULE GameRecord_proofs -------------------------
(***************************************************************************)
(* Proofs about GameRecord for every bound and every set of requests.      *)
(* TypeOK is inductive.  TurnCountsMoves is inductive with it: the turn is *)
(* computed from the game the event meets, never from the event, so the    *)
(* queue plays no part, and an undo restores an entry that fits as well.   *)
(* That the record follows the camera needs the queue, see FollowInv.      *)
(* That the undo history is the line of positions UndoLine promises needs  *)
(* the types only: each step of the state manager is one of UndoLine.      *)
(***************************************************************************)
EXTENDS MCGameRecord, FiniteSetTheorems, SequenceTheorems, TLAPS

LEMMA StartIsBoard == Start \in Board /\ NewGame \in Game
  BY BoundsAssumption DEF Start, Board, NewGame, Game, Side

LEMMA OtherIsSide == ASSUME NEW s \in Side PROVE Other(s) \in Side /\ Other(s) # s
  BY DEF Other, Side

\* A move made where one can be made leads to a board.
LEMMA PlayedIsBoard ==
  ASSUME NEW b \in Board, NEW s \in Side, CanMove(b)
  PROVE  Played(b, s) \in Board
  <1>1. b \in [Side -> 0..MaxPly] /\ b["w"] + b["b"] <= MaxPly /\ b["w"] + b["b"] # MaxPly
    BY DEF Board, CanMove, Ended
  <1>2. b["w"] \in 0..MaxPly /\ b["b"] \in 0..MaxPly /\ MaxPly \in Nat
    BY <1>1, BoundsAssumption DEF Side
  <1>3. CASE s = "w"
    BY <1>1, <1>2, <1>3 DEF Played, Board, Side
  <1>4. CASE s = "b"
    BY <1>1, <1>2, <1>4 DEF Played, Board, Side
  <1>5. QED
    BY <1>3, <1>4 DEF Side

LEMMA EventIsEvent ==
  ASSUME NEW kind \in {"vision", "manual", "undo", "reset", "over", "note", "status"},
         NEW b \in Board, NEW s \in Side, NEW moved \in BOOLEAN
  PROVE  MoveEvent(kind, b, s, moved) \in Event /\ PlainEvent(kind) \in Event
  BY StartIsBoard DEF MoveEvent, PlainEvent, Event, Side

\* The reducers turn games into games, in which turn and moves still fit.
LEMMA ReducedFits ==
  ASSUME NEW game \in Game, NEW e \in Event
  PROVE  /\ Reduced(game, e) \in Game
         /\ TurnFits(game) => TurnFits(Reduced(game, e))
  <1>1. CASE e.kind \in {"vision", "manual"}
    <2>1. Reduced(game, e) = Moved(game, e)
      BY <1>1 DEF Reduced
    <2>2. CASE game.over
      BY <2>1, <2>2 DEF Moved
    <2>3. CASE ~game.over
      <3>1. /\ game.moves \in Nat /\ game.turn \in Side /\ Other(game.turn) \in Side
            /\ e.board \in Board /\ e.side \in Side /\ e.moved \in BOOLEAN
            /\ Ended(e.board) \in BOOLEAN
        BY OtherIsSide DEF Game, Event, Ended
      <3>2. Moved(game, e) = [board |-> e.board, side |-> e.side,
                              turn  |-> IF e.moved THEN Other(game.turn) ELSE game.turn,
                              moves |-> IF e.moved THEN game.moves + 1 ELSE game.moves,
                              over  |-> Ended(e.board)]
        BY <2>3 DEF Moved
      <3>3. Moved(game, e) \in Game
        BY <3>1, <3>2 DEF Game
      <3>4. ASSUME TurnFits(game) PROVE TurnFits(Moved(game, e))
        <4>1. CASE e.moved
          <5>1. (game.moves + 1) % 2 = 0 <=> game.moves % 2 # 0
            BY <3>1, SMT
          <5>2. Other(game.turn) = "w" <=> game.turn # "w"
            BY <3>1 DEF Other, Side
          <5>3. QED
            BY <3>2, <3>4, <4>1, <5>1, <5>2 DEF TurnFits
        <4>2. CASE ~e.moved
          BY <3>2, <3>4, <4>2 DEF TurnFits
        <4>3. QED
          BY <4>1, <4>2
      <3>5. QED
        BY <2>1, <3>3, <3>4
    <2>4. QED
      BY <2>2, <2>3 DEF Game
  <1>2. CASE e.kind = "reset"
    BY <1>2, StartIsBoard DEF Reduced, NewGame, TurnFits
  <1>3. CASE e.kind \in {"over", "status"}
    BY <1>3 DEF Reduced, Game, TurnFits
  <1>4. CASE e.kind \notin {"vision", "manual", "reset", "over", "status"}
    BY <1>4 DEF Reduced
  <1>5. QED
    BY <1>1, <1>2, <1>3, <1>4

-----------------------------------------------------------------------------
(* The inductive invariant.                                                *)

FitInv == TypeOK /\ TurnCountsMoves

LEMMA InitFits == Init => FitInv
  <1> SUFFICES ASSUME Init PROVE FitInv
    OBVIOUS
  <1>1. TypeOK
    <2>1. Start \in Board /\ NewGame \in Game
      BY StartIsBoard
    <2>2. history \in Seq(Game) /\ Len(history) = 0 /\ loopq \in Seq(Event)
      BY DEF Init
    <2>3. vision \in [pc : {"idle", "read", "judge", "publish"}, turn : Side,
                     from : Board \cup {None}, board : Board,
                     moved : BOOLEAN, verdict : Verdict]
      BY <2>1 DEF Init, NoResult, Side, Verdict
    <2>4. sync \in [pc : {"idle", "blank", "publish"}, board : Board, side : Side]
      BY <2>1 DEF Init, NoSync, Side
    <2>5. followed \in BOOLEAN /\ overlap \in BOOLEAN
      BY DEF Init
    <2>6. Len(history) <= MaxHistory
      BY <2>2, BoundsAssumption
    <2>7. store \in Game /\ baseline \in Board \cup {None}
      BY <2>1 DEF Init
    <2>8. QED
      BY <2>2, <2>3, <2>4, <2>5, <2>6, <2>7 DEF TypeOK
  <1>2. TurnCountsMoves
    BY DEF Init, TurnCountsMoves, TurnFits, NewGame
  <1>3. QED
    BY <1>1, <1>2 DEF FitInv

\* What is queued are events.
LEMMA EnqueueKeepsType ==
  ASSUME loopq \in Seq(Event), NEW events \in Seq(Event), Enqueue(events)
  PROVE  loopq' \in Seq(Event)
  BY DEF Enqueue

\* The history keeps its type, its bound and its fitting entries.
LEMMA PushKeeps ==
  ASSUME FitInv, Push(store)
  PROVE  /\ history' \in Seq(Game) /\ Len(history') <= MaxHistory
         /\ \A i \in DOMAIN history' : TurnFits(history'[i])
  <1> DEFINE longer == Append(history, store)
  <1>1. longer \in Seq(Game) /\ Len(longer) = Len(history) + 1
    BY DEF FitInv, TypeOK
  <1>2. \A i \in 1..Len(longer) : TurnFits(longer[i])
    BY <1>1 DEF FitInv, TypeOK, TurnCountsMoves
  <1>3. CASE Len(longer) > MaxHistory
    <2>1. history' = Tail(longer)
      BY <1>3 DEF Push
    <2>2. history' \in Seq(Game) /\ Len(history') = Len(longer) - 1
      BY <2>1, <1>1
    <2>3. \A i \in 1..Len(history') : history'[i] = longer[i + 1] /\ i + 1 \in 1..Len(longer)
      BY <2>1, <2>2, <1>1
    <2>4. Len(history') <= MaxHistory
      BY <2>2, <1>1 DEF FitInv, TypeOK
    <2>5. \A i \in 1..Len(history') : TurnFits(history'[i])
      BY <2>3, <1>2
    <2>6. DOMAIN history' = 1..Len(history')
      BY <2>2
    <2>7. QED
      BY <2>2, <2>4, <2>5, <2>6
  <1>4. CASE ~(Len(longer) > MaxHistory)
    <2>1. history' = longer
      BY <1>4 DEF Push
    <2>2. QED
      BY <2>1, <1>1, <1>2, <1>4, BoundsAssumption
  <1>5. QED
    BY <1>3, <1>4

LEMMA DispatchFits == FitInv /\ Dispatch => FitInv'
  <1> SUFFICES ASSUME FitInv, Dispatch PROVE FitInv'
    OBVIOUS
  <1> USE DEF FitInv
  <1>1. Head(loopq) \in Event /\ Tail(loopq) \in Seq(Event)
    BY DEF Dispatch, TypeOK
  <1>2. store \in Game /\ TurnFits(store)
    BY DEF TypeOK, TurnCountsMoves
  <1>3. store' \in Game /\ TurnFits(store')
    BY <1>1, <1>2, ReducedFits DEF Dispatch
  <1>4. /\ history' \in Seq(Game) /\ Len(history') <= MaxHistory
        /\ \A i \in DOMAIN history' : TurnFits(history'[i])
    <2>1. history' = history \/ Push(store)
      BY DEF Dispatch
    <2>2. QED
      BY <2>1, PushKeeps DEF TypeOK, TurnCountsMoves
  <1>5. followed' \in BOOLEAN
    BY DEF Dispatch, TypeOK
  <1>6. QED
    BY <1>1, <1>3, <1>4, <1>5 DEF Dispatch, TypeOK, TurnCountsMoves, TurnFits

LEMMA DispatchUndoFits == FitInv /\ DispatchUndo => FitInv'
  <1> SUFFICES ASSUME FitInv, DispatchUndo PROVE FitInv'
    OBVIOUS
  <1> USE DEF FitInv
  <1>1. loopq' \in Seq(Event)
    BY DEF DispatchUndo, TypeOK
  <1>2. CASE Different = {}
    BY <1>1, <1>2, BoundsAssumption DEF DispatchUndo, TypeOK, TurnCountsMoves, TurnFits
  <1>3. CASE Different # {}
    <2>1. PICK i \in Different : /\ store' = history[i]
                                 /\ history' = SubSeq(history, 1, i - 1)
                                 /\ followed' = FALSE
      BY <1>3 DEF DispatchUndo
    <2>2. i \in 1..Len(history) /\ history \in Seq(Game) /\ Len(history) <= MaxHistory
      BY <2>1 DEF Different, TypeOK
    <2>3. store' \in Game /\ TurnFits(history[i])
      BY <2>1, <2>2 DEF TurnCountsMoves
    <2>4. /\ history' \in Seq(Game) /\ Len(history') = i - 1
          /\ \A j \in 1..(i - 1) : history'[j] = history[j]
      BY <2>1, <2>2
    <2>5. \A j \in 1..Len(history') : TurnFits(history'[j])
      BY <2>2, <2>4 DEF TurnCountsMoves
    <2>6. Len(history') <= MaxHistory
      BY <2>2, <2>4, BoundsAssumption
    <2>7. DOMAIN history' = 1..Len(history')
      BY <2>4
    <2>8. TypeOK'
      BY <1>1, <2>1, <2>3, <2>4, <2>6 DEF DispatchUndo, TypeOK
    <2>9. TurnCountsMoves'
      BY <2>1, <2>3, <2>5, <2>7 DEF TurnCountsMoves, TurnFits
    <2>10. QED
      BY <2>8, <2>9
  <1>4. QED
    BY <1>2, <1>3

-----------------------------------------------------------------------------
(* One step for each of the other actions: the game and its history are    *)
(* left alone, only the types are at stake.                                *)

GameUnchanged == UNCHANGED <<store, history>>

LEMMA OthersFit ==
  ASSUME FitInv, GameUnchanged,
         \/ ReadTurn \/ Validate \/ Judge \/ Publish
         \/ SyncReset \/ SyncFails \/ SyncCommit \/ SyncPublish
         \/ ManualMove \/ Undo \/ Reset \/ Background
  PROVE  FitInv'
  <1> USE DEF FitInv
  <1>1. TurnCountsMoves'
    BY DEF GameUnchanged, TurnCountsMoves, TurnFits
  <1>2. store' \in Game /\ history' \in Seq(Game) /\ Len(history') <= MaxHistory
    BY DEF GameUnchanged, TypeOK
  <1>3. CASE ReadTurn
    <2>1. store.turn \in Side
      BY DEF TypeOK, Game
    <2>2. vision' \in [pc : {"idle", "read", "judge", "publish"}, turn : Side,
                       from : Board \cup {None}, board : Board,
                       moved : BOOLEAN, verdict : Verdict]
      BY <1>3, <2>1, StartIsBoard DEF ReadTurn, NoResult, Verdict
    <2>3. QED
      BY <1>1, <1>2, <1>3, <2>2 DEF ReadTurn, TypeOK
  <1>4. CASE Validate
    <2>1. ASSUME NEW b \in Board, NEW moved \in BOOLEAN, Commit(b, moved)
          PROVE  TypeOK'
      BY <1>2, <1>4, <2>1 DEF Validate, Commit, TypeOK
    <2>2. ASSUME vision' = NoResult, UNCHANGED baseline
          PROVE  TypeOK'
      <3>1. vision' \in [pc : {"idle", "read", "judge", "publish"}, turn : Side,
                         from : Board \cup {None}, board : Board,
                         moved : BOOLEAN, verdict : Verdict]
        BY <2>2, StartIsBoard DEF NoResult, Side, Verdict
      <3>2. QED
        BY <1>2, <1>4, <2>2, <3>1 DEF Validate, TypeOK
    <2>3. ASSUME baseline # None, CanMove(baseline)
          PROVE  Played(baseline, vision.turn) \in Board
      BY <2>3, PlayedIsBoard DEF TypeOK
    <2>4. QED
      BY <1>1, <1>4, <2>1, <2>2, <2>3 DEF Validate
  <1>5. CASE Judge
    <2>1. PICK verdict \in Verdicts :
            /\ vision' = [vision EXCEPT !.pc = "publish", !.verdict = verdict]
            /\ Enqueue(IF verdict \in {"verified", "accepted"} /\ Ended(vision.board)
                         THEN <<PlainEvent("over"), PlainEvent("note")>>
                         ELSE <<PlainEvent("note")>>)
      BY <1>5 DEF Judge
    <2>2. verdict \in Verdict
      BY DEF Verdicts, Verdict
    <2>3. PlainEvent("over") \in Event /\ PlainEvent("note") \in Event
      BY EventIsEvent, StartIsBoard DEF Side
    <2>4. loopq' \in Seq(Event)
      <3>1. ASSUME NEW events \in Seq(Event), Enqueue(events)
            PROVE  loopq' \in Seq(Event)
        BY <3>1, EnqueueKeepsType DEF TypeOK
      <3>2. /\ <<PlainEvent("over"), PlainEvent("note")>> \in Seq(Event)
            /\ <<PlainEvent("note")>> \in Seq(Event)
        BY <2>3
      <3>3. QED
        BY <2>1, <3>1, <3>2
    <2>5. vision' \in [pc : {"idle", "read", "judge", "publish"}, turn : Side,
                       from : Board \cup {None}, board : Board,
                       moved : BOOLEAN, verdict : Verdict]
      BY <2>1, <2>2 DEF TypeOK
    <2>6. QED
      BY <1>1, <1>2, <1>5, <2>4, <2>5 DEF Judge, TypeOK
  <1>6. CASE Publish
    <2>1. MoveEvent("vision", vision.board, vision.turn, vision.moved) \in Event
      BY EventIsEvent DEF TypeOK
    <2>2. loopq' \in Seq(Event)
      <3>1. <<MoveEvent("vision", vision.board, vision.turn, vision.moved)>> \in Seq(Event)
        BY <2>1
      <3>2. QED
        BY <1>6, <3>1, EnqueueKeepsType DEF Publish, TypeOK
    <2>3. vision' \in [pc : {"idle", "read", "judge", "publish"}, turn : Side,
                       from : Board \cup {None}, board : Board,
                       moved : BOOLEAN, verdict : Verdict]
      BY <1>6, StartIsBoard DEF Publish, NoResult, Side, Verdict
    <2>4. QED
      BY <1>1, <1>2, <1>6, <2>2, <2>3 DEF Publish, TypeOK
  <1>7. CASE SyncReset
    <2>1. sync' \in [pc : {"idle", "blank", "publish"}, board : Board, side : Side]
      BY <1>7, StartIsBoard DEF SyncReset, NoSync, Side
    <2>2. QED
      BY <1>1, <1>2, <1>7, <2>1 DEF SyncReset, TypeOK
  <1>8. CASE SyncFails
    <2>1. sync' \in [pc : {"idle", "blank", "publish"}, board : Board, side : Side]
      BY <1>8, StartIsBoard DEF SyncFails, NoSync, Side
    <2>2. QED
      BY <1>1, <1>2, <1>8, <2>1 DEF SyncFails, TypeOK
  <1>9. CASE SyncCommit
    <2>1. store.turn \in Side
      BY DEF TypeOK, Game
    <2>2. QED
      BY <1>1, <1>2, <1>9, <2>1 DEF SyncCommit, TypeOK
  <1>10. CASE SyncPublish
    <2>1. /\ PlainEvent("note") \in Event
          /\ MoveEvent("vision", sync.board, sync.side, FALSE) \in Event
      BY EventIsEvent DEF TypeOK
    <2>2. loopq' \in Seq(Event)
      <3> DEFINE synced == MoveEvent("vision", sync.board, sync.side, FALSE)
      <3>1. PlainEvent("note") \in Event /\ synced \in Event
        BY <2>1
      <3>2. Enqueue(<<PlainEvent("note"), synced>>)
        BY <1>10 DEF SyncPublish
      <3> HIDE DEF synced
      <3>3. <<PlainEvent("note"), synced>> \in Seq(Event)
        BY <3>1
      <3>4. QED
        BY <3>2, <3>3, EnqueueKeepsType DEF TypeOK
    <2>3. sync' \in [pc : {"idle", "blank", "publish"}, board : Board, side : Side]
      BY <1>10, StartIsBoard DEF SyncPublish, NoSync, Side
    <2>4. QED
      BY <1>1, <1>2, <1>10, <2>2, <2>3 DEF SyncPublish, TypeOK
  <1>11. CASE ManualMove
    <2>1. store.board \in Board /\ store.side \in Side
      BY DEF TypeOK, Game
    <2>2. Played(store.board, store.side) \in Board /\ Other(store.side) \in Side
      BY <1>11, <2>1, PlayedIsBoard, OtherIsSide DEF ManualMove
    <2>3. MoveEvent("manual", Played(store.board, store.side), Other(store.side), TRUE) \in Event
      BY <2>2, EventIsEvent
    <2>4. loopq' \in Seq(Event)
      <3> DEFINE move == MoveEvent("manual", Played(store.board, store.side),
                                   Other(store.side), TRUE)
      <3>1. move \in Event /\ Enqueue(<<move>>)
        BY <1>11, <2>3 DEF ManualMove
      <3> HIDE DEF move
      <3>2. <<move>> \in Seq(Event)
        BY <3>1
      <3>3. QED
        BY <3>1, <3>2, EnqueueKeepsType DEF TypeOK
    <2>5. QED
      BY <1>1, <1>2, <1>11, <2>4 DEF ManualMove, TypeOK
  <1>12. CASE Undo \/ Reset \/ Background
    <2>1. ASSUME NEW kind \in {"undo", "reset", "status", "note"}
          PROVE  PlainEvent(kind) \in Event
      BY EventIsEvent, StartIsBoard DEF Side
    <2>2. loopq' \in Seq(Event)
      <3>1. PICK kind \in {"undo", "reset", "status", "note"} : Enqueue(<<PlainEvent(kind)>>)
        BY <1>12 DEF Undo, Reset, Background
      <3>2. <<PlainEvent(kind)>> \in Seq(Event)
        BY <2>1
      <3>3. QED
        BY <3>1, <3>2, EnqueueKeepsType DEF TypeOK
    <2>3. QED
      BY <1>1, <1>2, <1>12, <2>2 DEF Undo, Reset, Background, TypeOK
  <1>13. QED
    BY <1>3, <1>4, <1>5, <1>6, <1>7, <1>8, <1>9, <1>10, <1>11, <1>12

LEMMA NextFits == FitInv /\ [Next]_vars => FitInv'
  <1> SUFFICES ASSUME FitInv, [Next]_vars PROVE FitInv'
    OBVIOUS
  <1>1. CASE Dispatch
    BY <1>1, DispatchFits
  <1>2. CASE DispatchUndo
    BY <1>2, DispatchUndoFits
  <1>3. CASE \/ ReadTurn \/ Validate \/ Judge \/ Publish
             \/ SyncReset \/ SyncFails \/ SyncCommit \/ SyncPublish
             \/ ManualMove \/ Undo \/ Reset \/ Background
    <2>1. GameUnchanged
      BY <1>3 DEF GameUnchanged, ReadTurn, Validate, Judge, Publish, SyncReset, SyncFails,
                  SyncCommit, SyncPublish, ManualMove, Undo, Reset, Background
    <2>2. QED
      BY <1>3, <2>1, OthersFit
  <1>4. CASE UNCHANGED vars
    BY <1>4 DEF vars, FitInv, TypeOK, TurnCountsMoves, TurnFits
  <1>5. QED
    BY <1>1, <1>2, <1>3, <1>4 DEF Next

-----------------------------------------------------------------------------

\* Every state of the record, its queue, its history and the vision thread is
\* well formed, for every bound and every mix of requests.
THEOREM RecordTypeCorrect == Spec => []TypeOK
  <1>1. Spec => []FitInv
    BY InitFits, NextFits, PTL DEF Spec
  <1>2. FitInv => TypeOK
    BY DEF FitInv
  <1>3. QED
    BY <1>1, <1>2, PTL

\* Whose turn it is agrees with the number of moves, in the record and in every
\* state an undo can restore: current_turn and move_history move together.
THEOREM TurnAlwaysCountsMoves == Spec => []TurnCountsMoves
  <1>1. Spec => []FitInv
    BY InitFits, NextFits, PTL DEF Spec
  <1>2. FitInv => TurnCountsMoves
    BY DEF FitInv
  <1>3. QED
    BY <1>1, <1>2, PTL

-----------------------------------------------------------------------------
(***************************************************************************)
(* The two copies of the position.  When no synchronisation has overlapped *)
(* a vision result, the baseline is the board of the latest result: that   *)
(* of the thread that is about to publish it, else that of the last vision *)
(* event in the queue, else, if the record took its board from the camera  *)
(* last, the board of the record.                                          *)
(***************************************************************************)
NonePending == \A i \in 1..Len(loopq) : loopq[i].kind # "vision"
LastPending(b) ==
  \E i \in 1..Len(loopq) :
    /\ loopq[i].kind = "vision" /\ loopq[i].board = b
    /\ \A j \in 1..Len(loopq) : j > i => loopq[j].kind # "vision"

OneWriter == vision.pc = "idle" \/ sync.pc = "idle"
Latest ==
  /\ vision.pc \in {"judge", "publish"} => baseline = vision.board
  /\ sync.pc = "publish" => baseline = sync.board
  /\ sync.pc = "blank" => baseline = None
Delivered == LastPending(baseline) \/ (NonePending /\ (followed => store.board = baseline))
Settled == vision.pc \in {"idle", "read"} /\ sync.pc # "publish" /\ baseline # None => Delivered

FollowInv == FitInv /\ (~overlap => OneWriter /\ Latest /\ Settled)

LEMMA InitFollows == Init => FollowInv
  <1> SUFFICES ASSUME Init PROVE FollowInv
    OBVIOUS
  <1>1. OneWriter /\ Latest /\ Settled
    BY DEF Init, NoResult, NoSync, OneWriter, Latest, Settled
  <1>2. QED
    BY <1>1, InitFits DEF FollowInv

LEMMA FollowImplies == FollowInv => StoreFollowsVision
  <1> SUFFICES ASSUME FollowInv, Quiet, followed, ~overlap, baseline # None PROVE store.board = baseline
    BY DEF StoreFollowsVision
  <1>1. NonePending
    BY DEF Quiet, NonePending, FollowInv, FitInv, TypeOK
  <1>2. QED
    BY <1>1 DEF FollowInv, Settled, Delivered, Quiet, NonePending, LastPending

\* Events behind the last vision result leave it the last one.
LEMMA OthersQueued ==
  ASSUME TypeOK, NEW events \in Seq(Event), Enqueue(events),
         \A i \in 1..Len(events) : events[i].kind # "vision",
         UNCHANGED <<store, followed, baseline>>, Delivered
  PROVE  Delivered'
  <1>1. /\ loopq \in Seq(Event) /\ Len(loopq') = Len(loopq) + Len(events)
        /\ \A i \in 1..Len(loopq) : loopq'[i] = loopq[i]
        /\ \A i \in 1..Len(loopq') : i > Len(loopq) => /\ loopq'[i] = events[i - Len(loopq)]
                                                      /\ i - Len(loopq) \in 1..Len(events)
    BY DEF TypeOK, Enqueue
  <1>2. \A i \in 1..Len(loopq') : i > Len(loopq) => loopq'[i].kind # "vision"
    BY <1>1
  <1>3. CASE NonePending /\ (followed => store.board = baseline)
    <2>1. NonePending'
      BY <1>1, <1>2, <1>3 DEF NonePending
    <2>2. QED
      BY <1>3, <2>1 DEF Delivered
  <1>4. CASE LastPending(baseline)
    <2>1. PICK i \in 1..Len(loopq) : /\ loopq[i].kind = "vision" /\ loopq[i].board = baseline
                                     /\ \A j \in 1..Len(loopq) : j > i => loopq[j].kind # "vision"
      BY <1>4 DEF LastPending
    <2>2. i \in 1..Len(loopq') /\ loopq'[i] = loopq[i]
      BY <1>1
    <2>3. \A j \in 1..Len(loopq') : j > i => loopq'[j].kind # "vision"
      BY <1>1, <1>2, <2>1
    <2>4. LastPending(baseline)'
      BY <2>1, <2>2, <2>3 DEF LastPending
    <2>5. QED
      BY <2>4 DEF Delivered
  <1>5. QED
    BY <1>3, <1>4 DEF Delivered

\* A vision result put in the queue is the last one.
LEMMA ResultQueued ==
  ASSUME TypeOK, NEW events \in Seq(Event), Enqueue(events), events # <<>>,
         events[Len(events)].kind = "vision", events[Len(events)].board = baseline, baseline' = baseline
  PROVE  Delivered'
  <1>1. /\ loopq \in Seq(Event) /\ Len(loopq') = Len(loopq) + Len(events) /\ Len(events) > 0
        /\ loopq'[Len(loopq')] = events[Len(events)]
    BY DEF TypeOK, Enqueue
  <1>2. Len(loopq') \in 1..Len(loopq')
    BY <1>1
  <1>3. LastPending(baseline)'
    BY <1>1, <1>2 DEF LastPending
  <1>4. QED
    BY <1>3 DEF Delivered

\* The event at the head of the queue, once it is dispatched.
LEMMA HeadTaken ==
  ASSUME TypeOK, loopq # <<>>, loopq' = Tail(loopq), baseline' = baseline, Delivered,
         Head(loopq).kind = "vision" => (followed' => store'.board = Head(loopq).board),
         Head(loopq).kind # "vision" => (followed' => followed /\ store'.board = store.board)
  PROVE  Delivered'
  <1>1. /\ loopq \in Seq(Event) /\ Len(loopq) > 0 /\ Len(loopq') = Len(loopq) - 1 /\ Head(loopq) = loopq[1]
        /\ \A i \in 1..Len(loopq') : loopq'[i] = loopq[i + 1] /\ i + 1 \in 1..Len(loopq)
    BY DEF TypeOK
  <1>2. CASE NonePending /\ (followed => store.board = baseline)
    <2>1. NonePending' /\ Head(loopq).kind # "vision"
      BY <1>1, <1>2 DEF NonePending
    <2>2. QED
      BY <1>2, <2>1 DEF Delivered
  <1>3. CASE LastPending(baseline)
    <2>1. PICK i \in 1..Len(loopq) : /\ loopq[i].kind = "vision" /\ loopq[i].board = baseline
                                     /\ \A j \in 1..Len(loopq) : j > i => loopq[j].kind # "vision"
      BY <1>3 DEF LastPending
    <2>2. CASE i = 1
      <3>1. \A j \in 1..Len(loopq') : j + 1 > i /\ j + 1 \in 1..Len(loopq) /\ loopq'[j] = loopq[j + 1]
        BY <1>1, <2>2
      <3>2. NonePending'
        BY <2>1, <3>1 DEF NonePending
      <3>3. QED
        BY <1>1, <2>1, <2>2, <3>2 DEF Delivered
    <2>3. CASE i > 1
      <3>1. i - 1 \in 1..Len(loopq') /\ loopq'[i - 1] = loopq[i]
        BY <1>1, <2>1, <2>3
      <3>2. \A j \in 1..Len(loopq') : j > i - 1 => loopq'[j].kind # "vision"
        BY <1>1, <2>1, <2>3
      <3>3. LastPending(baseline)'
        BY <2>1, <3>1, <3>2 DEF LastPending
      <3>4. QED
        BY <3>3 DEF Delivered
    <2>4. QED
      BY <2>1, <2>2, <2>3
  <1>4. QED
    BY <1>2, <1>3 DEF Delivered

LEMMA PlainIsPlain ==
  ASSUME NEW kind \in {"undo", "reset", "over", "note", "status"}
  PROVE  PlainEvent(kind) \in Event /\ PlainEvent(kind).kind # "vision"
  BY EventIsEvent, StartIsBoard DEF Side, PlainEvent, MoveEvent

\* The vision thread.
LEMMA VisionFollows ==
  ASSUME FollowInv, FitInv', ReadTurn \/ Validate \/ Judge \/ Publish PROVE FollowInv'
  <1> SUFFICES ASSUME ~overlap' PROVE OneWriter' /\ Latest' /\ Settled'
    BY DEF FollowInv
  <1>0. overlap = TRUE => overlap' = TRUE
    BY DEF ReadTurn, Validate, Judge, Publish
  <1>1. ~overlap /\ OneWriter /\ Latest /\ Settled /\ TypeOK
    <2>1. TypeOK /\ overlap # TRUE
      BY <1>0 DEF FollowInv, FitInv
    <2>2. ~overlap
      BY <2>1 DEF TypeOK
    <2>3. QED
      BY <2>1, <2>2, Zenon DEF FollowInv
  <1>2. CASE ReadTurn
    <2>1. vision.pc = "idle" /\ vision'.pc = "read" /\ UNCHANGED <<store, loopq, baseline, sync, followed>>
      BY <1>2 DEF ReadTurn, NoResult
    <2>2. sync.pc = "idle"
      BY <1>2 DEF ReadTurn
    <2>3. QED
      BY <1>1, <2>1, <2>2 DEF OneWriter, Latest, Settled, Delivered, NonePending, LastPending
  <1>3. CASE Validate
    <2>1. vision.pc = "read" /\ sync.pc = "idle" /\ UNCHANGED <<store, loopq, sync, followed>>
      BY <1>1, <1>3 DEF Validate, OneWriter
    <2>2. ASSUME NEW b, NEW moved, Commit(b, moved) PROVE baseline' = b /\ vision'.pc = "judge" /\ vision'.board = b
      BY <1>1, <2>2 DEF Commit, TypeOK
    <2>3. \/ baseline' = vision'.board /\ vision'.pc = "judge"
          \/ baseline' = baseline /\ vision'.pc = "idle"
      <3>1. CASE vision' = NoResult /\ UNCHANGED baseline
        BY <3>1 DEF NoResult
      <3>2. CASE \E b \in Board : Commit(b, FALSE)
        BY <2>2, <3>2
      <3>3. CASE Commit(Played(baseline, vision.turn), TRUE)
        <4> DEFINE p == Played(baseline, vision.turn)
        <4>1. Commit(p, TRUE) => baseline' = p /\ vision'.pc = "judge" /\ vision'.board = p
          BY <1>1 DEF Commit, TypeOK
        <4>2. QED
          BY <3>3, <4>1
      <3>4. QED
        BY <1>3, <3>1, <3>2, <3>3 DEF Validate
    <2>4. QED
      BY <1>1, <2>1, <2>3 DEF OneWriter, Latest, Settled, Delivered, NonePending, LastPending
  <1>4. CASE Judge
    <2>1. /\ vision.pc = "judge" /\ sync.pc = "idle" /\ vision'.pc = "publish" /\ vision'.board = vision.board
          /\ UNCHANGED <<baseline, sync>>
      BY <1>1, <1>4 DEF Judge, OneWriter, TypeOK
    <2>2. QED
      BY <1>1, <2>1 DEF OneWriter, Latest, Settled
  <1>5. CASE Publish
    <2> DEFINE e == MoveEvent("vision", vision.board, vision.turn, vision.moved)
    <2>1. /\ vision.pc = "publish" /\ sync.pc = "idle" /\ vision'.pc = "idle" /\ UNCHANGED <<baseline, sync>>
          /\ Enqueue(<<e>>)
      BY <1>1, <1>5 DEF Publish, OneWriter, NoResult
    <2>2. e \in Event /\ e.kind = "vision" /\ e.board = baseline
      BY <1>1, <2>1, EventIsEvent DEF TypeOK, Latest, MoveEvent
    <2> HIDE DEF e
    <2>3. Delivered'
      <3>1. <<e>> \in Seq(Event) /\ <<e>> # <<>> /\ Len(<<e>>) = 1 /\ <<e>>[1] = e
        BY <2>2
      <3>2. QED
        BY <1>1, <2>1, <2>2, <3>1, ResultQueued
    <2>4. QED
      BY <2>1, <2>3 DEF OneWriter, Latest, Settled
  <1>6. QED
    BY <1>2, <1>3, <1>4, <1>5

\* The manual synchronisation.
LEMMA SyncFollows ==
  ASSUME FollowInv, FitInv', SyncReset \/ SyncFails \/ SyncCommit \/ SyncPublish PROVE FollowInv'
  <1> SUFFICES ASSUME ~overlap' PROVE OneWriter' /\ Latest' /\ Settled'
    BY DEF FollowInv
  <1>0. overlap = TRUE => overlap' = TRUE
    BY DEF SyncReset, SyncFails, SyncCommit, SyncPublish
  <1>1. ~overlap /\ OneWriter /\ Latest /\ Settled /\ TypeOK
    <2>1. TypeOK /\ overlap # TRUE
      BY <1>0 DEF FollowInv, FitInv
    <2>2. ~overlap
      BY <2>1 DEF TypeOK
    <2>3. QED
      BY <2>1, <2>2, Zenon DEF FollowInv
  <1>2. CASE SyncReset
    <2>1. vision.pc = "idle" /\ vision' = vision /\ sync'.pc = "blank" /\ baseline' = None
      BY <1>2 DEF SyncReset, NoSync
    <2>2. QED
      BY <2>1 DEF OneWriter, Latest, Settled
  <1>3. CASE SyncFails
    <2>1. vision.pc = "idle" /\ vision' = vision /\ sync'.pc = "idle" /\ baseline' = None
      BY <1>1, <1>3 DEF SyncFails, NoSync, OneWriter, Latest
    <2>2. QED
      BY <2>1 DEF OneWriter, Latest, Settled
  <1>4. CASE SyncCommit
    <2>1. vision.pc = "idle" /\ vision' = vision /\ sync'.pc = "publish" /\ sync'.board = baseline'
      BY <1>1, <1>4 DEF SyncCommit, OneWriter
    <2>2. QED
      BY <2>1 DEF OneWriter, Latest, Settled
  <1>5. CASE SyncPublish
    <2> DEFINE e == MoveEvent("vision", sync.board, sync.side, FALSE)
               note == PlainEvent("note")
    <2>1. /\ vision.pc = "idle" /\ vision' = vision /\ sync'.pc = "idle" /\ baseline' = baseline
          /\ Enqueue(<<note, e>>)
      BY <1>1, <1>5 DEF SyncPublish, NoSync, OneWriter
    <2>2. e \in Event /\ e.kind = "vision" /\ e.board = baseline
      BY <1>1, <1>5, EventIsEvent DEF SyncPublish, TypeOK, Latest, MoveEvent
    <2>3. note \in Event
      BY PlainIsPlain
    <2> HIDE DEF e, note
    <2>4. Delivered'
      <3>1. <<note, e>> \in Seq(Event) /\ <<note, e>> # <<>> /\ Len(<<note, e>>) = 2 /\ <<note, e>>[2] = e
        BY <2>2, <2>3
      <3>2. QED
        BY <1>1, <2>1, <2>2, <3>1, ResultQueued
    <2>5. QED
      BY <2>1, <2>4 DEF OneWriter, Latest, Settled
  <1>6. QED
    BY <1>2, <1>3, <1>4, <1>5

\* Requests that are only queued.
LEMMA RequestsFollow ==
  ASSUME FollowInv, FitInv', ManualMove \/ Undo \/ Reset \/ Background PROVE FollowInv'
  <1>1. UNCHANGED <<store, baseline, vision, sync, followed, overlap>>
    BY DEF ManualMove, Undo, Reset, Background
  <1>2. PICK e : Enqueue(<<e>>) /\ e \in Event /\ e.kind # "vision"
    <2>1. CASE ManualMove
      <3> DEFINE m == MoveEvent("manual", Played(store.board, store.side), Other(store.side), TRUE)
      <3>1. store.board \in Board /\ store.side \in Side /\ CanMove(store.board) /\ Enqueue(<<m>>)
        BY <2>1 DEF ManualMove, FollowInv, FitInv, TypeOK, Game
      <3>2. m \in Event
        BY <3>1, PlayedIsBoard, OtherIsSide, EventIsEvent
      <3>3. m.kind = "manual"
        BY DEF MoveEvent
      <3>4. QED
        BY <3>1, <3>2, <3>3
    <2>2. CASE Undo \/ Reset \/ Background
      <3>1. PICK kind \in {"undo", "reset", "status", "note"} : Enqueue(<<PlainEvent(kind)>>)
        BY <2>2 DEF Undo, Reset, Background
      <3>2. QED
        BY <3>1, PlainIsPlain
    <2>3. QED
      BY <2>1, <2>2
  <1>3. ASSUME Delivered PROVE Delivered'
    <2>1. <<e>> \in Seq(Event) /\ \A i \in 1..Len(<<e>>) : <<e>>[i].kind # "vision"
      BY <1>2
    <2>2. QED
      BY <1>1, <1>2, <1>3, <2>1, OthersQueued DEF FollowInv, FitInv
  <1>4. QED
    BY <1>1, <1>3 DEF FollowInv, OneWriter, Latest, Settled

\* The state manager.
LEMMA DispatchFollows == ASSUME FollowInv, FitInv', Dispatch \/ DispatchUndo PROVE FollowInv'
  <1>1. /\ loopq # <<>> /\ loopq' = Tail(loopq) /\ UNCHANGED <<baseline, vision, sync, overlap>>
        /\ TypeOK /\ Head(loopq) \in Event
    BY DEF Dispatch, DispatchUndo, FollowInv, FitInv, TypeOK
  <1>2. ASSUME Delivered PROVE Delivered'
    <2>1. CASE Dispatch
      <3> DEFINE e == Head(loopq)
      <3>1. /\ store' = Reduced(store, e)
            /\ followed' = IF e.kind \in {"vision", "manual"} \/ e.kind = "reset"
                             THEN e.kind = "vision" /\ ~store.over ELSE followed
        BY <2>1 DEF Dispatch
      <3>2. ASSUME e.kind = "vision", followed' PROVE store'.board = e.board
        BY <3>1, <3>2 DEF Reduced, Moved
      <3>3. ASSUME e.kind # "vision", followed' PROVE followed /\ store'.board = store.board
        <4>1. e.kind \notin {"vision", "manual", "reset"}
          BY <3>1, <3>3
        <4>2. Reduced(store, e) \in {store, [store EXCEPT !.over = TRUE], [store EXCEPT !.over = FALSE]}
          BY <4>1 DEF Reduced
        <4>3. QED
          BY <1>1, <3>1, <3>3, <4>1, <4>2 DEF TypeOK, Game
      <3>4. QED
        BY <1>1, <1>2, <3>2, <3>3, HeadTaken
    <2>2. CASE DispatchUndo
      <3>1. Head(loopq).kind = "undo" /\ (followed' => followed /\ store' = store)
        BY <2>2 DEF DispatchUndo
      <3>2. QED
        BY <1>1, <1>2, <3>1, HeadTaken
    <2>3. QED
      BY <2>1, <2>2
  <1>3. QED
    BY <1>1, <1>2 DEF FollowInv, OneWriter, Latest, Settled

LEMMA NextFollows == FollowInv /\ [Next]_vars => FollowInv'
  <1> SUFFICES ASSUME FollowInv, [Next]_vars PROVE FollowInv'
    OBVIOUS
  <1>1. FitInv'
    BY NextFits DEF FollowInv
  <1>2. CASE UNCHANGED vars
    BY <1>1, <1>2 DEF vars, FollowInv, OneWriter, Latest, Settled, Delivered, NonePending, LastPending
  <1>3. QED
    BY <1>1, <1>2, VisionFollows, SyncFollows, RequestsFollow, DispatchFollows DEF Next

\* When no vision result is on its way, the record shows the board the validator compares the next
\* frame with, whatever else was asked for in between: the two copies of the position, kept by two
\* threads, do not drift apart (vision_frame_io.py, StateManager.dispatch, MoveReducer).
THEOREM RecordFollowsCamera == Spec => []StoreFollowsVision
  <1>1. Spec => []FollowInv
    BY InitFollows, NextFollows, PTL DEF Spec
  <1>2. QED
    BY <1>1, FollowImplies, PTL

-----------------------------------------------------------------------------
(***************************************************************************)
(* The undo history as a line of positions.  The k-th position of the line *)
(* is that of the k-th place where the recorded games change it, so what   *)
(* happens to the line when a game is appended, forgotten or taken back    *)
(* rests on how the k-th smallest element of a set of numbers moves.       *)
(***************************************************************************)

\* The k-th smallest element of a finite set of numbers is the one with k elements up to it.
UpTo(S, x) == {y \in S : y <= x}

LEMMA UpToCounts ==
  ASSUME NEW S \in SUBSET Nat, IsFiniteSet(S), NEW x \in S
  PROVE  /\ IsFiniteSet(UpTo(S, x)) /\ Cardinality(UpTo(S, x)) \in 1..Cardinality(S)
         /\ \A y \in S : x < y => Cardinality(UpTo(S, x)) < Cardinality(UpTo(S, y))
  <1>1. ASSUME NEW z \in S
        PROVE  /\ UpTo(S, z) \in SUBSET S /\ z \in UpTo(S, z)
               /\ IsFiniteSet(UpTo(S, z)) /\ Cardinality(UpTo(S, z)) \in 1..Cardinality(S)
    <2>1. UpTo(S, z) \in SUBSET S /\ z \in UpTo(S, z)
      BY DEF UpTo
    <2>2. IsFiniteSet(UpTo(S, z)) /\ Cardinality(UpTo(S, z)) <= Cardinality(S)
      BY <2>1, FS_Subset
    <2>3. Cardinality(UpTo(S, z)) \in Nat /\ Cardinality(UpTo(S, z)) # 0 /\ Cardinality(S) \in Nat
      BY <2>1, <2>2, FS_CardinalityType, FS_EmptySet
    <2> QED BY <2>1, <2>2, <2>3
  <1>2. ASSUME NEW y \in S, x < y
        PROVE  Cardinality(UpTo(S, x)) < Cardinality(UpTo(S, y))
    <2>1. UpTo(S, x) \in SUBSET UpTo(S, y) /\ y \notin UpTo(S, x) /\ y \in UpTo(S, y)
      <3>1. /\ x \in Nat /\ y \in Nat /\ ~(y <= x) /\ y <= y
            /\ \A z \in S : z <= x => z <= y
        BY <1>2
      <3> QED BY <3>1 DEF UpTo
    <2>2. /\ Cardinality(UpTo(S, x)) <= Cardinality(UpTo(S, y))
          /\ Cardinality(UpTo(S, x)) # Cardinality(UpTo(S, y))
      BY <1>1, <2>1, FS_Subset
    <2> QED BY <1>1, <2>2
  <1> QED BY <1>1, <1>2

LEMMA NthIsNth ==
  ASSUME NEW S \in SUBSET Nat, IsFiniteSet(S)
  PROVE  /\ \A x \in S : Nth(S, Cardinality(UpTo(S, x))) = x
         /\ \A k \in 1..Cardinality(S) : Nth(S, k) \in S /\ Cardinality(UpTo(S, Nth(S, k))) = k
  <1> DEFINE n == Cardinality(S)
             rank == [x \in S |-> Cardinality(UpTo(S, x))]
  <1>1. n \in Nat /\ IsFiniteSet(1..n) /\ Cardinality(1..n) = n
    BY FS_CardinalityType, FS_Interval
  <1>2. rank \in [S -> 1..n] /\ \A x, y \in S : rank[x] = rank[y] => x = y
    <2>1. rank \in [S -> 1..n]
      BY UpToCounts
    <2>2. ASSUME NEW x \in S, NEW y \in S, rank[x] = rank[y] PROVE x = y
      <3>1. x \in Nat /\ y \in Nat /\ rank[x] \in Nat
        BY <2>1, <1>1
      <3>2. ~(x < y) /\ ~(y < x)
        BY <2>2, <3>1, UpToCounts
      <3> QED BY <3>1, <3>2
    <2> QED BY <2>1, <2>2
  <1>3. \A k \in 1..n : \E x \in S : rank[x] = k
    <2>1. rank \in Injection(S, 1..n)
      BY <1>2 DEF Injection, IsInjective
    <2>2. rank \in Surjection(S, 1..n)
      BY <1>1, <2>1, FS_Injection
    <2> QED BY <2>2 DEF Surjection
  <1>4. ASSUME NEW k \in 1..n, NEW x \in S, rank[x] = k
        PROVE  Nth(S, k) = x
    <2>1. Nth(S, k) \in S /\ rank[Nth(S, k)] = k
      BY <1>4 DEF Nth, UpTo
    <2> QED BY <1>2, <1>4, <2>1
  <1>5. \A x \in S : Nth(S, Cardinality(UpTo(S, x))) = x
    BY <1>2, <1>4
  <1>6. \A k \in 1..n : Nth(S, k) \in S /\ Cardinality(UpTo(S, Nth(S, k))) = k
    BY <1>3, <1>4
  <1> QED BY <1>5, <1>6

\* A new largest element comes last.
LEMMA NthWithTop ==
  ASSUME NEW S \in SUBSET Nat, IsFiniteSet(S), NEW m \in Nat, \A x \in S : x < m
  PROVE  /\ IsFiniteSet(S \cup {m}) /\ Cardinality(S \cup {m}) = Cardinality(S) + 1
         /\ \A k \in 1..Cardinality(S) : Nth(S \cup {m}, k) = Nth(S, k)
         /\ Nth(S \cup {m}, Cardinality(S) + 1) = m
  <1> DEFINE T == S \cup {m}
  <1>1. T \in SUBSET Nat /\ IsFiniteSet(T) /\ Cardinality(T) = Cardinality(S) + 1
    BY FS_AddElement
  <1>2. UpTo(T, m) = T /\ m \in T /\ \A x \in S : UpTo(T, x) = UpTo(S, x)
    <2>1. m <= m /\ \A x \in S : x <= m /\ ~(m <= x)
      OBVIOUS
    <2> QED BY <2>1 DEF UpTo
  <1> HIDE DEF T
  <1>3. \A k \in 1..Cardinality(S) : Nth(T, k) = Nth(S, k)
    <2> SUFFICES ASSUME NEW k \in 1..Cardinality(S) PROVE Nth(T, k) = Nth(S, k)
      OBVIOUS
    <2>1. Nth(S, k) \in S /\ Cardinality(UpTo(S, Nth(S, k))) = k
      BY NthIsNth
    <2>2. Nth(S, k) \in T /\ UpTo(T, Nth(S, k)) = UpTo(S, Nth(S, k))
      BY <1>2, <2>1 DEF T
    <2> QED BY <1>1, <2>1, <2>2, NthIsNth
  <1>4. Nth(T, Cardinality(S) + 1) = m
    BY <1>1, <1>2, NthIsNth
  <1> QED BY <1>1, <1>3, <1>4 DEF T

\* Without the smallest element every other one moves down by a place.
LEMMA NthWithoutBottom ==
  ASSUME NEW S \in SUBSET Nat, IsFiniteSet(S), NEW m \in S, \A x \in S : m <= x
  PROVE  /\ IsFiniteSet(S \ {m}) /\ Cardinality(S \ {m}) = Cardinality(S) - 1
         /\ \A k \in 1..(Cardinality(S) - 1) : Nth(S \ {m}, k) = Nth(S, k + 1)
         /\ Nth(S, 1) = m
  <1> DEFINE T == S \ {m}
  <1>1. /\ T \in SUBSET Nat /\ IsFiniteSet(T) /\ Cardinality(T) = Cardinality(S) - 1
        /\ Cardinality(S) \in Nat
    BY FS_RemoveElement, FS_CardinalityType
  <1>2. UpTo(S, m) = {m}
    <2>1. m <= m /\ \A x \in S : x <= m => x = m
      OBVIOUS
    <2> QED BY <2>1 DEF UpTo
  <1>3. Nth(S, 1) = m
    BY <1>2, NthIsNth, FS_Singleton
  <1>4. ASSUME NEW k \in 1..(Cardinality(S) - 1) PROVE Nth(T, k) = Nth(S, k + 1)
    <2> DEFINE x == Nth(S, k + 1)
    <2>1. k + 1 \in 1..Cardinality(S) /\ k \in Nat
      BY <1>1
    <2>2. x \in S /\ Cardinality(UpTo(S, x)) = k + 1
      BY <2>1, NthIsNth
    <2>3. x # m /\ m \in UpTo(S, x)
      <3>1. x # m
        BY <1>2, <2>1, <2>2, FS_Singleton
      <3> QED BY <2>2, <3>1 DEF UpTo
    <2> HIDE DEF x
    <2>4. UpTo(T, x) = UpTo(S, x) \ {m}
      BY <2>2, <2>3 DEF UpTo
    <2>5. Cardinality(UpTo(T, x)) = k
      <3> DEFINE U == UpTo(S, x)
      <3>1. IsFiniteSet(U)
        BY <2>2, UpToCounts
      <3>2. m \in U /\ Cardinality(U) = k + 1
        BY <2>2, <2>3
      <3> HIDE DEF U
      <3>3. Cardinality(U \ {m}) = (k + 1) - 1
        BY <3>1, <3>2, FS_RemoveElement
      <3> QED BY <2>1, <2>4, <3>3 DEF U
    <2>6. x \in T
      BY <2>2, <2>3
    <2>7. Nth(T, k) = x
      BY <1>1, <2>5, <2>6, NthIsNth
    <2> QED BY <2>7 DEF x
  <1> QED BY <1>1, <1>3, <1>4

\* Numbers moved down by one keep their order.
LEMMA NthShifted ==
  ASSUME NEW S \in SUBSET (Nat \ {0}), IsFiniteSet(S)
  PROVE  LET T == {x - 1 : x \in S}
         IN  /\ T \in SUBSET Nat /\ IsFiniteSet(T) /\ Cardinality(T) = Cardinality(S)
             /\ \A k \in 1..Cardinality(S) : Nth(T, k) = Nth(S, k) - 1
  <1> DEFINE T == {x - 1 : x \in S}
  <1>1. ASSUME NEW U \in SUBSET S
        PROVE  /\ IsFiniteSet({x - 1 : x \in U}) /\ Cardinality({x - 1 : x \in U}) = Cardinality(U)
    <2> DEFINE V == {x - 1 : x \in U}
               down == [x \in U |-> x - 1]
    <2>1. IsFiniteSet(U)
      BY FS_Subset
    <2>2. down \in Bijection(U, V)
      <3>1. down \in [U -> V]
        OBVIOUS
      <3>2. ASSUME NEW a \in U, NEW b \in U, down[a] = down[b] PROVE a = b
        <4>1. a \in Nat /\ b \in Nat
          OBVIOUS
        <4> QED BY <3>2, <4>1
      <3>3. \A v \in V : \E a \in U : down[a] = v
        OBVIOUS
      <3> QED BY <3>1, <3>2, <3>3 DEF Bijection, Injection, Surjection, IsInjective
    <2>3. ExistsBijection(U, V)
      BY <2>2 DEF ExistsBijection
    <2> QED BY <2>1, <2>3, FS_Bijection
  <1>2. T \in SUBSET Nat /\ IsFiniteSet(T) /\ Cardinality(T) = Cardinality(S)
    BY <1>1
  <1>3. ASSUME NEW k \in 1..Cardinality(S) PROVE Nth(T, k) = Nth(S, k) - 1
    <2> DEFINE x == Nth(S, k)
    <2>1. x \in S /\ Cardinality(UpTo(S, x)) = k
      BY NthIsNth
    <2> HIDE DEF x
    <2>2. UpTo(T, x - 1) = {y - 1 : y \in UpTo(S, x)}
      <3>1. \A y \in S : y \in Nat /\ (y - 1 <= x - 1 <=> y <= x)
        BY <2>1
      <3> QED BY <3>1 DEF UpTo
    <2>3. UpTo(S, x) \in SUBSET S
      BY DEF UpTo
    <2>4. Cardinality(UpTo(T, x - 1)) = k
      BY <1>1, <2>1, <2>2, <2>3
    <2>5. x - 1 \in T
      BY <2>1
    <2> HIDE DEF T
    <2>6. Nth(T, k) = x - 1
      BY <1>2, <2>4, <2>5, NthIsNth
    <2> QED BY <2>6 DEF x
  <1> QED BY <1>2, <1>3

-----------------------------------------------------------------------------
(* The line of positions of a sequence of games.                           *)

LEMMA KeyIsPosition == ASSUME NEW g \in Game PROVE UndoKey(g) \in AllPositions
  BY DEF UndoKey, AllPositions, Game

LEMMA PositionsAre ==
  ASSUME NEW G \in Seq(Game), G # <<>>
  PROVE  LET C == Changes(G)
         IN  /\ C \in SUBSET (Nat \ {0}) /\ IsFiniteSet(C) /\ Cardinality(C) \in Nat
             /\ Positions(G) \in Seq(AllPositions) /\ Len(Positions(G)) = Cardinality(C) + 1
             /\ \A k \in 1..Cardinality(C) : /\ Nth(C, k) \in C
                                             /\ Positions(G)[k] = UndoKey(G[Nth(C, k)])
             /\ Positions(G)[Cardinality(C) + 1] = UndoKey(G[Len(G)])
  <1> DEFINE C == Changes(G)
             earlier == [k \in 1..Cardinality(C) |-> UndoKey(G[Nth(C, k)])]
  <1>1. Len(G) \in Nat \ {0} /\ C \in SUBSET (1..(Len(G) - 1))
    BY DEF Changes
  <1>2. IsFiniteSet(C) /\ C \in SUBSET (Nat \ {0})
    <2>1. IsFiniteSet(1..(Len(G) - 1))
      BY <1>1, FS_Interval
    <2> QED BY <1>1, <2>1, FS_Subset
  <1>3. Cardinality(C) \in Nat /\ \A k \in 1..Cardinality(C) : Nth(C, k) \in C
    BY <1>2, FS_CardinalityType, NthIsNth
  <1>4. \A i \in 1..Len(G) : UndoKey(G[i]) \in AllPositions
    BY KeyIsPosition, ElementOfSeq
  <1>5. earlier \in Seq(AllPositions) /\ Len(earlier) = Cardinality(C)
    <2>1. \A k \in 1..Cardinality(C) : UndoKey(G[Nth(C, k)]) \in AllPositions
      BY <1>1, <1>3, <1>4
    <2> HIDE DEF C
    <2> QED BY <1>3, <2>1, IsASeq
  <1>6. UndoKey(G[Len(G)]) \in AllPositions
    BY <1>1, <1>4
  <1>7. Positions(G) = Append(earlier, UndoKey(G[Len(G)]))
    BY DEF Positions
  <1> HIDE DEF C
  <1>8. \A k \in 1..Cardinality(C) : earlier[k] = UndoKey(G[Nth(C, k)])
    OBVIOUS
  <1> HIDE DEF earlier
  <1>9. /\ Positions(G) \in Seq(AllPositions) /\ Len(Positions(G)) = Cardinality(C) + 1
        /\ \A k \in 1..Cardinality(C) : Positions(G)[k] = earlier[k]
        /\ Positions(G)[Cardinality(C) + 1] = UndoKey(G[Len(G)])
    BY <1>5, <1>6, <1>7, AppendProperties
  <1> QED BY <1>2, <1>3, <1>8, <1>9 DEF C

LEMMA PositionsBound ==
  ASSUME NEW G \in Seq(Game), G # <<>>
  PROVE  /\ Positions(G) \in Seq(AllPositions) /\ Len(Positions(G)) \in 1..Len(G)
         /\ Positions(G)[Len(Positions(G))] = UndoKey(G[Len(G)])
  <1> DEFINE C == Changes(G)
             I == 1..(Len(G) - 1)
  <1>1. Len(G) \in Nat \ {0} /\ C \in SUBSET I
    BY DEF Changes
  <1>2. IsFiniteSet(I) /\ Cardinality(I) = Len(G) - 1
    BY <1>1, FS_Interval
  <1> HIDE DEF C, I
  <1>3. Cardinality(C) \in Nat /\ Cardinality(C) <= Len(G) - 1
    BY <1>1, <1>2, FS_Subset, FS_CardinalityType
  <1>4. /\ Positions(G) \in Seq(AllPositions) /\ Len(Positions(G)) = Cardinality(C) + 1
        /\ Positions(G)[Cardinality(C) + 1] = UndoKey(G[Len(G)])
    BY PositionsAre DEF C
  <1> QED BY <1>1, <1>3, <1>4

\* One more game: the same position once more, or a new one at the end.
LEMMA PositionsAppended ==
  ASSUME NEW G \in Seq(Game), G # <<>>, NEW g \in Game
  PROVE  Positions(Append(G, g)) = IF UndoKey(g) = UndoKey(G[Len(G)]) THEN Positions(G)
                                   ELSE Append(Positions(G), UndoKey(g))
  <1> DEFINE H == Append(G, g)
             n == Len(G)
             C == Changes(G)
             D == Changes(H)
  <1>1. /\ n \in Nat \ {0} /\ H \in Seq(Game) /\ H # <<>> /\ Len(H) = n + 1 /\ H[n + 1] = g
        /\ \A i \in 1..n : H[i] = G[i]
    BY AppendProperties
  <1>2. D = IF UndoKey(g) = UndoKey(G[n]) THEN C ELSE C \cup {n}
    <2>1. 1..(Len(H) - 1) = (1..(n - 1)) \cup {n} /\ n \notin 1..(n - 1)
      BY <1>1
    <2>2. \A i \in 1..(n - 1) : H[i] = G[i] /\ H[i + 1] = G[i + 1]
      BY <1>1
    <2>3. H[n] = G[n] /\ H[n + 1] = g
      BY <1>1
    <2> HIDE DEF H, n
    <2> QED BY <2>1, <2>2, <2>3 DEF Changes, n
  <1>3. \A i \in C : i \in 1..(n - 1)
    BY DEF Changes
  <1> HIDE DEF H, C, D, n
  <1>4. /\ C \in SUBSET (Nat \ {0}) /\ IsFiniteSet(C) /\ Cardinality(C) \in Nat
        /\ Positions(G) \in Seq(AllPositions) /\ Len(Positions(G)) = Cardinality(C) + 1
        /\ \A k \in 1..Cardinality(C) : Nth(C, k) \in C /\ Positions(G)[k] = UndoKey(G[Nth(C, k)])
        /\ Positions(G)[Cardinality(C) + 1] = UndoKey(G[n])
    BY PositionsAre DEF C, n
  <1>5. /\ Positions(H) \in Seq(AllPositions) /\ Len(Positions(H)) = Cardinality(D) + 1
        /\ \A k \in 1..Cardinality(D) : Nth(D, k) \in D /\ Positions(H)[k] = UndoKey(H[Nth(D, k)])
        /\ Positions(H)[Cardinality(D) + 1] = UndoKey(g)
    BY <1>1, PositionsAre DEF D
  <1>6. \A k \in 1..Cardinality(C) : H[Nth(C, k)] = G[Nth(C, k)]
    <2>1. \A i \in C : H[i] = G[i]
      BY <1>1, <1>3
    <2> QED BY <1>4, <2>1
  <1>7. CASE UndoKey(g) = UndoKey(G[n])
    <2>1. D = C
      BY <1>2, <1>7
    <2>2. \A k \in 1..Len(Positions(H)) : Positions(H)[k] = Positions(G)[k]
      BY <1>4, <1>5, <1>6, <1>7, <2>1
    <2>3. Positions(H) = Positions(G)
      BY <1>4, <1>5, <2>1, <2>2, SeqEqual
    <2> QED BY <1>7, <2>3 DEF H, n
  <1>8. CASE UndoKey(g) # UndoKey(G[n])
    <2> DEFINE P == Append(Positions(G), UndoKey(g))
    <2>1. D = C \cup {n}
      BY <1>2, <1>8
    <2>2. /\ Cardinality(D) = Cardinality(C) + 1 /\ Nth(D, Cardinality(C) + 1) = n
          /\ \A k \in 1..Cardinality(C) : Nth(D, k) = Nth(C, k)
      <3>1. \A i \in C : i < n
        BY <1>1, <1>3
      <3> QED BY <1>1, <1>4, <2>1, <3>1, NthWithTop
    <2>3. UndoKey(g) \in AllPositions
      BY KeyIsPosition
    <2>4. /\ P \in Seq(AllPositions) /\ Len(P) = Cardinality(C) + 2
          /\ \A k \in 1..(Cardinality(C) + 1) : P[k] = Positions(G)[k]
          /\ P[Cardinality(C) + 2] = UndoKey(g)
      BY <1>4, <2>3, AppendProperties
    <2> HIDE DEF P
    <2>5. \A k \in 1..Cardinality(C) : Positions(H)[k] = P[k]
      BY <1>4, <1>5, <1>6, <2>2, <2>4
    <2>6. Positions(H)[Cardinality(C) + 1] = P[Cardinality(C) + 1]
      BY <1>1, <1>4, <1>5, <2>2, <2>4
    <2>7. Positions(H)[Cardinality(C) + 2] = P[Cardinality(C) + 2]
      BY <1>4, <1>5, <2>2, <2>4
    <2>8. \A k \in 1..Len(P) : Positions(H)[k] = P[k]
      BY <1>4, <2>4, <2>5, <2>6, <2>7
    <2>9. Positions(H) = P
      BY <1>4, <1>5, <2>2, <2>4, <2>8, SeqEqual
    <2> QED BY <1>8, <2>9 DEF H, n, P
  <1> QED BY <1>7, <1>8

\* Without the oldest game: a position less, unless the next one shows it too.
LEMMA PositionsWithoutOldest ==
  ASSUME NEW G \in Seq(Game), Len(G) > 1
  PROVE  Positions(Tail(G)) = IF UndoKey(G[1]) = UndoKey(G[2]) THEN Positions(G) ELSE Tail(Positions(G))
  <1> DEFINE H == Tail(G)
             n == Len(G)
             C == Changes(G)
             D == Changes(H)
             E == C \ {1}
  <1>1. /\ n \in Nat /\ n > 1 /\ G # <<>> /\ H \in Seq(Game) /\ H # <<>> /\ Len(H) = n - 1
        /\ \A i \in 1..(n - 1) : H[i] = G[i + 1]
    <2>1. n \in Nat /\ n > 1 /\ G # <<>>
      OBVIOUS
    <2>2. H \in Seq(Game) /\ Len(H) = n - 1 /\ \A i \in 1..Len(H) : H[i] = G[i + 1]
      BY <2>1, HeadTailProperties
    <2> HIDE DEF H, n
    <2> QED BY <2>1, <2>2
  <1>2. D = {x - 1 : x \in E}
    <2>1. \A i \in D : i \in 1..(n - 2) /\ UndoKey(H[i]) # UndoKey(H[i + 1])
      BY <1>1 DEF Changes
    <2>2. \A i \in D : i + 1 \in E /\ i = (i + 1) - 1
      <3> SUFFICES ASSUME NEW i \in D PROVE i + 1 \in E /\ i = (i + 1) - 1
        OBVIOUS
      <3>1. i \in 1..(n - 2) /\ H[i] = G[i + 1] /\ H[i + 1] = G[(i + 1) + 1]
        BY <1>1, <2>1
      <3>2. i + 1 \in 1..(n - 1) /\ UndoKey(G[i + 1]) # UndoKey(G[(i + 1) + 1])
        BY <1>1, <2>1, <3>1
      <3> QED BY <3>1, <3>2 DEF Changes
    <2>3. \A x \in E : x - 1 \in D
      <3> SUFFICES ASSUME NEW x \in E PROVE x - 1 \in D
        OBVIOUS
      <3>1. x \in 2..(n - 1) /\ UndoKey(G[x]) # UndoKey(G[x + 1])
        BY <1>1 DEF Changes
      <3>2. x - 1 \in 1..(n - 2) /\ H[x - 1] = G[x] /\ H[(x - 1) + 1] = G[x + 1]
        BY <1>1, <3>1
      <3> QED BY <1>1, <3>1, <3>2 DEF Changes
    <2> HIDE DEF D, E
    <2> QED BY <2>2, <2>3
  <1>3. 1 \in C <=> UndoKey(G[1]) # UndoKey(G[2])
    BY <1>1 DEF Changes
  <1>4. \A x \in C : x \in 1..(n - 1)
    BY DEF Changes
  <1> HIDE DEF C, D, H, n
  <1>5. /\ C \in SUBSET (Nat \ {0}) /\ IsFiniteSet(C) /\ Cardinality(C) \in Nat
        /\ Positions(G) \in Seq(AllPositions) /\ Len(Positions(G)) = Cardinality(C) + 1
        /\ \A k \in 1..Cardinality(C) : Nth(C, k) \in C /\ Positions(G)[k] = UndoKey(G[Nth(C, k)])
        /\ Positions(G)[Cardinality(C) + 1] = UndoKey(G[n])
    BY <1>1, PositionsAre DEF C, n
  <1>6. /\ Positions(H) \in Seq(AllPositions) /\ Len(Positions(H)) = Cardinality(D) + 1
        /\ \A k \in 1..Cardinality(D) : Positions(H)[k] = UndoKey(H[Nth(D, k)])
        /\ Positions(H)[Cardinality(D) + 1] = UndoKey(G[n])
    <2>1. H[Len(H)] = G[n]
      BY <1>1
    <2> QED BY <1>1, <2>1, PositionsAre DEF D
  <1>7. /\ E \in SUBSET (Nat \ {0}) /\ IsFiniteSet(E) /\ Cardinality(E) = Cardinality(D) /\ Cardinality(D) \in Nat
        /\ \A k \in 1..Cardinality(D) : Nth(D, k) = Nth(E, k) - 1 /\ Nth(E, k) \in E
    <2>1. E \in SUBSET (Nat \ {0}) /\ IsFiniteSet(E)
      BY <1>5, FS_RemoveElement
    <2> HIDE DEF E
    <2> QED BY <1>2, <2>1, NthShifted, NthIsNth, FS_CardinalityType
  <1>8. \A k \in 1..Cardinality(D) : Positions(H)[k] = UndoKey(G[Nth(E, k)])
    <2> SUFFICES ASSUME NEW k \in 1..Cardinality(D) PROVE Positions(H)[k] = UndoKey(G[Nth(E, k)])
      OBVIOUS
    <2> DEFINE x == Nth(E, k)
    <2>1. x \in E /\ Nth(D, k) = x - 1
      BY <1>7
    <2>2. x \in 2..(n - 1)
      BY <1>1, <1>4, <2>1
    <2> HIDE DEF x
    <2>3. H[x - 1] = G[x]
      BY <1>1, <2>2
    <2>4. Positions(H)[k] = UndoKey(H[x - 1])
      BY <1>6, <2>1
    <2> QED BY <2>3, <2>4 DEF x
  <1>9. CASE UndoKey(G[1]) = UndoKey(G[2])
    <2>1. E = C /\ Cardinality(D) = Cardinality(C)
      BY <1>3, <1>7, <1>9
    <2>2. \A k \in 1..Len(Positions(H)) : Positions(H)[k] = Positions(G)[k]
      <3> SUFFICES ASSUME NEW k \in 1..(Cardinality(C) + 1) PROVE Positions(H)[k] = Positions(G)[k]
        BY <1>6, <2>1
      <3>1. CASE k = Cardinality(C) + 1
        BY <1>5, <1>6, <2>1, <3>1
      <3>2. CASE k # Cardinality(C) + 1
        <4>1. k \in 1..Cardinality(C)
          BY <1>5, <3>2
        <4>2. Positions(H)[k] = UndoKey(G[Nth(C, k)])
          BY <1>8, <2>1, <4>1
        <4> QED BY <1>5, <4>1, <4>2
      <3> QED BY <3>1, <3>2
    <2>3. Positions(H) = Positions(G)
      BY <1>5, <1>6, <2>1, <2>2, SeqEqual
    <2> QED BY <1>9, <2>3 DEF H
  <1>10. CASE UndoKey(G[1]) # UndoKey(G[2])
    <2>1. /\ Cardinality(D) = Cardinality(C) - 1
          /\ \A k \in 1..Cardinality(D) : Nth(E, k) = Nth(C, k + 1)
      <3>1. C \in SUBSET Nat /\ 1 \in C /\ \A x \in C : 1 <= x
        BY <1>3, <1>5, <1>10
      <3>2. /\ Cardinality(E) = Cardinality(C) - 1
            /\ \A k \in 1..(Cardinality(C) - 1) : Nth(E, k) = Nth(C, k + 1)
        BY <1>5, <3>1, NthWithoutBottom
      <3> QED BY <1>7, <3>2
    <2>2. /\ Positions(G) # <<>> /\ Tail(Positions(G)) \in Seq(AllPositions)
          /\ Len(Tail(Positions(G))) = Cardinality(C)
          /\ \A k \in 1..Cardinality(C) : Tail(Positions(G))[k] = Positions(G)[k + 1]
      BY <1>5, HeadTailProperties
    <2>3. ASSUME NEW k \in 1..Cardinality(D) PROVE Positions(H)[k] = Positions(G)[k + 1]
      <3>1. k + 1 \in 1..Cardinality(C)
        BY <1>5, <2>1
      <3>2. Positions(H)[k] = UndoKey(G[Nth(C, k + 1)])
        BY <1>8, <2>1
      <3> QED BY <1>5, <3>1, <3>2
    <2>4. \A k \in 1..Len(Positions(H)) : Positions(H)[k] = Tail(Positions(G))[k]
      BY <1>5, <1>6, <1>7, <2>1, <2>2, <2>3
    <2>5. Positions(H) = Tail(Positions(G))
      BY <1>5, <1>6, <2>1, <2>2, <2>4, SeqEqual
    <2> QED BY <1>10, <2>5 DEF H
  <1> QED BY <1>9, <1>10

\* Behind a change to the position that lasts, the line is one longer.
LEMMA PositionsCut ==
  ASSUME NEW G \in Seq(Game), NEW i \in 1..(Len(G) - 1), UndoKey(G[i]) # UndoKey(G[Len(G)]),
         \A j \in (i + 1)..Len(G) : UndoKey(G[j]) = UndoKey(G[Len(G)])
  PROVE  Positions(G) = Append(Positions(SubSeq(G, 1, i)), UndoKey(G[Len(G)]))
  <1> DEFINE H == SubSeq(G, 1, i)
             n == Len(G)
             C == Changes(G)
             D == Changes(H)
             P == Append(Positions(H), UndoKey(G[n]))
  <1>1. /\ n \in Nat \ {0} /\ G # <<>> /\ i \in 1..n /\ H \in Seq(Game) /\ H # <<>> /\ Len(H) = i
        /\ \A j \in 1..i : H[j] = G[j]
    <2>1. n \in Nat \ {0} /\ i \in 1..n /\ \A j \in 1..i : G[j] \in Game
      OBVIOUS
    <2>2. G # <<>>
      BY <2>1
    <2>3. H \in Seq(Game) /\ Len(H) = i /\ \A j \in 1..i : H[j] = G[j]
      BY <2>1
    <2> HIDE DEF H, n
    <2> QED BY <2>1, <2>2, <2>3
  <1>2. C = D \cup {i}
    <2>1. ASSUME NEW j \in 1..(n - 1) PROVE j \in C <=> j \in D \cup {i}
      <3>1. CASE j < i
        <4>1. j \in 1..(i - 1) /\ H[j] = G[j] /\ H[j + 1] = G[j + 1]
          BY <1>1, <3>1
        <4> QED BY <1>1, <3>1, <4>1 DEF Changes
      <3>2. CASE j = i
        <4>1. UndoKey(G[i + 1]) = UndoKey(G[n])
          BY <1>1
        <4> QED BY <3>2, <4>1 DEF Changes
      <3>3. CASE j > i
        <4>1. UndoKey(G[j]) = UndoKey(G[n]) /\ UndoKey(G[j + 1]) = UndoKey(G[n])
          BY <1>1, <3>3
        <4>2. j \notin D
          BY <1>1, <3>3 DEF Changes
        <4> QED BY <3>3, <4>1, <4>2 DEF Changes
      <3> QED BY <1>1, <3>1, <3>2, <3>3
    <2>2. C \in SUBSET (1..(n - 1)) /\ D \cup {i} \in SUBSET (1..(n - 1))
      BY <1>1 DEF Changes
    <2> HIDE DEF C, D
    <2> QED BY <2>1, <2>2
  <1>3. \A j \in D : j < i /\ j \in 1..i
    BY <1>1 DEF Changes
  <1> HIDE DEF C, D, H, n
  <1>4. /\ Positions(G) \in Seq(AllPositions) /\ Len(Positions(G)) = Cardinality(C) + 1
        /\ \A k \in 1..Cardinality(C) : Positions(G)[k] = UndoKey(G[Nth(C, k)])
        /\ Positions(G)[Cardinality(C) + 1] = UndoKey(G[n])
    BY <1>1, PositionsAre DEF C, n
  <1>5. /\ D \in SUBSET (Nat \ {0}) /\ IsFiniteSet(D) /\ Cardinality(D) \in Nat
        /\ Positions(H) \in Seq(AllPositions) /\ Len(Positions(H)) = Cardinality(D) + 1
        /\ \A k \in 1..Cardinality(D) : Nth(D, k) \in D /\ Positions(H)[k] = UndoKey(H[Nth(D, k)])
        /\ Positions(H)[Cardinality(D) + 1] = UndoKey(H[i])
    BY <1>1, PositionsAre DEF D
  <1>6. /\ Cardinality(C) = Cardinality(D) + 1 /\ Nth(C, Cardinality(D) + 1) = i
        /\ \A k \in 1..Cardinality(D) : Nth(C, k) = Nth(D, k)
    <2>1. D \in SUBSET Nat /\ i \in Nat /\ \A x \in D : x < i
      BY <1>1, <1>3, <1>5
    <2> QED BY <1>2, <1>5, <2>1, NthWithTop
  <1>7. UndoKey(G[n]) \in AllPositions
    <2>1. G[n] \in Game
      BY <1>1 DEF n
    <2> QED BY <2>1, KeyIsPosition
  <1>8. /\ P \in Seq(AllPositions) /\ Len(P) = Cardinality(D) + 2
        /\ \A k \in 1..(Cardinality(D) + 1) : P[k] = Positions(H)[k]
        /\ P[Cardinality(D) + 2] = UndoKey(G[n])
    BY <1>5, <1>7, AppendProperties
  <1> HIDE DEF P
  <1>9. ASSUME NEW k \in 1..Cardinality(D) PROVE Positions(G)[k] = P[k]
    <2>1. k \in 1..Cardinality(C) /\ k \in 1..(Cardinality(D) + 1)
      BY <1>5, <1>6
    <2>2. Positions(G)[k] = UndoKey(G[Nth(D, k)])
      BY <1>4, <1>6, <2>1
    <2>3. H[Nth(D, k)] = G[Nth(D, k)]
      BY <1>1, <1>3, <1>5
    <2> QED BY <1>5, <1>8, <2>1, <2>2, <2>3
  <1>10. Positions(G)[Cardinality(D) + 1] = P[Cardinality(D) + 1]
    <2>1. H[i] = G[i] /\ Cardinality(D) + 1 \in 1..Cardinality(C) /\ Cardinality(D) + 1 \in 1..(Cardinality(D) + 1)
      BY <1>1, <1>5, <1>6
    <2> QED BY <1>4, <1>5, <1>6, <1>8, <2>1
  <1>11. Positions(G)[Cardinality(D) + 2] = P[Cardinality(D) + 2]
    BY <1>4, <1>5, <1>6, <1>8
  <1>12. Len(Positions(G)) = Len(P) /\ \A k \in 1..Len(Positions(G)) : Positions(G)[k] = P[k]
    <2>1. Cardinality(C) + 1 = Cardinality(D) + 2
      BY <1>5, <1>6
    <2>2. \A k \in 1..(Cardinality(D) + 2) : \/ k \in 1..Cardinality(D)
                                          \/ k = Cardinality(D) + 1
                                          \/ k = Cardinality(D) + 2
      BY <1>5
    <2> QED BY <1>4, <1>8, <1>9, <1>10, <1>11, <2>1, <2>2
  <1>13. Positions(G) = P
    BY <1>4, <1>8, <1>12, SeqEqual
  <1> QED BY <1>13 DEF H, n, P

\* Games that all show one position.
LEMMA PositionsAlike ==
  ASSUME NEW G \in Seq(Game), G # <<>>, \A j \in 1..Len(G) : UndoKey(G[j]) = UndoKey(G[Len(G)])
  PROVE  Positions(G) = <<UndoKey(G[Len(G)])>>
  <1>1. Changes(G) = {}
    BY DEF Changes
  <1>2. Cardinality(Changes(G)) = 0
    BY <1>1, FS_EmptySet
  <1>3. /\ Positions(G) \in Seq(AllPositions) /\ Len(Positions(G)) = 1
        /\ Positions(G)[1] = UndoKey(G[Len(G)])
    <2>1. Cardinality(Changes(G)) + 1 = 1
      BY <1>2
    <2> QED BY <2>1, PositionsAre
  <1> QED BY <1>3

-----------------------------------------------------------------------------
(* The steps of the state manager are steps of UndoLine.                   *)

LEMMA PositionsOfOne == ASSUME NEW g \in Game PROVE Positions(<<g>>) = <<UndoKey(g)>>
  <1> DEFINE G == <<g>>
  <1>1. G \in Seq(Game) /\ G # <<>> /\ Len(G) = 1 /\ G[1] = g
    OBVIOUS
  <1> HIDE DEF G
  <1>2. Positions(G) = <<UndoKey(G[1])>>
    BY <1>1, PositionsAlike
  <1> QED BY <1>1, <1>2 DEF G

LEMMA GamesAre ==
  ASSUME FitInv
  PROVE  LET games == Append(history, store)
         IN  /\ games \in Seq(Game) /\ games # <<>> /\ Len(games) = Len(history) + 1
             /\ games[Len(games)] = store /\ \A i \in 1..Len(history) : games[i] = history[i]
             /\ Line \in Seq(AllPositions) /\ Len(Line) \in 1..(MaxHistory + 1)
             /\ Line[Len(Line)] = UndoKey(store)
  <1> DEFINE games == Append(history, store)
  <1>1. history \in Seq(Game) /\ store \in Game /\ Len(history) <= MaxHistory /\ MaxHistory \in Nat
    BY BoundsAssumption DEF FitInv, TypeOK
  <1>2. /\ games \in Seq(Game) /\ games # <<>> /\ Len(games) = Len(history) + 1
        /\ games[Len(games)] = store /\ \A i \in 1..Len(history) : games[i] = history[i]
    BY <1>1, AppendProperties
  <1>3. Line = Positions(games)
    BY DEF Line
  <1> HIDE DEF games
  <1>4. /\ Line \in Seq(AllPositions) /\ Len(Line) \in 1..(MaxHistory + 1)
        /\ Line[Len(Line)] = UndoKey(store)
    BY <1>1, <1>2, <1>3, PositionsBound
  <1> QED BY <1>2, <1>4 DEF games

\* An event may repeat the position or add one, and may push out the oldest entry.
LEMMA DispatchLine ==
  ASSUME FitInv, FitInv', Dispatch
  PROVE  [Promise!Next]_Line
  <1> DEFINE games == Append(history, store)
             longer == Append(games, store')
             games2 == Append(history', store')
             key == UndoKey(store')
  <1>1. /\ games \in Seq(Game) /\ games # <<>> /\ Len(games) = Len(history) + 1 /\ games[Len(games)] = store
        /\ Line \in Seq(AllPositions) /\ Len(Line) \in 1..(MaxHistory + 1) /\ Line[Len(Line)] = UndoKey(store)
    BY GamesAre
  <1>2. /\ history \in Seq(Game) /\ store \in Game /\ store' \in Game /\ history' \in Seq(Game)
        /\ Len(history) \in Nat /\ MaxHistory \in Nat
    BY BoundsAssumption DEF FitInv, TypeOK
  <1>3. Line = Positions(games) /\ Line' = Positions(games2)
    BY DEF Line
  <1>4. Len(Line') \in 1..(MaxHistory + 1) /\ Line'[Len(Line')] = key
    <2>1. games2 \in Seq(Game) /\ games2 # <<>> /\ Len(games2) <= MaxHistory + 1 /\ games2[Len(games2)] = store'
      BY <1>2, AppendProperties DEF FitInv, TypeOK
    <2> HIDE DEF games2
    <2> QED BY <1>2, <1>3, <2>1, PositionsBound
  <1>5. CASE history' = history /\ store' = store
    BY <1>3, <1>5
  <1>6. CASE Push(store)
    <2>1. games2 = longer \/ games2 = Tail(longer)
      <3>1. history' = games \/ history' = Tail(games)
        BY <1>6 DEF Push
      <3>2. Append(Tail(games), store') = Tail(Append(games, store'))
        <4> HIDE DEF games
        <4> QED BY <1>1, <1>2, HeadTailAppend
      <3> QED BY <3>1, <3>2
    <2>2. longer \in Seq(Game) /\ Len(longer) > 1
      BY <1>1, <1>2, AppendProperties
    <2>3. Positions(longer) = IF key = UndoKey(store) THEN Line ELSE Append(Line, key)
      BY <1>1, <1>2, <1>3, PositionsAppended
    <2>4. Line' \in {Positions(longer), Tail(Positions(longer))}
      BY <1>3, <2>1, <2>2, PositionsWithoutOldest
    <2>5. CASE key = UndoKey(store)
      <3>1. Line' = Line \/ Line' = Tail(Line)
        BY <2>3, <2>4, <2>5
      <3>2. ASSUME Line' = Tail(Line) PROVE Promise!Forgotten(Line, Line')
        <4>1. Len(Line) > 1
          BY <1>1, <1>4, <3>2
        <4> QED BY <3>2, <4>1 DEF Promise!Forgotten
      <3> QED BY <3>1, <3>2 DEF Promise!Next
    <2>6. CASE key # UndoKey(store)
      <3>1. Line' \in {Append(Line, key), Tail(Append(Line, key))}
        BY <2>3, <2>4, <2>6
      <3>2. key \in AllPositions
        BY <1>2, KeyIsPosition
      <3>3. Promise!Recorded(Line, Line')
        BY <1>1, <1>4, <2>6, <3>1, <3>2 DEF Promise!Recorded
      <3> QED BY <3>3 DEF Promise!Next
    <2> QED BY <2>5, <2>6
  <1>7. (history' = history /\ store' = store) \/ Push(store)
    <2>1. ASSUME Head(loopq).kind \in {"vision", "manual"}, store.over
          PROVE  Reduced(store, Head(loopq)) = store
      BY <2>1 DEF Reduced, Moved
    <2> QED BY <2>1 DEF Dispatch
  <1> QED BY <1>5, <1>6, <1>7

\* An undo goes back over everything that shows the present position and takes back one.
LEMMA DispatchUndoLine ==
  ASSUME FitInv, FitInv', DispatchUndo
  PROVE  /\ [Promise!Next]_Line
         /\ Len(Line) > 1 => Promise!TakeBack
  <1> DEFINE games == Append(history, store)
             games2 == Append(history', store')
  <1>1. /\ games \in Seq(Game) /\ games # <<>> /\ Len(games) = Len(history) + 1 /\ games[Len(games)] = store
        /\ \A i \in 1..Len(history) : games[i] = history[i]
        /\ Line \in Seq(AllPositions) /\ Len(Line) \in 1..(MaxHistory + 1)
    BY GamesAre
  <1>2. /\ history \in Seq(Game) /\ store \in Game /\ Len(history) \in Nat /\ DOMAIN history = 1..Len(history)
    BY DEF FitInv, TypeOK
  <1>3. Line = Positions(games) /\ Line' = Positions(games2)
    BY DEF Line
  <1>4. CASE Different = {}
    <2>1. \A j \in 1..Len(games) : UndoKey(games[j]) = UndoKey(games[Len(games)])
      <3>1. \A j \in 1..Len(history) : UndoKey(games[j]) = UndoKey(store)
        BY <1>1, <1>2, <1>4 DEF Different
      <3> QED BY <1>1, <1>2, <3>1
    <2>2. Line = <<UndoKey(store)>>
      BY <1>1, <1>3, <2>1, PositionsAlike
    <2>3. games2 = <<store>>
      BY <1>4 DEF DispatchUndo
    <2>4. Line' = <<UndoKey(store)>>
      BY <1>2, <1>3, <2>3, PositionsOfOne
    <2> QED BY <2>2, <2>4
  <1>5. CASE Different # {}
    <2>1. PICK i \in Different : /\ \A j \in Different : j <= i
                                 /\ store' = history[i]
                                 /\ history' = SubSeq(history, 1, i - 1)
      BY <1>5 DEF DispatchUndo
    <2>2. i \in 1..Len(history) /\ UndoKey(history[i]) # UndoKey(store)
      BY <1>2, <2>1 DEF Different
    <2>3. \A j \in (i + 1)..Len(games) : UndoKey(games[j]) = UndoKey(store)
      <3> SUFFICES ASSUME NEW j \in (i + 1)..Len(games) PROVE UndoKey(games[j]) = UndoKey(store)
        OBVIOUS
      <3>1. CASE j = Len(games)
        BY <1>1, <3>1
      <3>2. CASE j # Len(games)
        <4>1. j \in 1..Len(history) /\ ~(j <= i)
          BY <1>1, <1>2, <2>2, <3>2
        <4>2. UndoKey(history[j]) = UndoKey(store)
          BY <1>2, <2>1, <4>1 DEF Different
        <4> QED BY <1>1, <4>1, <4>2
      <3> QED BY <3>1, <3>2
    <2>4. games2 = SubSeq(games, 1, i)
      <3>1. history' \in Seq(Game) /\ Len(history') = i - 1 /\ \A j \in 1..(i - 1) : history'[j] = history[j]
        BY <1>2, <2>1, <2>2
      <3>2. store' \in Game
        BY DEF FitInv, TypeOK
      <3>3. /\ games2 \in Seq(Game) /\ Len(games2) = i /\ games2[i] = history[i]
            /\ \A j \in 1..(i - 1) : games2[j] = history[j]
        BY <2>1, <2>2, <3>1, <3>2, AppendProperties
      <3>4. /\ SubSeq(games, 1, i) \in Seq(Game) /\ Len(SubSeq(games, 1, i)) = i
            /\ \A j \in 1..i : SubSeq(games, 1, i)[j] = games[j]
        <4> HIDE DEF games
        <4> QED BY <1>1, <1>2, <2>2
      <3> HIDE DEF games, games2
      <3>5. \A j \in 1..i : games2[j] = SubSeq(games, 1, i)[j]
        BY <1>1, <1>2, <2>2, <3>3, <3>4
      <3> QED BY <3>3, <3>4, <3>5, SeqEqual
    <2>5. i \in 1..(Len(games) - 1) /\ games[i] = history[i]
      BY <1>1, <1>2, <2>2
    <2>6. Line = Append(Line', UndoKey(store))
      <3> HIDE DEF games, games2
      <3>1. Positions(games) = Append(Positions(SubSeq(games, 1, i)), UndoKey(games[Len(games)]))
        BY <1>1, <2>2, <2>3, <2>5, PositionsCut
      <3> QED BY <1>1, <1>3, <2>4, <3>1
    <2>7. Line' \in Seq(AllPositions) /\ Line' # <<>>
      <3>1. games2 \in Seq(Game) /\ games2 # <<>>
        <4>1. history' \in Seq(Game) /\ store' \in Game
          BY DEF FitInv, TypeOK
        <4> QED BY <4>1, AppendProperties
      <3> HIDE DEF games2
      <3>2. Positions(games2) \in Seq(AllPositions) /\ Len(Positions(games2)) > 0
        BY <3>1, PositionsAre
      <3> QED BY <1>3, <3>2
    <2>8. UndoKey(store) \in AllPositions
      BY <1>2, KeyIsPosition
    <2>9. Promise!TakenBack(Line, Line')
      <3>1. Len(Line) > 1 /\ Line' = SubSeq(Line, 1, Len(Line) - 1)
        BY <2>6, <2>7, <2>8
      <3> QED BY <3>1 DEF Promise!TakenBack
    <2> QED BY <2>9 DEF Promise!Next, Promise!TakeBack
  <1> QED BY <1>4, <1>5

LEMMA OthersLine ==
  ASSUME GameUnchanged PROVE Line' = Line
  BY DEF GameUnchanged, Line

LEMMA NextLine ==
  ASSUME FitInv, [Next]_vars
  PROVE  /\ [Promise!Next]_Line
         /\ [DispatchUndo /\ Len(Line) > 1 => Promise!TakeBack]_vars
  <1>1. FitInv'
    BY NextFits
  <1>2. DispatchUndo => [Promise!Next]_Line /\ (Len(Line) > 1 => Promise!TakeBack)
    BY <1>1, DispatchUndoLine
  <1>3. Dispatch => [Promise!Next]_Line
    BY <1>1, DispatchLine
  <1>4. ASSUME ~Dispatch, ~DispatchUndo PROVE GameUnchanged
    BY <1>4 DEF Next, vars, GameUnchanged, ReadTurn, Validate, Judge, Publish, SyncReset, SyncFails, SyncCommit,
                SyncPublish, ManualMove, Undo, Reset, Background
  <1> QED BY <1>2, <1>3, <1>4, OthersLine

LEMMA InitLine == ASSUME Init PROVE Promise!Init
  <1>1. NewGame \in Game /\ history = <<>> /\ store = NewGame
    BY StartIsBoard DEF Init
  <1>2. Append(history, store) = <<NewGame>>
    BY <1>1
  <1>3. Line = <<UndoKey(NewGame)>>
    BY <1>1, <1>2, PositionsOfOne DEF Line
  <1> QED BY <1>1, <1>3, KeyIsPosition DEF Promise!Init

\* A line of positions is kept: an undo takes back exactly the last change of the position, and only
\* the oldest positions are forgotten (StateManager.dispatch, _undo_last_game_mutation).
THEOREM ImplementsUndoLine == Spec => UndoSpec
  <1>1. Init => FitInv /\ Promise!Init
    BY InitFits, InitLine
  <1>2. FitInv /\ [Next]_vars => FitInv'
    BY NextFits
  <1>3. FitInv /\ [Next]_vars => [Promise!Next]_Line
    BY NextLine
  <1> QED BY <1>1, <1>2, <1>3, PTL DEF Spec, UndoSpec, Promise!Spec

\* An undo that meets an earlier position takes back the present one, however many events that left
\* the position as it was were recorded in between (_undo_last_game_mutation).
THEOREM UndoAlwaysTakesBack == Spec => UndoTakesBack
  <1>1. Init => FitInv
    BY InitFits
  <1>2. FitInv /\ [Next]_vars => FitInv'
    BY NextFits
  <1>3. FitInv /\ [Next]_vars => [DispatchUndo /\ Len(Line) > 1 => Promise!TakeBack]_vars
    BY NextLine
  <1> QED BY <1>1, <1>2, <1>3, PTL DEF Spec, UndoTakesBack
=============================================================================
