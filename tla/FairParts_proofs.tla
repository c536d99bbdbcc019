-------------------------- MODULE FairParts_proofs --------------------------
(***************************************************************************)
(* Theorems about the parts that MCFairParts runs: the engine's process,   *)
(* the two links to the robot, the camera's sources and the player's page. *)
(* They share no state; each is an instance of its module.                 *)
(***************************************************************************)
EXTENDS Naturals, Sequences, FiniteSets, SequenceTheorems, WellFoundedInduction, TLAPS

CONSTANTS
    None,
    Fen, Candidates, QueueSize, MaxCommands,   \* EngineProcess
    Caller, MaxSockets, RequireHello,          \* TMflowLink
    MaxCalls,                                  \* TechmanLink
    Size, Sources, Threads, Switches,          \* VisionSource
    MaxPos, MaxQueue, MaxWire                  \* PlayerPage

VARIABLES
    svc, proc, out, pc, holds, asked, nth, answer,                               \* EngineProcess
    fake, up, socket, inbox, seq, adapterLock, call, claimed, robot, carried,    \* TMflowLink
    loops, current, ready, loopLock, request, connected, flow, tag, calls,       \* TechmanLink
    queued, manager, source, thread, poster,                                     \* VisionSource
    store, events, analysis, arm, beat, wire, late, http, page, view             \* PlayerPage

Engine == INSTANCE EngineProcess
Link == INSTANCE TMflowLink WITH connected <- up, lock <- adapterLock
Techman == INSTANCE TechmanLink WITH lock <- loopLock, call <- request
Source == INSTANCE VisionSource
Page == INSTANCE PlayerPage WITH engine <- analysis

-----------------------------------------------------------------------------
(* The engine's process.                                                   *)

\* What an instance has to give: a value that is no process, and room for a line.
EngineSound == None \notin 1..4 /\ QueueSize \in Nat \ {0} /\ Candidates \in Nat

WorkerPlace == {"idle", "recycle", "start", "probing", "failed", "ask", "search", "cancelled"} \cup Engine!Opening
ProbePlace == {"off", "next", "reject", "accept", "leave"} \cup Engine!Opening
HookPlace == {"off", "worker", "await", "close", "done"}

EngineTypes ==
    /\ Engine!TypeOK
    /\ proc \in [gen : 0..4, by : Engine!Task, state : {"none", "up", "dead"}, todo : Seq(Engine!Command),
                 search : Engine!Question \cup {None}]
    /\ pc \in [Engine!Task -> WorkerPlace \cup ProbePlace \cup HookPlace]
    /\ proc.state # "none" => proc.gen # 0 /\ proc.by # "hook"

\* The hook stops the tasks before it closes what is left of the process.
HookComesLast ==
    /\ pc["worker"] = "cancelled" => pc["hook"] # "off"
    /\ pc["hook"] \in {"await", "close", "done"} => svc.shutdown
    /\ pc["hook"] \in {"close", "done"} => pc["probe"] = "off"
    /\ pc["hook"] = "close" /\ pc["worker"] = "cancelled" => proc.state = "none" \/ holds["hook"] = proc.gen

\* A candidate on trial is in the probe's hands, until the worker is cancelled or the service shut down.
ProbeHoldsItsCandidate ==
    /\ svc.status = "matched" => pc["probe"] = "off"
    /\ pc["worker"] # "cancelled" /\ ~svc.shutdown /\ proc.state # "none" /\ proc.by = "probe" =>
         \/ pc["probe"] \in Engine!Opened
         \/ pc["probe"] \in {"reject", "accept", "leave"} /\ holds["probe"] = proc.gen

\* What a question finds with the engine: at first what was overdue, then also its own.
Own == asked.overdue \cup (IF pc["worker"] = "ask" THEN {} ELSE {asked.fen})
OnlyItsOwn ==
    pc["worker"] \in {"ask", "search"} =>
        /\ "warmup" \notin asked.overdue => pc["probe"] = "off"
        /\ \A i \in DOMAIN proc.todo : proc.todo[i].kind = "go" => proc.todo[i].q \in Own
        /\ proc.search \in Own \cup {None}
        /\ \A i \in DOMAIN out : out[i].kind = "best" => out[i].q \in Own

EngineInv ==
    /\ EngineTypes /\ HookComesLast /\ ProbeHoldsItsCandidate /\ OnlyItsOwn
    /\ Engine!AnswerFitsQuestion /\ Engine!NothingLeftRunning

EngineRecord == [gen : 0..4, by : Engine!Task, state : {"none", "up", "dead"}, todo : Seq(Engine!Command),
                 search : Engine!Question \cup {None}]

LEMMA EngineInit == ASSUME EngineSound, Engine!Init PROVE EngineInv
<1>1. PICK p \in {"off", "next"} : pc = [worker |-> "idle", probe |-> p, hook |-> "off"]
  BY DEF Engine!Init
<1>2. pc \in [Engine!Task -> WorkerPlace \cup ProbePlace \cup HookPlace]
  BY <1>1 DEF Engine!Task, WorkerPlace, ProbePlace, HookPlace
<1>3. /\ svc \in [status : {"unprobed", "probing", "missing_engine", "matched", "incompatible", "shutdown"},
                  running : BOOLEAN, closing : BOOLEAN, shutdown : BOOLEAN, error : BOOLEAN]
      /\ proc \in EngineRecord /\ proc.state = "none"
  BY DEF Engine!Init, Engine!Gone, EngineRecord, Engine!Task
<1>4. Engine!TypeOK
  BY <1>1, <1>3 DEF Engine!Init, EngineRecord, EngineSound, Engine!TypeOK, Engine!NoQuestion, Engine!NoAnswer,
        Engine!Task, Engine!Line, Engine!Opening, Engine!Opened
<1> QED BY <1>1, <1>2, <1>3, <1>4 DEF EngineInv, EngineTypes, EngineRecord, HookComesLast, ProbeHoldsItsCandidate,
      OnlyItsOwn, Own,
      Engine!AnswerFitsQuestion, Engine!NothingLeftRunning, Engine!Init, Engine!NoAnswer

\* The command queue and the output stay what they are.
LEMMA SendType ==
    ASSUME EngineTypes, NEW cmds \in Seq(Engine!Command)
    PROVE  /\ Engine!Send(cmds) \in EngineRecord
           /\ Engine!Send(cmds).gen = proc.gen /\ Engine!Send(cmds).by = proc.by /\ Engine!Send(cmds).state = proc.state
           /\ Engine!Send(cmds).search = proc.search
           /\ Engine!Send(cmds).todo = IF Engine!Alive THEN proc.todo \o cmds ELSE proc.todo
<1>1. proc \in EngineRecord /\ proc.todo \o cmds \in Seq(Engine!Command)
  BY DEF EngineTypes, EngineRecord
<1>2. CASE Engine!Alive
  <2>1. Engine!Send(cmds) = [proc EXCEPT !.todo = proc.todo \o cmds]
    BY <1>2 DEF Engine!Send
  <2> QED BY <1>1, <1>2, <2>1 DEF EngineRecord
<1>3. CASE ~Engine!Alive
  BY <1>1, <1>3 DEF Engine!Send
<1> QED BY <1>2, <1>3

LEMMA OneMore ==
    ASSUME NEW S, NEW s \in Seq(S), NEW one \in Seq(S), Len(one) = 1, NEW i \in DOMAIN (s \o one)
    PROVE  (i \in DOMAIN s /\ (s \o one)[i] = s[i]) \/ (s \o one)[i] = one[1]
<1>1. /\ DOMAIN (s \o one) = 1..(Len(s) + 1) /\ DOMAIN s = 1..Len(s) /\ Len(s) \in Nat
      /\ \A k \in 1..(Len(s) + 1) : (s \o one)[k] = IF k <= Len(s) THEN s[k] ELSE one[k - Len(s)]
  <2>1. /\ s \o one \in Seq(S) /\ Len(s \o one) = Len(s) + Len(one)
        /\ \A k \in 1..(Len(s) + Len(one)) : (s \o one)[k] = IF k <= Len(s) THEN s[k] ELSE one[k - Len(s)]
    BY ConcatProperties
  <2>2. Len(s) \in Nat /\ DOMAIN s = 1..Len(s) /\ DOMAIN (s \o one) = 1..Len(s \o one)
    BY <2>1
  <2> QED BY <2>1, <2>2
<1>2. CASE i \in 1..Len(s)
  BY <1>1, <1>2
<1>3. CASE i = Len(s) + 1
  <2>1. (s \o one)[i] = one[i - Len(s)] /\ i - Len(s) = 1
    BY <1>1, <1>3
  <2> QED BY <2>1
<1> QED BY <1>1, <1>2, <1>3

LEMMA EnqueuedType ==
    ASSUME EngineSound, EngineTypes, NEW line \in Engine!Line
    PROVE  /\ Engine!Enqueued(line) \in Seq(Engine!Line) /\ Len(Engine!Enqueued(line)) <= QueueSize
           /\ \A i \in DOMAIN Engine!Enqueued(line) :
                 Engine!Enqueued(line)[i] = line \/ \E j \in DOMAIN out : Engine!Enqueued(line)[i] = out[j]
<1>1. out \in Seq(Engine!Line) /\ Len(out) <= QueueSize /\ QueueSize \in Nat \ {0}
  BY DEF EngineTypes, Engine!TypeOK, EngineSound
<1>2. CASE Len(out) < QueueSize
  BY <1>1, <1>2 DEF Engine!Enqueued
<1>3. CASE Len(out) >= QueueSize
  <2>1. out # <<>> /\ Tail(out) \in Seq(Engine!Line) /\ Len(Tail(out)) = Len(out) - 1
    BY <1>1, <1>3
  <2>2. Engine!Enqueued(line) = Append(Tail(out), line)
    BY <1>1, <1>3 DEF Engine!Enqueued
  <2> QED BY <1>1, <1>3, <2>1, <2>2
<1> QED BY <1>1, <1>2, <1>3

\* A process that is opened is none that is being closed.
LEMMA FreshGenType ==
    ASSUME EngineSound, EngineTypes
    PROVE  Engine!FreshGen \in 1..4 /\ \A t \in Engine!Task : holds[t] # Engine!FreshGen
<1>1. \E g \in 1..4 : \A t \in Engine!Task : holds[t] # g
  <2>1. \A t \in Engine!Task : t = "worker" \/ t = "probe" \/ t = "hook"
    BY DEF Engine!Task
  <2>2. \E g \in 1..4 : holds["worker"] # g /\ holds["probe"] # g /\ holds["hook"] # g
    <3>1. \/ holds["worker"] # 1 /\ holds["probe"] # 1 /\ holds["hook"] # 1
          \/ holds["worker"] # 2 /\ holds["probe"] # 2 /\ holds["hook"] # 2
          \/ holds["worker"] # 3 /\ holds["probe"] # 3 /\ holds["hook"] # 3
          \/ holds["worker"] # 4 /\ holds["probe"] # 4 /\ holds["hook"] # 4
      OBVIOUS
    <3> QED BY <3>1
  <2> QED BY <2>1, <2>2
<1> QED BY <1>1 DEF Engine!FreshGen

LEMMA ReadsStep == ASSUME EngineSound, EngineInv, Engine!EngineReads PROVE EngineInv'
<1> DEFINE cmd == Head(proc.todo)
<1>1. proc \in EngineRecord /\ proc.todo # <<>> /\ proc.state = "up"
  BY DEF EngineInv, EngineTypes, EngineRecord, Engine!EngineReads, Engine!Alive
<1>2. /\ cmd \in Engine!Command /\ Tail(proc.todo) \in Seq(Engine!Command)
      /\ cmd = proc.todo[1] /\ 1 \in DOMAIN proc.todo
      /\ \A i \in DOMAIN Tail(proc.todo) : \E j \in DOMAIN proc.todo : Tail(proc.todo)[i] = proc.todo[j]
  BY <1>1 DEF EngineRecord
<1>3. /\ Engine!Said("uciok", None) \in Engine!Line /\ Engine!Said("readyok", None) \in Engine!Line
      /\ proc.search # None => Engine!Said("best", proc.search) \in Engine!Line
  BY <1>1 DEF EngineRecord, Engine!Said, Engine!Line
<1>4. /\ proc'.search \in {None, proc.search} \/ (cmd.kind = "go" /\ proc'.search = cmd.q)
      /\ proc' \in EngineRecord /\ proc'.todo = Tail(proc.todo)
      /\ proc'.gen = proc.gen /\ proc'.by = proc.by /\ proc'.state = proc.state
  <2>1. cmd.q \in Engine!Question \cup {None} /\ None \in Engine!Question \cup {None}
    BY <1>2 DEF Engine!Command
  <2>2. \/ proc' = [proc EXCEPT !.todo = Tail(proc.todo)]
        \/ cmd.kind = "go" /\ proc' = [proc EXCEPT !.todo = Tail(proc.todo), !.search = cmd.q]
        \/ proc' = [proc EXCEPT !.todo = Tail(proc.todo), !.search = None]
    BY DEF Engine!EngineReads
  <2> HIDE DEF cmd
  <2> DEFINE rest == Tail(proc.todo)
  <2>3. rest \in Seq(Engine!Command) /\ rest = Tail(proc.todo)
    BY <1>2
  <2> HIDE DEF rest
  <2>4. CASE proc' = [proc EXCEPT !.todo = rest]
    BY <1>1, <2>3, <2>4 DEF EngineRecord
  <2>5. CASE cmd.kind = "go" /\ proc' = [proc EXCEPT !.todo = rest, !.search = cmd.q]
    BY <1>1, <2>1, <2>3, <2>5 DEF EngineRecord
  <2>6. CASE proc' = [proc EXCEPT !.todo = rest, !.search = None]
    BY <1>1, <2>1, <2>3, <2>6 DEF EngineRecord
  <2> QED BY <2>2, <2>4, <2>5, <2>6 DEF rest
<1>5. /\ out' \in Seq(Engine!Line) /\ Len(out') <= QueueSize
      /\ \A i \in DOMAIN out' : \/ out'[i].kind # "best"
                                \/ proc.search # None /\ out'[i].q = proc.search
                                \/ \E j \in DOMAIN out : out'[i] = out[j]
  <2>1. CASE UNCHANGED out
    BY <2>1 DEF EngineInv, EngineTypes, Engine!TypeOK
  <2>2. CASE out' = Engine!Enqueued(Engine!Said("uciok", None)) \/ out' = Engine!Enqueued(Engine!Said("readyok", None))
    <3>1. Engine!Said("uciok", None).kind # "best" /\ Engine!Said("readyok", None).kind # "best"
      BY DEF Engine!Said
    <3>2. PICK line \in Engine!Line : out' = Engine!Enqueued(line) /\ line.kind # "best"
      BY <1>3, <2>2, <3>1
    <3>3. /\ out' \in Seq(Engine!Line) /\ Len(out') <= QueueSize
          /\ \A i \in DOMAIN out' : out'[i] = line \/ \E j \in DOMAIN out : out'[i] = out[j]
      BY <3>2, EnqueuedType DEF EngineInv
    <3> QED BY <3>2, <3>3
  <2>3. CASE proc.search # None /\ out' = Engine!Enqueued(Engine!Said("best", proc.search))
    <3>1. Engine!Said("best", proc.search).q = proc.search
      BY DEF Engine!Said
    <3> QED BY <1>3, <2>3, <3>1, EnqueuedType DEF EngineInv
  <2> QED BY <2>1, <2>2, <2>3 DEF Engine!EngineReads
<1> HIDE DEF cmd
<1>6. UNCHANGED <<svc, pc, holds, asked, nth, answer>>
  BY DEF Engine!EngineReads
<1>7. EngineTypes'
  BY <1>1, <1>4, <1>5, <1>6 DEF EngineInv, EngineTypes, Engine!TypeOK, EngineRecord
<1>8. OnlyItsOwn'
  BY <1>1, <1>2, <1>4, <1>5, <1>6 DEF EngineInv, OnlyItsOwn, Own
<1> QED BY <1>4, <1>6, <1>7, <1>8 DEF EngineInv, HookComesLast, ProbeHoldsItsCandidate, Engine!AnswerFitsQuestion,
      Engine!NothingLeftRunning

LEMMA SearchesStep == ASSUME EngineSound, EngineInv, Engine!EngineSearches PROVE EngineInv'
<1>1. proc \in EngineRecord /\ proc.search # None /\ proc.state = "up"
  BY DEF EngineInv, EngineTypes, EngineRecord, Engine!EngineSearches, Engine!Alive
<1>2. \E kind \in {"info", "best", "nobest"}, q \in {None, proc.search} :
        /\ kind # "info" => q = proc.search
        /\ Engine!Said(kind, q) \in Engine!Line /\ out' = Engine!Enqueued(Engine!Said(kind, q))
  BY <1>1 DEF Engine!EngineSearches, EngineRecord, Engine!Said, Engine!Line
<1>3. /\ out' \in Seq(Engine!Line) /\ Len(out') <= QueueSize
      /\ \A i \in DOMAIN out' : \/ out'[i].kind # "best"
                                \/ out'[i].q = proc.search
                                \/ \E j \in DOMAIN out : out'[i] = out[j]
  <2>1. PICK line \in Engine!Line : out' = Engine!Enqueued(line) /\ (line.kind # "best" \/ line.q = proc.search)
    BY <1>2 DEF Engine!Said
  <2> QED BY <2>1, EnqueuedType DEF EngineInv
<1>4. /\ proc'.search \in {None, proc.search}
      /\ proc' \in EngineRecord /\ proc'.todo = proc.todo
      /\ proc'.gen = proc.gen /\ proc'.by = proc.by /\ proc'.state = proc.state
  BY <1>1 DEF Engine!EngineSearches, EngineRecord
<1>5. UNCHANGED <<svc, pc, holds, asked, nth, answer>>
  BY DEF Engine!EngineSearches
<1>6. EngineTypes'
  BY <1>1, <1>3, <1>4, <1>5 DEF EngineInv, EngineTypes, Engine!TypeOK, EngineRecord
<1>7. OnlyItsOwn'
  BY <1>1, <1>3, <1>4, <1>5 DEF EngineInv, OnlyItsOwn, Own
<1> QED BY <1>4, <1>5, <1>6, <1>7 DEF EngineInv, HookComesLast, ProbeHoldsItsCandidate, Engine!AnswerFitsQuestion,
      Engine!NothingLeftRunning

LEMMA DiesStep == ASSUME EngineSound, EngineInv, Engine!EngineDies \/ Engine!EngineComplains PROVE EngineInv'
<1>1. CASE Engine!EngineDies
  <2>1. proc \in EngineRecord
    BY DEF EngineInv, EngineTypes, EngineRecord
  <2>2. /\ proc' \in EngineRecord /\ proc'.todo = <<>> /\ proc'.search = None /\ proc'.state = "dead"
        /\ proc'.gen = proc.gen /\ proc'.by = proc.by /\ proc.state = "up"
        /\ UNCHANGED <<svc, out, pc, holds, asked, nth, answer>>
    <3>1. proc' = [proc EXCEPT !.state = "dead", !.todo = <<>>, !.search = None]
      BY <1>1 DEF Engine!EngineDies
    <3>2. <<>> \in Seq(Engine!Command)
      OBVIOUS
    <3> QED BY <1>1, <2>1, <3>1, <3>2 DEF Engine!EngineDies, Engine!Alive, EngineRecord
  <2>3. EngineTypes'
    BY <2>1, <2>2 DEF EngineInv, EngineTypes, Engine!TypeOK, EngineRecord
  <2>4. OnlyItsOwn'
    BY <2>2 DEF EngineInv, OnlyItsOwn, Own
  <2> QED BY <2>2, <2>3, <2>4 DEF EngineInv, HookComesLast, ProbeHoldsItsCandidate, Engine!AnswerFitsQuestion,
        Engine!NothingLeftRunning
<1>2. CASE Engine!EngineComplains
  <2>1. /\ svc' = [svc EXCEPT !.error = TRUE]
        /\ UNCHANGED <<proc, out, pc, holds, asked, nth, answer>>
    BY <1>2 DEF Engine!EngineComplains
  <2>2. /\ svc' \in [status : {"unprobed", "probing", "missing_engine", "matched", "incompatible", "shutdown"},
                     running : BOOLEAN, closing : BOOLEAN, shutdown : BOOLEAN, error : BOOLEAN]
        /\ svc'.status = svc.status /\ svc'.shutdown = svc.shutdown
    BY <2>1 DEF EngineInv, EngineTypes, Engine!TypeOK
  <2>3. EngineTypes'
    BY <2>1, <2>2 DEF EngineInv, EngineTypes, Engine!TypeOK
  <2> QED BY <2>1, <2>2, <2>3 DEF EngineInv, HookComesLast, ProbeHoldsItsCandidate, OnlyItsOwn, Own,
        Engine!AnswerFitsQuestion,
        Engine!NothingLeftRunning
<1> QED BY <1>1, <1>2

-----------------------------------------------------------------------------
(* What the tasks share *)

EngineServices == [status : {"unprobed", "probing", "missing_engine", "matched", "incompatible", "shutdown"},
                   running : BOOLEAN, closing : BOOLEAN, shutdown : BOOLEAN, error : BOOLEAN]
Holding == [Engine!Task -> 1..4 \cup {None}]
Place == WorkerPlace \cup ProbePlace \cup HookPlace

LEMMA GoneType == Engine!Gone \in EngineRecord /\ Engine!Gone.state = "none" /\ Engine!Gone.todo = <<>> /\ Engine!Gone.search = None
<1>1. <<>> \in Seq(Engine!Command)
  OBVIOUS
<1> QED BY <1>1 DEF Engine!Gone, EngineRecord, Engine!Task

LEMMA GotoType ==
    ASSUME EngineTypes, NEW t \in Engine!Task, NEW place \in Place, Engine!Goto(t, place)
    PROVE  pc' \in [Engine!Task -> Place] /\ pc'[t] = place /\ \A u \in Engine!Task : u # t => pc'[u] = pc[u]
  BY DEF EngineTypes, Engine!Goto, Place

LEMMA CloseBeginsType ==
    ASSUME EngineTypes, NEW t \in Engine!Task, Engine!CloseBegins(t)
    PROVE  /\ svc' \in EngineServices /\ svc'.status = svc.status /\ svc'.shutdown = svc.shutdown
           /\ holds' \in Holding /\ \A u \in Engine!Task : u # t => holds'[u] = holds[u]
           /\ proc.state # "none" => holds'[t] = proc.gen
<1>1. svc \in EngineServices /\ holds \in Holding /\ proc.gen \in 0..4 /\ (proc.state # "none" => proc.gen # 0)
  BY DEF EngineTypes, Engine!TypeOK, EngineServices, Holding
<1>2. svc' \in EngineServices /\ svc'.status = svc.status /\ svc'.shutdown = svc.shutdown
  <2> DEFINE busy == proc.state # "none"
  <2>1. busy \in BOOLEAN /\ svc' = [svc EXCEPT !.running = FALSE, !.closing = busy]
    BY DEF Engine!CloseBegins
  <2> HIDE DEF busy
  <2> QED BY <1>1, <2>1 DEF EngineServices
<1>3. /\ holds' \in Holding /\ \A u \in Engine!Task : u # t => holds'[u] = holds[u]
      /\ proc.state # "none" => holds'[t] = proc.gen
  BY <1>1 DEF Engine!CloseBegins, Holding
<1> QED BY <1>2, <1>3

LEMMA CloseEndsType ==
    ASSUME EngineTypes, NEW t \in Engine!Task, Engine!CloseEnds(t)
    PROVE  /\ svc' \in EngineServices /\ svc'.status = svc.status /\ svc'.shutdown = svc.shutdown
           /\ holds' \in Holding /\ holds'[t] = None /\ \A u \in Engine!Task : u # t => holds'[u] = holds[u]
           /\ proc' = IF proc.gen = holds[t] THEN Engine!Gone ELSE proc
           /\ proc' \in EngineRecord
  BY GoneType DEF EngineTypes, Engine!TypeOK, EngineServices, Holding, Engine!CloseEnds, EngineRecord

LEMMA CloseCutType ==
    ASSUME EngineTypes, NEW t \in Engine!Task, Engine!CloseCut(t)
    PROVE  /\ svc' \in EngineServices /\ svc'.status = svc.status /\ svc'.shutdown = svc.shutdown
           /\ holds' \in Holding /\ \A u \in Engine!Task : u # t => holds'[u] = holds[u]
<1>1. svc \in EngineServices /\ holds \in Holding
  BY DEF EngineTypes, Engine!TypeOK, EngineServices, Holding
<1>2. svc' = svc \/ svc' = [svc EXCEPT !.closing = FALSE]
  <2>1. CASE holds[t] = None
    BY <1>1, <2>1 DEF Engine!CloseCut, EngineServices
  <2>2. CASE holds[t] # None
    BY <2>2 DEF Engine!CloseCut
  <2> QED BY <2>1, <2>2
<1> QED BY <1>1, <1>2 DEF EngineServices, Holding, Engine!CloseCut

LEMMA SpawnType ==
    ASSUME EngineTypes, NEW t \in {"worker", "probe"}, Engine!Spawn(t)
    PROVE  /\ svc' \in EngineServices /\ svc'.shutdown = svc.shutdown
           /\ svc'.status = IF t = "probe" THEN "probing" ELSE svc.status
           /\ UNCHANGED <<proc, out>> /\ pc' \in [Engine!Task -> Place] /\ pc'[t] = "exec"
           /\ \A u \in Engine!Task : u # t => pc'[u] = pc[u]
<1>1. svc \in EngineServices /\ t \in Engine!Task /\ "exec" \in Place
  BY DEF EngineTypes, Engine!TypeOK, EngineServices, Engine!Task, Place, WorkerPlace, Engine!Opening
<1>2. svc' \in EngineServices /\ svc'.shutdown = svc.shutdown
        /\ svc'.status = IF t = "probe" THEN "probing" ELSE svc.status
  BY <1>1 DEF Engine!Spawn, EngineServices
<1> QED BY <1>1, <1>2, GotoType DEF Engine!Spawn

LEMMA SpawnedType ==
    ASSUME EngineSound, EngineTypes, NEW t \in {"worker", "probe"}, Engine!Spawned(t)
    PROVE  /\ svc' \in EngineServices /\ svc'.shutdown = svc.shutdown /\ svc'.status = svc.status
           /\ proc' \in EngineRecord /\ proc'.gen # 0 /\ proc'.by = t /\ proc'.search = None
           /\ \A i \in DOMAIN proc'.todo : proc'.todo[i].kind # "go"
           /\ out' = <<>> /\ pc' \in [Engine!Task -> Place] /\ pc'[t] = "uci"
           /\ \A u \in Engine!Task : u # t => pc'[u] = pc[u]
<1>1. svc \in EngineServices /\ t \in Engine!Task /\ "uci" \in Place
  BY DEF EngineTypes, Engine!TypeOK, EngineServices, Engine!Task, Place, WorkerPlace, Engine!Opening, Engine!Opened
<1>2. svc' \in EngineServices /\ svc'.shutdown = svc.shutdown /\ svc'.status = svc.status
  BY <1>1 DEF Engine!Spawned, EngineServices
<1> DEFINE first == <<Engine!Said("uci", None)>>
<1>3. first \in Seq(Engine!Command) /\ \A i \in DOMAIN first : first[i].kind # "go"
  BY DEF Engine!Said, Engine!Command
<1>4. proc' = [gen |-> Engine!FreshGen, by |-> t, state |-> "up", todo |-> first, search |-> None]
  BY DEF Engine!Spawned
<1> HIDE DEF first
<1>5. proc' \in EngineRecord /\ proc'.gen # 0 /\ proc'.by = t /\ proc'.search = None /\ proc'.todo = first
  BY <1>1, <1>3, <1>4, FreshGenType DEF EngineRecord
<1> QED BY <1>1, <1>2, <1>3, <1>5, GotoType DEF Engine!Spawned

LEMMA TypesAgain ==
    ASSUME EngineTypes, svc' \in EngineServices, proc' \in EngineRecord, proc'.state # "none" => proc'.gen # 0 /\ proc'.by # "hook",
           out' \in Seq(Engine!Line), Len(out') <= QueueSize,
           pc' \in [Engine!Task -> Place], pc'["worker"] \in WorkerPlace, pc'["probe"] \in ProbePlace, pc'["hook"] \in HookPlace,
           holds' \in Holding, asked' \in [fen : Fen \cup {None}, overdue : SUBSET (Engine!Question \cup {None})], nth' \in 0..Candidates,
           answer' \in [fen : Fen \cup {None}, best : Engine!Question \cup {None}, overdue : SUBSET (Engine!Question \cup {None})]
    PROVE  EngineTypes'
  BY DEF EngineTypes, Engine!TypeOK, EngineServices, Holding, EngineRecord, Place, WorkerPlace, ProbePlace, HookPlace

LEMMA TypesNow ==
    ASSUME EngineTypes
    PROVE  /\ svc \in EngineServices /\ proc \in EngineRecord /\ (proc.state # "none" => proc.gen # 0 /\ proc.by # "hook")
           /\ out \in Seq(Engine!Line) /\ Len(out) <= QueueSize
           /\ pc \in [Engine!Task -> Place] /\ pc["worker"] \in WorkerPlace /\ pc["probe"] \in ProbePlace
           /\ pc["hook"] \in HookPlace
           /\ holds \in Holding /\ asked \in [fen : Fen \cup {None}, overdue : SUBSET (Engine!Question \cup {None})] /\ nth \in 0..Candidates
           /\ answer \in [fen : Fen \cup {None}, best : Engine!Question \cup {None}, overdue : SUBSET (Engine!Question \cup {None})]
  BY DEF EngineTypes, Engine!TypeOK, EngineServices, Holding, EngineRecord, Place, WorkerPlace, ProbePlace, HookPlace

\* Lines that are taken leave the rest.
LEMMA EngineTailType ==
    ASSUME EngineSound, EngineTypes, out # <<>>
    PROVE  /\ Tail(out) \in Seq(Engine!Line) /\ Len(Tail(out)) <= QueueSize
           /\ \A i \in DOMAIN Tail(out) : \E j \in DOMAIN out : Tail(out)[i] = out[j]
           /\ Head(out) \in Engine!Line /\ Head(out) = out[1] /\ 1 \in DOMAIN out
<1>1. out \in Seq(Engine!Line) /\ Len(out) <= QueueSize /\ QueueSize \in Nat
  BY TypesNow DEF EngineSound
<1>2. Tail(out) \in Seq(Engine!Line) /\ Len(Tail(out)) = Len(out) - 1 /\ Len(out) \in Nat \ {0}
  BY <1>1
<1>3. \A i \in DOMAIN Tail(out) : i + 1 \in DOMAIN out /\ Tail(out)[i] = out[i + 1]
  BY <1>1, <1>2
<1>4. Head(out) \in Engine!Line /\ Head(out) = out[1] /\ 1 \in DOMAIN out
  BY <1>1, <1>2
<1>5. Len(Tail(out)) <= QueueSize
  BY <1>1, <1>2
<1> QED BY <1>2, <1>3, <1>4, <1>5

-----------------------------------------------------------------------------
(* The steps of the tasks *)

LEMMA SkipStep == ASSUME EngineSound, EngineInv, NEW t \in {"worker", "probe"}, Engine!SkipLine(t) PROVE EngineInv'
<1>1. out # <<>> /\ out' = Tail(out) /\ UNCHANGED <<svc, proc, pc, holds, asked, nth, answer>>
  BY DEF Engine!SkipLine
<1>2. EngineTypes'
  BY <1>1, EngineTailType, TypesNow, TypesAgain DEF EngineInv
<1>3. OnlyItsOwn'
  BY <1>1, EngineTailType DEF EngineInv, OnlyItsOwn, Own
<1> QED BY <1>1, <1>2, <1>3 DEF EngineInv, HookComesLast, ProbeHoldsItsCandidate, Engine!AnswerFitsQuestion,
      Engine!NothingLeftRunning

\* The process is started, and taken for the service's own.
LEMMA SpawnedStep == ASSUME EngineSound, EngineInv, NEW t \in {"worker", "probe"}, Engine!Spawned(t) PROVE EngineInv'
<1>1. EngineTypes /\ pc[t] = "exec" /\ UNCHANGED <<holds, asked, nth, answer>>
  BY DEF EngineInv, Engine!Spawned
<1>2. out' \in Seq(Engine!Line) /\ Len(out') <= QueueSize
  <2>1. out' = <<>> /\ QueueSize \in Nat
    BY <1>1, SpawnedType DEF EngineSound
  <2> QED BY <2>1
<1>3. CASE t = "worker"
  <2>1. /\ pc'["worker"] = "uci" /\ pc'["probe"] = pc["probe"] /\ pc'["hook"] = pc["hook"] /\ proc'.by = "worker"
        /\ proc' \in EngineRecord /\ proc'.gen # 0 /\ svc' \in EngineServices /\ pc' \in [Engine!Task -> Place]
        /\ svc'.shutdown = svc.shutdown /\ svc'.status = svc.status
    BY <1>1, <1>3, SpawnedType DEF Engine!Task
  <2>2. EngineTypes'
    BY <1>1, <1>2, <2>1, TypesNow, TypesAgain DEF WorkerPlace, Engine!Opening, Engine!Opened
  <2> QED BY <1>1, <2>1, <2>2 DEF EngineInv, HookComesLast, ProbeHoldsItsCandidate, OnlyItsOwn,
        Engine!AnswerFitsQuestion, Engine!NothingLeftRunning
<1>4. CASE t = "probe"
  <2>1. /\ pc'["probe"] = "uci" /\ pc'["worker"] = pc["worker"] /\ pc'["hook"] = pc["hook"] /\ proc'.by = "probe"
        /\ proc' \in EngineRecord /\ proc'.gen # 0 /\ svc' \in EngineServices /\ pc' \in [Engine!Task -> Place]
        /\ svc'.shutdown = svc.shutdown /\ svc'.status = svc.status /\ out' = <<>> /\ proc'.search = None
        /\ \A i \in DOMAIN proc'.todo : proc'.todo[i].kind # "go"
    BY <1>1, <1>4, SpawnedType DEF Engine!Task
  <2>2. EngineTypes'
    BY <1>1, <1>2, <2>1, TypesNow, TypesAgain DEF ProbePlace, Engine!Opening, Engine!Opened
  <2>3. OnlyItsOwn'
    BY <1>1, <1>4, <2>1 DEF EngineInv, OnlyItsOwn, Own
  <2> QED BY <1>1, <1>4, <2>1, <2>2, <2>3 DEF EngineInv, HookComesLast, ProbeHoldsItsCandidate, Engine!Opened,
        Engine!AnswerFitsQuestion, Engine!NothingLeftRunning
<1> QED BY <1>3, <1>4

\* A task that opens the engine is not one that waits for an answer; the warm-up the probe asks for is overdue.
LEMMA EngineOpenStep ==
    ASSUME EngineSound, EngineInv, NEW t \in {"worker", "probe"}, Engine!OpenUci(t) \/ Engine!OpenReady(t) PROVE EngineInv'
<1>1. /\ pc[t] \in Engine!Opened /\ pc'[t] \in Engine!Opened /\ \A u \in Engine!Task : u # t => pc'[u] = pc[u]
      /\ pc' \in [Engine!Task -> Place] /\ UNCHANGED <<svc, holds, asked, nth, answer>>
  <2>1. t \in Engine!Task /\ "ready" \in Place /\ "warm" \in Place /\ {"uci", "ready", "warm"} = Engine!Opened
    BY DEF Engine!Task, Place, WorkerPlace, Engine!Opening, Engine!Opened
  <2> QED BY <2>1, GotoType DEF EngineInv, Engine!OpenUci, Engine!OpenReady
<1>2. PICK cmd \in {Engine!Said("isready", None), Engine!Said("go", "warmup")} : proc' = Engine!Send(<<cmd>>)
  BY DEF Engine!OpenUci, Engine!OpenReady
<1> DEFINE next == <<cmd>>
<1>3. /\ next \in Seq(Engine!Command) /\ Len(next) = 1
      /\ next[1].kind = "go" => next[1].q = "warmup"
  BY <1>2 DEF Engine!Said, Engine!Command, Engine!Question
<1>4. /\ proc' \in EngineRecord
      /\ proc'.gen = proc.gen /\ proc'.by = proc.by /\ proc'.state = proc.state /\ proc'.search = proc.search
      /\ proc'.todo \in {proc.todo, proc.todo \o next}
  BY <1>2, <1>3, SendType DEF EngineInv
<1> HIDE DEF next
<1>5. /\ out' \in Seq(Engine!Line) /\ Len(out') <= QueueSize
      /\ \A i \in DOMAIN out' : \E j \in DOMAIN out : out'[i] = out[j]
  <2>1. CASE Engine!OpenUci(t)
    BY <2>1, EngineTailType DEF EngineInv, Engine!OpenUci, Engine!GotLine
  <2>2. CASE Engine!OpenReady(t)
    BY <2>2 DEF EngineSound, Engine!OpenReady
  <2> QED BY <2>1, <2>2
<1>6. /\ pc["worker"] \in Engine!Opened <=> pc'["worker"] \in Engine!Opened
      /\ pc["probe"] \in Engine!Opened <=> pc'["probe"] \in Engine!Opened
      /\ pc["worker"] \notin Engine!Opened => pc'["worker"] = pc["worker"]
      /\ pc["probe"] \notin Engine!Opened => pc'["probe"] = pc["probe"]
      /\ pc'["hook"] = pc["hook"]
  BY <1>1 DEF Engine!Task
<1>7. EngineTypes'
  BY <1>1, <1>4, <1>5, <1>6, TypesNow, TypesAgain DEF EngineInv, WorkerPlace, ProbePlace, Engine!Opening
<1>8. OnlyItsOwn'
  <2>1. SUFFICES ASSUME pc'["worker"] \in {"ask", "search"}
                 PROVE  /\ "warmup" \in asked.overdue
                        /\ \A i \in DOMAIN proc'.todo : proc'.todo[i].kind = "go" => proc'.todo[i].q \in Own
                        /\ proc.search \in Own \cup {None}
                        /\ \A i \in DOMAIN out' : out'[i].kind = "best" => out'[i].q \in Own
    BY <1>1, <1>4, <1>6 DEF OnlyItsOwn, Own, Engine!Opened
  <2>2. pc["worker"] \in {"ask", "search"} /\ pc["probe"] # "off"
    BY <1>1, <1>6, <2>1 DEF Engine!Opened
  <2>3. /\ "warmup" \in asked.overdue /\ "warmup" \in Own
        /\ \A i \in DOMAIN proc.todo : proc.todo[i].kind = "go" => proc.todo[i].q \in Own
        /\ proc.search \in Own \cup {None}
        /\ \A i \in DOMAIN out : out[i].kind = "best" => out[i].q \in Own
    BY <2>2 DEF EngineInv, OnlyItsOwn, Own
  <2>4. ASSUME NEW i \in DOMAIN proc'.todo, proc'.todo[i].kind = "go" PROVE proc'.todo[i].q \in Own
    <3>1. proc.todo \in Seq(Engine!Command)
      BY TypesNow DEF EngineInv, EngineRecord
    <3>2. (i \in DOMAIN proc.todo /\ proc'.todo[i] = proc.todo[i]) \/ proc'.todo[i] = next[1]
      <4>1. CASE proc'.todo = proc.todo
        BY <4>1
      <4>2. CASE proc'.todo = proc.todo \o next
        BY <1>3, <3>1, <4>2, OneMore
      <4> QED BY <1>4, <4>1, <4>2
    <3> QED BY <1>3, <2>3, <2>4, <3>2
  <2> QED BY <1>5, <2>3, <2>4
<1>9. HookComesLast' /\ ProbeHoldsItsCandidate'
  BY <1>1, <1>4, <1>6 DEF EngineInv, HookComesLast, ProbeHoldsItsCandidate, Engine!Opened
<1> QED BY <1>1, <1>4, <1>6, <1>7, <1>8, <1>9 DEF EngineInv, Engine!Opened, Engine!AnswerFitsQuestion,
      Engine!NothingLeftRunning

LEMMA OpenFailsStep ==
    ASSUME EngineSound, EngineInv, NEW t \in {"worker", "probe"}, Engine!OpenFails(t)
    PROVE  EngineInv'
<1> DEFINE place == IF t = "probe" THEN "reject" ELSE "failed"
<1>1. /\ pc[t] \in Engine!Opening /\ pc'[t] = place /\ pc' \in [Engine!Task -> Place]
      /\ \A u \in Engine!Task : u # t => pc'[u] = pc[u]
      /\ UNCHANGED <<proc, out, asked, nth, answer>>
  <2>1. t \in Engine!Task /\ place \in Place
    BY DEF Engine!Task, Place, WorkerPlace, ProbePlace
  <2> QED BY <2>1, GotoType DEF EngineInv, Engine!OpenFails
<1>2. /\ svc' \in EngineServices /\ svc'.status = svc.status /\ svc'.shutdown = svc.shutdown /\ holds' \in Holding
      /\ \A u \in Engine!Task : u # t => holds'[u] = holds[u]
      /\ proc.state # "none" => holds'[t] = proc.gen
  BY CloseBeginsType DEF EngineInv, Engine!OpenFails, Engine!Task
<1>3. EngineTypes'
  <2>1. pc'["worker"] \in WorkerPlace /\ pc'["probe"] \in ProbePlace /\ pc'["hook"] \in HookPlace
    BY <1>1, TypesNow DEF EngineInv, Engine!Task, WorkerPlace, ProbePlace
  <2> QED BY <1>1, <1>2, <2>1, TypesNow, TypesAgain DEF EngineInv
<1>4. CASE t = "worker"
  <2>1. /\ pc'["probe"] = pc["probe"] /\ pc'["hook"] = pc["hook"] /\ pc'["worker"] = "failed"
        /\ pc["worker"] \in Engine!Opening /\ holds'["probe"] = holds["probe"] /\ holds'["hook"] = holds["hook"]
    BY <1>1, <1>2, <1>4 DEF Engine!Task
  <2> QED BY <1>1, <1>2, <1>3, <2>1 DEF EngineInv, HookComesLast, ProbeHoldsItsCandidate, OnlyItsOwn, Own, Engine!Opening,
        Engine!Opened,
        Engine!AnswerFitsQuestion, Engine!NothingLeftRunning
<1>5. CASE t = "probe"
  <2>1. /\ pc'["worker"] = pc["worker"] /\ pc'["hook"] = pc["hook"] /\ pc'["probe"] = "reject"
        /\ pc["probe"] \in Engine!Opening /\ holds'["hook"] = holds["hook"]
        /\ proc.state # "none" => holds'["probe"] = proc.gen
    BY <1>1, <1>2, <1>5 DEF Engine!Task
  <2> QED BY <1>1, <1>2, <1>3, <2>1 DEF EngineInv, HookComesLast, ProbeHoldsItsCandidate, OnlyItsOwn, Own, Engine!Opening,
        Engine!Opened,
        Engine!AnswerFitsQuestion, Engine!NothingLeftRunning
<1> QED BY <1>4, <1>5

LEMMA ProbeReturnsType ==
    ASSUME EngineTypes, NEW status \in {svc.status, "missing_engine", "incompatible", "shutdown", "matched"},
           Engine!ProbeReturns(status)
    PROVE  /\ pc' \in [Engine!Task -> Place] /\ pc'["probe"] = "off" /\ nth' = 0
           /\ \A u \in Engine!Task : u # "probe" => pc'[u] = pc[u]
           /\ svc' \in EngineServices /\ svc'.status = status /\ svc'.shutdown = svc.shutdown
  BY TypesNow, GotoType DEF Engine!ProbeReturns, Engine!Task, Place, ProbePlace, EngineServices

LEMMA ProbeNextStep == ASSUME EngineSound, EngineInv, Engine!ProbeNext PROVE EngineInv'
<1>1. EngineTypes /\ pc["probe"] = "next" /\ UNCHANGED <<holds, asked, answer>> /\ 0 \in 0..Candidates
  BY DEF EngineInv, Engine!ProbeNext, EngineSound
<1>2. pc["worker"] # "cancelled" /\ ~svc.shutdown => proc.state = "none" \/ proc.by # "probe"
  BY <1>1 DEF EngineInv, ProbeHoldsItsCandidate, Engine!Opened
<1>3. (pc["worker"] \notin {"ask", "search"} \/ "warmup" \in asked.overdue) /\ pc["hook"] \notin {"close", "done"}
  BY <1>1 DEF EngineInv, OnlyItsOwn, HookComesLast
<1>4. /\ pc' \in [Engine!Task -> Place] /\ pc'["worker"] = pc["worker"] /\ pc'["hook"] = pc["hook"]
      /\ svc' \in EngineServices /\ svc'.shutdown = svc.shutdown /\ nth' \in 0..Candidates /\ UNCHANGED <<proc, out>>
      /\ \/ pc'["probe"] = "off" /\ svc'.status # "matched"
         \/ pc'["probe"] \in {"exec", "next"} /\ svc'.status = "probing"
  <2>1. CASE Engine!ProbeReturns("missing_engine") /\ UNCHANGED <<proc, out>>
    BY <1>1, <2>1, ProbeReturnsType DEF Engine!Task
  <2>2. CASE nth < Candidates /\ Engine!Spawn("probe") /\ nth' = nth + 1
    <3>1. nth \in 0..Candidates /\ Candidates \in Nat
      BY <1>1, TypesNow DEF EngineSound
    <3> QED BY <1>1, <2>2, <3>1, SpawnType DEF Engine!Task
  <2>3. CASE nth < Candidates /\ nth' = nth + 1 /\ svc' = [svc EXCEPT !.status = "probing"] /\ UNCHANGED <<proc, out, pc>>
    <3>1. nth \in 0..Candidates /\ Candidates \in Nat
      BY <1>1, TypesNow DEF EngineSound
    <3> QED BY <1>1, <2>3, <3>1, TypesNow DEF EngineServices
  <2>4. CASE Engine!ProbeReturns("incompatible") /\ UNCHANGED <<proc, out>>
    BY <1>1, <2>4, ProbeReturnsType DEF Engine!Task
  <2> QED BY <2>1, <2>2, <2>3, <2>4 DEF Engine!ProbeNext
<1>5. pc'["probe"] \in ProbePlace
  BY <1>4 DEF ProbePlace, Engine!Opening
<1>6. EngineTypes'
  BY <1>1, <1>4, <1>5, TypesNow, TypesAgain
<1>7. ProbeHoldsItsCandidate'
  BY <1>1, <1>2, <1>4 DEF ProbeHoldsItsCandidate
<1> QED BY <1>1, <1>3, <1>4, <1>6, <1>7 DEF EngineInv, HookComesLast, OnlyItsOwn, Own, Engine!AnswerFitsQuestion,
      Engine!NothingLeftRunning

LEMMA ProbeAcceptsStep == ASSUME EngineSound, EngineInv, Engine!ProbeAccepts PROVE EngineInv'
<1>1. /\ EngineTypes /\ pc["probe"] = "warm" /\ out # <<>> /\ out' = Tail(out)
      /\ UNCHANGED <<proc, asked, nth, answer>>
  BY DEF EngineInv, Engine!ProbeAccepts, Engine!GotLine
<1>2. /\ pc' \in [Engine!Task -> Place] /\ pc'["probe"] = "accept" /\ pc'["worker"] = pc["worker"] /\ pc'["hook"] = pc["hook"]
  <2>1. "probe" \in Engine!Task /\ "accept" \in Place
    BY DEF Engine!Task, Place, ProbePlace
  <2> QED BY <1>1, <2>1, GotoType DEF Engine!ProbeAccepts, Engine!Task
<1>3. /\ svc' \in EngineServices /\ svc'.status = svc.status /\ svc'.shutdown = svc.shutdown
      /\ holds' \in Holding /\ holds'["hook"] = holds["hook"]
      /\ proc.state # "none" => holds'["probe"] = proc.gen
  BY <1>1, CloseBeginsType DEF Engine!ProbeAccepts, Engine!Task
<1>4. EngineTypes'
  BY <1>1, <1>2, <1>3, EngineTailType, TypesNow, TypesAgain DEF ProbePlace
<1>5. OnlyItsOwn'
  BY <1>1, <1>2, EngineTailType DEF EngineInv, OnlyItsOwn, Own
<1> QED BY <1>1, <1>2, <1>3, <1>4, <1>5 DEF EngineInv, HookComesLast, ProbeHoldsItsCandidate, Engine!Opened,
      Engine!AnswerFitsQuestion, Engine!NothingLeftRunning

LEMMA ProbeClosedStep == ASSUME EngineSound, EngineInv, Engine!ProbeClosed PROVE EngineInv'
<1>1. /\ EngineTypes /\ pc["probe"] \in {"reject", "accept", "leave"} /\ UNCHANGED <<out, asked, answer>>
      /\ 0 \in 0..Candidates
  BY DEF EngineInv, Engine!ProbeClosed, EngineSound
<1>2. (pc["worker"] \notin {"ask", "search"} \/ "warmup" \in asked.overdue) /\ pc["hook"] \notin {"close", "done"}
  BY <1>1 DEF EngineInv, OnlyItsOwn, Own, HookComesLast
<1>3. CASE holds["probe"] # None
  <2>1. Engine!CloseEnds("probe") /\ UNCHANGED <<pc, nth>>
    BY <1>3 DEF Engine!ProbeClosed
  <2>2. /\ svc' \in EngineServices /\ svc'.status = svc.status /\ svc'.shutdown = svc.shutdown /\ holds' \in Holding
        /\ proc' = IF proc.gen = holds["probe"] THEN Engine!Gone ELSE proc
    BY <1>1, <2>1, CloseEndsType DEF Engine!Task
  <2>3. EngineTypes'
    BY <1>1, <2>1, <2>2, GoneType, TypesNow, TypesAgain
  <2>4. ProbeHoldsItsCandidate'
    BY <1>1, <2>1, <2>2, GoneType DEF EngineInv, ProbeHoldsItsCandidate, Engine!Opened
  <2> QED BY <1>1, <1>2, <2>1, <2>2, <2>3, <2>4, GoneType DEF EngineInv, HookComesLast, OnlyItsOwn, Own, Engine!AnswerFitsQuestion,
        Engine!NothingLeftRunning
<1>4. CASE holds["probe"] = None
  <2>1. UNCHANGED <<proc, holds>>
    BY <1>4 DEF Engine!ProbeClosed
  <2>2. pc["worker"] # "cancelled" /\ ~svc.shutdown => proc.state = "none" \/ proc.by # "probe"
    <3>1. proc.state # "none" => proc.gen \in 1..4
      BY <1>1, TypesNow DEF EngineRecord
    <3> QED BY <1>1, <1>4, <3>1 DEF EngineInv, EngineSound, ProbeHoldsItsCandidate, Engine!Opened
  <2>3. /\ pc' \in [Engine!Task -> Place] /\ pc'["worker"] = pc["worker"] /\ pc'["hook"] = pc["hook"]
        /\ svc' \in EngineServices /\ svc'.shutdown = svc.shutdown /\ nth' \in 0..Candidates
        /\ \/ pc'["probe"] = "off"
           \/ pc'["probe"] = "next" /\ svc' = svc
    <3>1. ASSUME NEW status \in {svc.status, "shutdown", "matched"}, Engine!ProbeReturns(status)
          PROVE  /\ pc' \in [Engine!Task -> Place] /\ pc'["worker"] = pc["worker"] /\ pc'["hook"] = pc["hook"]
                 /\ svc' \in EngineServices /\ svc'.shutdown = svc.shutdown /\ nth' \in 0..Candidates /\ pc'["probe"] = "off"
      BY <1>1, <3>1, ProbeReturnsType DEF Engine!Task
    <3>2. CASE Engine!Goto("probe", "next") /\ UNCHANGED <<svc, nth>>
      <4>1. "probe" \in Engine!Task /\ "next" \in Place
        BY DEF Engine!Task, Place, ProbePlace
      <4> QED BY <1>1, <3>2, <4>1, GotoType, TypesNow DEF Engine!Task
    <3> QED BY <1>4, <3>1, <3>2 DEF Engine!ProbeClosed
  <2>4. EngineTypes'
    BY <1>1, <2>1, <2>3, TypesNow, TypesAgain DEF ProbePlace
  <2>5. ProbeHoldsItsCandidate'
    BY <1>1, <2>1, <2>2, <2>3 DEF EngineInv, ProbeHoldsItsCandidate, Engine!Opened
  <2> QED BY <1>1, <1>2, <2>1, <2>3, <2>4, <2>5 DEF EngineInv, HookComesLast, OnlyItsOwn, Own, Engine!AnswerFitsQuestion,
        Engine!NothingLeftRunning
<1> QED BY <1>3, <1>4

\* What the engine has to do when a question is asked is overdue.
LEMMA AskType ==
    ASSUME EngineSound, EngineTypes, NEW f \in Fen \cup {None}, Engine!Ask(f), Engine!Alive
    PROVE  /\ out' = <<>> /\ out' \in Seq(Engine!Line) /\ Len(out') <= QueueSize
           /\ proc' \in EngineRecord /\ proc'.gen = proc.gen /\ proc'.by = proc.by /\ proc'.state = proc.state
           /\ asked' \in [fen : Fen \cup {None}, overdue : SUBSET (Engine!Question \cup {None})]
           /\ "warmup" \notin asked'.overdue => pc["probe"] = "off"
           /\ proc'.search \in asked'.overdue \cup {None}
           /\ \A i \in DOMAIN proc'.todo : proc'.todo[i].kind = "go" => proc'.todo[i].q \in asked'.overdue
<1>1. proc \in EngineRecord /\ proc.todo \in Seq(Engine!Command) /\ proc.search \in Engine!Question \cup {None}
  BY TypesNow DEF EngineRecord
<1> DEFINE poll == <<Engine!Said("isready", None)>>
<1>2. poll \in Seq(Engine!Command) /\ Len(poll) = 1 /\ poll[1].kind = "isready"
  BY DEF Engine!Said, Engine!Command
<1>3. /\ proc' \in EngineRecord /\ proc'.gen = proc.gen /\ proc'.by = proc.by /\ proc'.state = proc.state
      /\ proc'.search = proc.search /\ proc'.todo = proc.todo \o poll
  BY <1>2, SendType DEF Engine!Ask
<1> HIDE DEF poll
<1>4. asked' = [fen |-> f, overdue |-> Engine!Outstanding]
  BY DEF Engine!Ask
<1>5. Engine!Outstanding \subseteq Engine!Question \cup {None}
  <2>1. \A i \in DOMAIN proc.todo : proc.todo[i].q \in Engine!Question \cup {None}
    <3>1. \A i \in DOMAIN proc.todo : proc.todo[i] \in Engine!Command
      BY <1>1
    <3>2. \A c \in Engine!Command : c.q \in Engine!Question \cup {None}
      BY DEF Engine!Command
    <3> QED BY <3>1, <3>2
  <2>2. "warmup" \in Engine!Question
    BY DEF Engine!Question
  <2> QED BY <1>1, <2>1, <2>2 DEF Engine!Outstanding
<1>6. ASSUME NEW i \in DOMAIN proc'.todo, proc'.todo[i].kind = "go" PROVE proc'.todo[i].q \in Engine!Outstanding
  <2>1. (i \in DOMAIN proc.todo /\ proc'.todo[i] = proc.todo[i]) \/ proc'.todo[i] = poll[1]
    BY <1>1, <1>2, <1>3, OneMore
  <2> QED BY <1>2, <1>6, <2>1 DEF Engine!Outstanding
<1>7. /\ "warmup" \notin Engine!Outstanding => pc["probe"] = "off"
      /\ proc.search \in Engine!Outstanding \cup {None}
  BY DEF Engine!Outstanding
<1>8. out' = <<>> /\ out' \in Seq(Engine!Line) /\ Len(out') <= QueueSize
  BY DEF Engine!Ask, EngineSound
<1>9. asked'.overdue = Engine!Outstanding /\ asked' \in [fen : Fen \cup {None}, overdue : SUBSET (Engine!Question \cup {None})]
  BY <1>4, <1>5
<1> QED BY <1>3, <1>6, <1>7, <1>8, <1>9

LEMMA ComputeStep == ASSUME EngineSound, EngineInv, NEW f \in Fen, Engine!Compute(f) PROVE EngineInv'
<1>1. EngineTypes /\ pc["worker"] = "idle" /\ answer' = Engine!NoAnswer /\ nth' = nth
  BY DEF EngineInv, Engine!Compute
<1>2. pc["hook"] = "off"
  BY DEF Engine!Compute
<1>3. answer' \in [fen : Fen \cup {None}, best : Engine!Question \cup {None}, overdue : SUBSET (Engine!Question \cup {None})] /\ answer'.best = None
  BY <1>1 DEF Engine!NoAnswer
<1>4. "worker" \in Engine!Task /\ "ask" \in Place /\ "recycle" \in Place
  BY DEF Engine!Task, Place, WorkerPlace
<1>5. CASE Engine!Alive /\ ~svc.error
  <2>1. Engine!Ask(f) /\ Engine!Goto("worker", "ask") /\ UNCHANGED <<svc, holds>> /\ Engine!Alive
    BY <1>5 DEF Engine!Compute
  <2>2. pc' \in [Engine!Task -> Place] /\ pc'["worker"] = "ask" /\ pc'["probe"] = pc["probe"] /\ pc'["hook"] = pc["hook"]
    BY <1>1, <1>4, <2>1, GotoType DEF Engine!Task
  <2>3. EngineTypes'
    BY <1>1, <1>3, <2>1, <2>2, AskType, TypesNow, TypesAgain DEF WorkerPlace
  <2>4. OnlyItsOwn'
    BY <1>1, <2>1, <2>2, AskType DEF OnlyItsOwn, Own
  <2>5. ProbeHoldsItsCandidate'
    BY <1>1, <2>1, <2>2, AskType DEF EngineInv, ProbeHoldsItsCandidate
  <2> QED BY <1>2, <1>3, <2>2, <2>3, <2>4, <2>5 DEF EngineInv, HookComesLast, Engine!AnswerFitsQuestion,
        Engine!NothingLeftRunning
<1>6. CASE ~(Engine!Alive /\ ~svc.error)
  <2>1. /\ Engine!CloseBegins("worker") /\ Engine!Goto("worker", "recycle")
        /\ asked' = [fen |-> f, overdue |-> {}] /\ UNCHANGED <<proc, out>>
    BY <1>6 DEF Engine!Compute
  <2>2. pc' \in [Engine!Task -> Place] /\ pc'["worker"] = "recycle" /\ pc'["probe"] = pc["probe"] /\ pc'["hook"] = pc["hook"]
    BY <1>1, <1>4, <2>1, GotoType DEF Engine!Task
  <2>3. /\ svc' \in EngineServices /\ svc'.status = svc.status /\ svc'.shutdown = svc.shutdown
        /\ holds' \in Holding /\ holds'["probe"] = holds["probe"]
    BY <1>1, <1>4, <2>1, CloseBeginsType DEF Engine!Task
  <2>4. asked' \in [fen : Fen \cup {None}, overdue : SUBSET (Engine!Question \cup {None})]
    BY <2>1
  <2>5. EngineTypes'
    BY <1>1, <1>3, <2>1, <2>2, <2>3, <2>4, TypesNow, TypesAgain DEF WorkerPlace
  <2> QED BY <1>1, <1>2, <1>3, <2>1, <2>2, <2>3, <2>5 DEF EngineInv, HookComesLast, ProbeHoldsItsCandidate,
        OnlyItsOwn, Own,
        Engine!AnswerFitsQuestion, Engine!NothingLeftRunning
<1> QED BY <1>5, <1>6

LEMMA WorkerClosedStep == ASSUME EngineSound, EngineInv, Engine!WorkerClosed PROVE EngineInv'
<1>1. /\ EngineTypes /\ pc["worker"] \in {"recycle", "failed"} /\ UNCHANGED <<out, asked, nth, answer>>
      /\ Engine!FinishClose("worker")
  BY DEF EngineInv, Engine!WorkerClosed
<1>2. /\ pc' \in [Engine!Task -> Place] /\ pc'["worker"] \in {"start", "idle"} /\ pc'["probe"] = pc["probe"]
      /\ pc'["hook"] = pc["hook"]
  <2>1. "worker" \in Engine!Task /\ "start" \in Place /\ "idle" \in Place
    BY DEF Engine!Task, Place, WorkerPlace
  <2> QED BY <1>1, <2>1, GotoType DEF Engine!WorkerClosed, Engine!Task
<1>3. /\ svc' \in EngineServices /\ svc'.status = svc.status /\ svc'.shutdown = svc.shutdown
      /\ holds' \in Holding /\ holds'["probe"] = holds["probe"]
      /\ proc' \in {Engine!Gone, proc}
  BY <1>1, CloseEndsType, TypesNow DEF Engine!FinishClose, Engine!Task
<1>4. EngineTypes'
  BY <1>1, <1>2, <1>3, GoneType, TypesNow, TypesAgain DEF WorkerPlace
<1> QED BY <1>1, <1>2, <1>3, <1>4, GoneType DEF EngineInv, HookComesLast, ProbeHoldsItsCandidate, OnlyItsOwn, Own,
      Engine!AnswerFitsQuestion, Engine!NothingLeftRunning

\* start() has returned.
LEMMA StartedType ==
    ASSUME EngineSound, EngineTypes, Engine!Started, pc["worker"] # "cancelled"
    PROVE  /\ UNCHANGED <<svc, nth>> /\ proc' \in EngineRecord /\ out' \in Seq(Engine!Line) /\ Len(out') <= QueueSize
           /\ proc'.gen = proc.gen /\ proc'.by = proc.by /\ proc'.state = proc.state
           /\ asked' \in [fen : Fen \cup {None}, overdue : SUBSET (Engine!Question \cup {None})]
           /\ pc' \in [Engine!Task -> Place] /\ pc'["probe"] = pc["probe"] /\ pc'["hook"] = pc["hook"]
           /\ \/ pc'["worker"] = "idle"
              \/ /\ pc'["worker"] = "ask" /\ out' = <<>>
                 /\ "warmup" \notin asked'.overdue => pc["probe"] = "off"
                 /\ proc'.search \in asked'.overdue \cup {None}
                 /\ \A i \in DOMAIN proc'.todo : proc'.todo[i].kind = "go" => proc'.todo[i].q \in asked'.overdue
<1>1. "worker" \in Engine!Task /\ "ask" \in Place /\ "idle" \in Place /\ asked.fen \in Fen \cup {None}
  BY TypesNow DEF Engine!Task, Place, WorkerPlace
<1>2. CASE Engine!Alive
  BY <1>1, <1>2, AskType, GotoType DEF Engine!Started, Engine!Task
<1>3. CASE ~Engine!Alive
  BY <1>1, <1>3, GotoType, TypesNow DEF Engine!Started, Engine!Task
<1> QED BY <1>2, <1>3

LEMMA EngineStartedStep ==
    ASSUME EngineSound, EngineInv, Engine!Started, UNCHANGED <<holds, answer>>, pc["worker"] # "cancelled" PROVE EngineInv'
<1>1. EngineTypes
  BY DEF EngineInv
<1>2. EngineTypes'
  BY <1>1, StartedType, TypesNow, TypesAgain DEF WorkerPlace
<1>3. OnlyItsOwn'
  BY <1>1, StartedType DEF OnlyItsOwn, Own
<1>4. ProbeHoldsItsCandidate'
  BY <1>1, StartedType DEF EngineInv, ProbeHoldsItsCandidate
<1> QED BY <1>1, <1>2, <1>3, <1>4, StartedType DEF EngineInv, HookComesLast, Engine!AnswerFitsQuestion,
      Engine!NothingLeftRunning

LEMMA WorkerSpawnsStep ==
    ASSUME EngineSound, EngineInv, Engine!Spawn("worker"), UNCHANGED <<asked, nth, holds, answer>>, pc["worker"] # "cancelled"
    PROVE  EngineInv'
<1>1. EngineTypes
  BY DEF EngineInv
<1>2. /\ svc' \in EngineServices /\ svc'.status = svc.status /\ svc'.shutdown = svc.shutdown /\ UNCHANGED <<proc, out>>
      /\ pc' \in [Engine!Task -> Place] /\ pc'["worker"] = "exec" /\ pc'["probe"] = pc["probe"] /\ pc'["hook"] = pc["hook"]
  BY <1>1, SpawnType DEF Engine!Task
<1>3. EngineTypes'
  BY <1>1, <1>2, TypesNow, TypesAgain DEF WorkerPlace, Engine!Opening
<1> QED BY <1>1, <1>2, <1>3 DEF EngineInv, HookComesLast, ProbeHoldsItsCandidate, OnlyItsOwn,
      Engine!AnswerFitsQuestion, Engine!NothingLeftRunning

LEMMA WorkerStartStep == ASSUME EngineSound, EngineInv, Engine!WorkerStart PROVE EngineInv'
<1>1. EngineTypes /\ pc["worker"] = "start" /\ UNCHANGED <<holds, answer>>
  BY DEF EngineInv, Engine!WorkerStart
<1>2. CASE Engine!Started
  BY <1>1, <1>2, EngineStartedStep
<1>3. CASE Engine!Spawn("worker") /\ UNCHANGED <<asked, nth>>
  BY <1>1, <1>3, WorkerSpawnsStep
<1>4. CASE /\ svc.status # "matched" /\ ~svc.shutdown /\ UNCHANGED <<svc, proc, out, asked, nth>>
           /\ pc' = [pc EXCEPT !["worker"] = "probing", !["probe"] = IF @ = "off" THEN "next" ELSE @]
  <2>1. /\ pc' \in [Engine!Task -> Place] /\ pc'["worker"] = "probing" /\ pc'["hook"] = pc["hook"]
        /\ pc'["probe"] = IF pc["probe"] = "off" THEN "next" ELSE pc["probe"]
    <3>1. pc \in [Engine!Task -> Place] /\ "probing" \in Place /\ "next" \in Place
      BY <1>1, TypesNow DEF Place, WorkerPlace, ProbePlace
    <3> QED BY <1>4, <3>1 DEF Engine!Task
  <2>2. EngineTypes'
    BY <1>1, <1>4, <2>1, TypesNow, TypesAgain DEF WorkerPlace, ProbePlace
  <2>3. ProbeHoldsItsCandidate'
    BY <1>1, <1>4, <2>1 DEF EngineInv, ProbeHoldsItsCandidate, Engine!Opened
  <2> QED BY <1>1, <1>4, <2>1, <2>2, <2>3 DEF EngineInv, HookComesLast, OnlyItsOwn, Own, Engine!AnswerFitsQuestion,
        Engine!NothingLeftRunning
<1> QED BY <1>2, <1>3, <1>4 DEF Engine!WorkerStart

LEMMA WorkerGoesStep == ASSUME EngineSound, EngineInv, Engine!WorkerProbed \/ Engine!WorkerOpened PROVE EngineInv'
<1>1. /\ pc["worker"] # "cancelled" /\ UNCHANGED <<holds, answer>>
      /\ Engine!Started \/ (Engine!Spawn("worker") /\ UNCHANGED <<asked, nth>>)
  BY DEF Engine!WorkerProbed, Engine!WorkerOpened
<1> QED BY <1>1, EngineStartedStep, WorkerSpawnsStep

\* The question is sent, and with it one search for it.
LEMMA AskGoesOnStep == ASSUME EngineSound, EngineInv, Engine!AskGoesOn PROVE EngineInv'
<1>1. EngineTypes /\ pc["worker"] = "ask" /\ UNCHANGED <<svc, holds, asked, nth, answer>>
  BY DEF EngineInv, Engine!AskGoesOn
<1>2. pc' \in [Engine!Task -> Place] /\ pc'["worker"] = "search" /\ pc'["probe"] = pc["probe"] /\ pc'["hook"] = pc["hook"]
  <2>1. "worker" \in Engine!Task /\ "search" \in Place
    BY DEF Engine!Task, Place, WorkerPlace
  <2> QED BY <1>1, <2>1, GotoType DEF Engine!AskGoesOn, Engine!Task
<1>3. /\ out' \in Seq(Engine!Line) /\ Len(out') <= QueueSize
      /\ \A i \in DOMAIN out' : \E j \in DOMAIN out : out'[i] = out[j]
  <2>1. CASE Engine!GotLine("worker") /\ out' = Tail(out)
    BY <1>1, <2>1, EngineTailType DEF Engine!GotLine
  <2>2. CASE UNCHANGED out
    BY <1>1, <2>2, TypesNow
  <2> QED BY <2>1, <2>2 DEF Engine!AskGoesOn
<1> DEFINE go == <<Engine!Said("go", asked.fen)>>
<1>4. go \in Seq(Engine!Command) /\ Len(go) = 1 /\ go[1].kind = "go" /\ go[1].q = asked.fen
  BY <1>1, TypesNow DEF Engine!Said, Engine!Command, Engine!Question
<1>5. /\ proc' \in EngineRecord /\ proc'.gen = proc.gen /\ proc'.by = proc.by /\ proc'.state = proc.state
      /\ proc'.search = proc.search /\ proc'.todo \in {proc.todo, proc.todo \o go}
  BY <1>1, <1>4, SendType DEF Engine!AskGoesOn
<1> HIDE DEF go
<1>6. EngineTypes'
  BY <1>1, <1>2, <1>3, <1>5, TypesNow, TypesAgain DEF WorkerPlace
<1>7. OnlyItsOwn'
  <2>1. SUFFICES /\ "warmup" \notin asked.overdue => pc["probe"] = "off"
                 /\ \A i \in DOMAIN proc'.todo :
                      proc'.todo[i].kind = "go" => proc'.todo[i].q \in asked.overdue \cup {asked.fen}
                 /\ proc'.search \in asked.overdue \cup {None}
                 /\ \A i \in DOMAIN out' : out'[i].kind = "best" => out'[i].q \in asked.overdue
    BY <1>1, <1>2 DEF OnlyItsOwn, Own
  <2>2. /\ "warmup" \notin asked.overdue => pc["probe"] = "off"
        /\ \A i \in DOMAIN proc.todo : proc.todo[i].kind = "go" => proc.todo[i].q \in asked.overdue
        /\ proc.search \in asked.overdue \cup {None}
        /\ \A i \in DOMAIN out : out[i].kind = "best" => out[i].q \in asked.overdue
    BY <1>1 DEF EngineInv, OnlyItsOwn, Own
  <2>3. ASSUME NEW i \in DOMAIN proc'.todo, proc'.todo[i].kind = "go"
        PROVE  proc'.todo[i].q \in asked.overdue \cup {asked.fen}
    <3>1. proc.todo \in Seq(Engine!Command)
      BY <1>1, TypesNow DEF EngineRecord
    <3>2. (i \in DOMAIN proc.todo /\ proc'.todo[i] = proc.todo[i]) \/ proc'.todo[i] = go[1]
      <4>1. CASE proc'.todo = proc.todo
        BY <4>1
      <4>2. CASE proc'.todo = proc.todo \o go
        BY <1>4, <3>1, <4>2, OneMore
      <4> QED BY <1>5, <4>1, <4>2
    <3> QED BY <1>4, <2>2, <2>3, <3>2
  <2> QED BY <1>3, <1>5, <2>2, <2>3
<1> QED BY <1>1, <1>2, <1>5, <1>6, <1>7 DEF EngineInv, HookComesLast, ProbeHoldsItsCandidate,
      Engine!AnswerFitsQuestion,
      Engine!NothingLeftRunning

LEMMA SearchLineStep == ASSUME EngineSound, EngineInv, Engine!SearchLine PROVE EngineInv'
<1>1. /\ EngineTypes /\ pc["worker"] = "search" /\ out # <<>> /\ out' = Tail(out)
      /\ UNCHANGED <<svc, proc, holds, nth>>
  BY DEF EngineInv, Engine!SearchLine
<1>2. \/ UNCHANGED <<asked, answer, pc>>
      \/ \E best \in {Head(out).q, None} : (best = None \/ Head(out).kind = "best") /\ Engine!Publish(best)
  BY DEF Engine!SearchLine
<1>3. CASE UNCHANGED <<asked, answer, pc>>
  <2>1. EngineTypes'
    BY <1>1, <1>3, EngineTailType, TypesNow, TypesAgain
  <2>2. OnlyItsOwn'
    BY <1>1, <1>3, EngineTailType DEF EngineInv, OnlyItsOwn, Own
  <2> QED BY <1>1, <1>3, <2>1, <2>2 DEF EngineInv, HookComesLast, ProbeHoldsItsCandidate, Engine!AnswerFitsQuestion,
        Engine!NothingLeftRunning
<1>4. CASE \E best \in {Head(out).q, None} : (best = None \/ Head(out).kind = "best") /\ Engine!Publish(best)
  <2>1. PICK best \in {Head(out).q, None} : (best = None \/ Head(out).kind = "best") /\ Engine!Publish(best)
    BY <1>4
  <2>2. best \in Engine!Question \cup {None} /\ best \in {None, asked.fen} \cup asked.overdue
    <3>1. Head(out) \in Engine!Line /\ Head(out) = out[1] /\ 1 \in DOMAIN out
      BY <1>1, EngineTailType
    <3>2. out[1].kind = "best" => out[1].q \in asked.overdue \cup {asked.fen}
      BY <1>1, <3>1 DEF EngineInv, OnlyItsOwn, Own
    <3> QED BY <2>1, <3>1, <3>2 DEF Engine!Line
  <2>3. pc' \in [Engine!Task -> Place] /\ pc'["worker"] = "idle" /\ pc'["probe"] = pc["probe"] /\ pc'["hook"] = pc["hook"]
    <3>1. "worker" \in Engine!Task /\ "idle" \in Place
      BY DEF Engine!Task, Place, WorkerPlace
    <3> QED BY <1>1, <2>1, <3>1, GotoType DEF Engine!Publish, Engine!Task
  <2>4. answer' = [fen |-> asked.fen, best |-> best, overdue |-> asked.overdue] /\ asked' = Engine!NoQuestion
    BY <2>1 DEF Engine!Publish
  <2>5. /\ answer' \in [fen : Fen \cup {None}, best : Engine!Question \cup {None}, overdue : SUBSET (Engine!Question \cup {None})]
        /\ asked' \in [fen : Fen \cup {None}, overdue : SUBSET (Engine!Question \cup {None})]
    BY <1>1, <2>2, <2>4, TypesNow DEF Engine!NoQuestion
  <2>6. EngineTypes'
    BY <1>1, <2>3, <2>5, EngineTailType, TypesNow, TypesAgain DEF WorkerPlace
  <2> QED BY <1>1, <2>2, <2>3, <2>4, <2>6 DEF EngineInv, HookComesLast, ProbeHoldsItsCandidate, OnlyItsOwn, Own,
        Engine!AnswerFitsQuestion, Engine!NothingLeftRunning
<1> QED BY <1>2, <1>3, <1>4

LEMMA SearchStopStep == ASSUME EngineSound, EngineInv, Engine!SearchStop PROVE EngineInv'
<1>1. /\ EngineTypes /\ pc["worker"] = "search"
      /\ UNCHANGED <<svc, out, pc, holds, asked, nth, answer>>
  BY DEF EngineInv, Engine!SearchStop
<1> DEFINE stop == <<Engine!Said("stop", None)>>
<1>2. stop \in Seq(Engine!Command) /\ Len(stop) = 1 /\ stop[1].kind = "stop"
  BY DEF Engine!Said, Engine!Command
<1>3. /\ proc' \in EngineRecord /\ proc'.gen = proc.gen /\ proc'.by = proc.by /\ proc'.state = proc.state
      /\ proc'.search = proc.search /\ (proc'.todo = proc.todo \/ proc'.todo = proc.todo \o stop)
  BY <1>1, <1>2, SendType DEF Engine!SearchStop
<1> HIDE DEF stop
<1>4. EngineTypes'
  BY <1>1, <1>3, TypesNow, TypesAgain
<1>5. \A i \in DOMAIN proc'.todo : (\E j \in DOMAIN proc.todo : proc'.todo[i] = proc.todo[j]) \/ proc'.todo[i].kind = "stop"
  <2>1. proc.todo \in Seq(Engine!Command)
    BY <1>1, TypesNow DEF EngineRecord
  <2>2. CASE proc'.todo = proc.todo
    BY <2>2
  <2>3. CASE proc'.todo = proc.todo \o stop
    <3> SUFFICES ASSUME NEW i \in DOMAIN proc'.todo
                 PROVE  (\E j \in DOMAIN proc.todo : proc'.todo[i] = proc.todo[j]) \/ proc'.todo[i].kind = "stop"
      OBVIOUS
    <3>1. (i \in DOMAIN proc.todo /\ proc'.todo[i] = proc.todo[i]) \/ proc'.todo[i] = stop[1]
      BY <1>2, <2>1, <2>3, OneMore
    <3> QED BY <1>2, <3>1
  <2> QED BY <1>3, <2>2, <2>3
<1>6. OnlyItsOwn'
  BY <1>1, <1>3, <1>5 DEF EngineInv, OnlyItsOwn, Own
<1> QED BY <1>1, <1>3, <1>4, <1>6 DEF EngineInv, HookComesLast, ProbeHoldsItsCandidate, Engine!AnswerFitsQuestion,
      Engine!NothingLeftRunning

LEMMA GivesUpStep == ASSUME EngineSound, EngineInv, Engine!SearchGivesUp PROVE EngineInv'
<1>1. EngineTypes /\ pc["worker"] = "search" /\ UNCHANGED <<svc, proc, out, holds, nth>>
  BY DEF EngineInv, Engine!SearchGivesUp
<1>2. pc' \in [Engine!Task -> Place] /\ pc'["worker"] = "idle" /\ pc'["probe"] = pc["probe"] /\ pc'["hook"] = pc["hook"]
  <2>1. "worker" \in Engine!Task /\ "idle" \in Place
    BY DEF Engine!Task, Place, WorkerPlace
  <2> QED BY <1>1, <2>1, GotoType DEF Engine!SearchGivesUp, Engine!Publish, Engine!Task
<1>3. answer' = [fen |-> asked.fen, best |-> None, overdue |-> asked.overdue] /\ asked' = Engine!NoQuestion
  BY DEF Engine!SearchGivesUp, Engine!Publish
<1>4. /\ answer' \in [fen : Fen \cup {None}, best : Engine!Question \cup {None}, overdue : SUBSET (Engine!Question \cup {None})]
      /\ asked' \in [fen : Fen \cup {None}, overdue : SUBSET (Engine!Question \cup {None})]
  BY <1>1, <1>3, TypesNow DEF Engine!NoQuestion
<1>5. EngineTypes'
  BY <1>1, <1>2, <1>4, TypesNow, TypesAgain DEF WorkerPlace
<1> QED BY <1>1, <1>2, <1>3, <1>5 DEF EngineInv, HookComesLast, ProbeHoldsItsCandidate, OnlyItsOwn, Own,
      Engine!AnswerFitsQuestion,
      Engine!NothingLeftRunning

\* The hook.
LEMMA HookStopsStep == ASSUME EngineSound, EngineInv, Engine!HookStopsWorker PROVE EngineInv'
<1>1. /\ EngineTypes /\ pc["hook"] = "off" /\ UNCHANGED <<proc, out, asked, answer>> /\ pc \in [Engine!Task -> Place]
      /\ {"worker", "cancelled", "leave", "off"} \subseteq Place /\ 0 \in 0..Candidates /\ "hook" \in Engine!Task
  BY TypesNow DEF EngineInv, Engine!HookStopsWorker, Place, WorkerPlace, ProbePlace, HookPlace, EngineSound, Engine!Task
<1>2. /\ pc' \in [Engine!Task -> Place] /\ pc'["hook"] = "worker"
      /\ svc' \in EngineServices /\ svc'.status = svc.status /\ svc'.shutdown = svc.shutdown
      /\ holds' \in Holding /\ nth' \in 0..Candidates
      /\ \/ pc'["worker"] = pc["worker"] /\ pc'["probe"] = pc["probe"] /\ holds' = holds
         \/ /\ pc'["worker"] = "cancelled"
            /\ pc'["probe"] \in {pc["probe"], "off"} \/ (pc["probe"] \in Engine!Opening /\ pc'["probe"] = "leave")
  <2>1. CASE Engine!Goto("hook", "worker") /\ UNCHANGED <<svc, holds, nth>>
    BY <1>1, <2>1, GotoType, TypesNow DEF Engine!Task
  <2>2. CASE Engine!ProbeCut("worker", "cancelled")
    <3>1. CASE pc["probe"] \in Engine!Opening
      <4>1. /\ pc' = [pc EXCEPT !["hook"] = "worker", !["worker"] = "cancelled", !["probe"] = "leave"]
            /\ Engine!CloseBegins("probe") /\ UNCHANGED nth
        BY <2>2, <3>1 DEF Engine!ProbeCut
      <4> QED BY <1>1, <3>1, <4>1, CloseBeginsType, TypesNow DEF Engine!Task
    <3>2. CASE pc["probe"] \notin Engine!Opening
      <4>1. /\ pc' = [pc EXCEPT !["hook"] = "worker", !["worker"] = "cancelled", !["probe"] = "off"]
            /\ Engine!CloseCut("probe") /\ nth' = 0
        BY <2>2, <3>2 DEF Engine!ProbeCut
      <4> QED BY <1>1, <4>1, CloseCutType DEF Engine!Task
    <3> QED BY <3>1, <3>2
  <2>3. CASE /\ pc' = [pc EXCEPT !["hook"] = "worker", !["worker"] = "cancelled"]
             /\ Engine!CloseCut("worker") /\ UNCHANGED nth
    BY <1>1, <2>3, CloseCutType, TypesNow DEF Engine!Task
  <2> QED BY <2>1, <2>2, <2>3 DEF Engine!HookStopsWorker
<1>3. EngineTypes'
  <2>1. pc'["worker"] \in WorkerPlace /\ pc'["probe"] \in ProbePlace /\ pc'["hook"] \in HookPlace
    BY <1>1, <1>2, TypesNow DEF WorkerPlace, ProbePlace, HookPlace
  <2> QED BY <1>1, <1>2, <2>1, TypesNow, TypesAgain
<1>4. ProbeHoldsItsCandidate'
  BY <1>1, <1>2 DEF EngineInv, ProbeHoldsItsCandidate, Engine!Opening, Engine!Opened
<1>5. OnlyItsOwn'
  BY <1>1, <1>2 DEF EngineInv, OnlyItsOwn, Own
<1> QED BY <1>1, <1>2, <1>3, <1>4, <1>5 DEF EngineInv, HookComesLast, Engine!AnswerFitsQuestion,
      Engine!NothingLeftRunning

LEMMA HookRequestsStep == ASSUME EngineSound, EngineInv, Engine!HookRequestsShutdown PROVE EngineInv'
<1>1. /\ EngineTypes /\ pc["hook"] = "worker" /\ UNCHANGED <<proc, out, asked, answer>> /\ pc \in [Engine!Task -> Place]
      /\ {"await", "leave", "off"} \subseteq Place /\ 0 \in 0..Candidates /\ "hook" \in Engine!Task
  BY TypesNow DEF EngineInv, Engine!HookRequestsShutdown, Place, WorkerPlace, ProbePlace, HookPlace, EngineSound, Engine!Task
<1>2. /\ pc' \in [Engine!Task -> Place] /\ pc'["hook"] = "await" /\ pc'["worker"] = pc["worker"]
      /\ pc'["probe"] \in {"off", pc["probe"]} \/ (pc["probe"] \in Engine!Opening /\ pc'["probe"] = "leave")
      /\ svc' \in EngineServices /\ svc'.status = svc.status /\ svc'.shutdown
      /\ holds' \in Holding /\ nth' \in 0..Candidates
  <2>1. CASE svc' = [svc EXCEPT !.shutdown = TRUE] /\ Engine!Goto("hook", "await") /\ UNCHANGED <<holds, nth>>
    BY <1>1, <2>1, GotoType, TypesNow DEF Engine!Task, EngineServices
  <2>2. CASE /\ pc["probe"] \in Engine!Opening
             /\ pc' = [pc EXCEPT !["hook"] = "await", !["probe"] = "leave"]
             /\ holds' = [holds EXCEPT !["probe"] = IF proc.state = "none" THEN None ELSE proc.gen]
             /\ svc' = [svc EXCEPT !.shutdown = TRUE, !.running = FALSE, !.closing = (proc.state # "none")]
             /\ UNCHANGED nth
    <3> DEFINE busy == proc.state # "none"
               held == IF busy THEN proc.gen ELSE None
    <3>1. busy \in BOOLEAN /\ held \in 1..4 \cup {None}
      BY <1>1, TypesNow DEF EngineRecord
    <3>2. /\ holds' = [holds EXCEPT !["probe"] = held]
          /\ svc' = [svc EXCEPT !.shutdown = TRUE, !.running = FALSE, !.closing = busy]
      BY <2>2
    <3> HIDE DEF busy, held
    <3>3. svc' \in EngineServices /\ svc'.status = svc.status /\ svc'.shutdown
      BY <1>1, <3>1, <3>2, TypesNow DEF EngineServices
    <3>4. holds' \in Holding
      BY <1>1, <3>1, <3>2, TypesNow DEF Holding
    <3> QED BY <1>1, <2>2, <3>3, <3>4, TypesNow DEF Engine!Task
  <2>3. CASE /\ pc' = [pc EXCEPT !["hook"] = "await", !["probe"] = "off"] /\ nth' = 0
             /\ holds' = [holds EXCEPT !["probe"] = None]
             /\ svc' = [svc EXCEPT !.shutdown = TRUE, !.closing = FALSE]
    <3>1. svc' \in EngineServices /\ svc'.status = svc.status /\ svc'.shutdown
      BY <1>1, <2>3, TypesNow DEF EngineServices
    <3>2. holds' \in Holding
      BY <1>1, <2>3, TypesNow DEF Holding
    <3> QED BY <1>1, <2>3, <3>1, <3>2 DEF Engine!Task
  <2> QED BY <2>1, <2>2, <2>3 DEF Engine!HookRequestsShutdown
<1>3. EngineTypes'
  <2>1. pc'["worker"] \in WorkerPlace /\ pc'["probe"] \in ProbePlace /\ pc'["hook"] \in HookPlace
    BY <1>1, <1>2, TypesNow DEF ProbePlace, HookPlace
  <2> QED BY <1>1, <1>2, <2>1, TypesNow, TypesAgain
<1>4. ProbeHoldsItsCandidate'
  BY <1>1, <1>2 DEF EngineInv, ProbeHoldsItsCandidate, Engine!Opening, Engine!Opened
<1>5. OnlyItsOwn'
  BY <1>1, <1>2 DEF EngineInv, OnlyItsOwn, Own, Engine!Opening, Engine!Opened
<1> QED BY <1>1, <1>2, <1>3, <1>4, <1>5 DEF EngineInv, HookComesLast, Engine!AnswerFitsQuestion,
      Engine!NothingLeftRunning

LEMMA HookAwaitsStep == ASSUME EngineSound, EngineInv, Engine!HookAwaitsProbe PROVE EngineInv'
<1>1. /\ EngineTypes /\ pc["hook"] = "await" /\ pc["probe"] = "off" /\ svc.shutdown
      /\ UNCHANGED <<proc, out, asked, nth, answer>>
  BY DEF EngineInv, HookComesLast, Engine!HookAwaitsProbe
<1>2. /\ pc' \in [Engine!Task -> Place] /\ pc'["hook"] = "close" /\ pc'["worker"] = pc["worker"]
      /\ pc'["probe"] = "off"
  <2>1. "hook" \in Engine!Task /\ "close" \in Place
    BY DEF Engine!Task, Place, HookPlace
  <2> QED BY <1>1, <2>1, GotoType DEF Engine!HookAwaitsProbe, Engine!Task
<1>3. /\ svc' \in EngineServices /\ svc'.status = svc.status /\ svc'.shutdown = svc.shutdown /\ holds' \in Holding
      /\ proc.state # "none" => holds'["hook"] = proc.gen
  BY <1>1, CloseBeginsType DEF Engine!HookAwaitsProbe, Engine!Task
<1>4. EngineTypes'
  BY <1>1, <1>2, <1>3, TypesNow, TypesAgain DEF ProbePlace, HookPlace
<1>5. OnlyItsOwn'
  BY <1>1, <1>2 DEF EngineInv, OnlyItsOwn, Own
<1> QED BY <1>1, <1>2, <1>3, <1>4, <1>5 DEF EngineInv, HookComesLast, ProbeHoldsItsCandidate,
      Engine!AnswerFitsQuestion, Engine!NothingLeftRunning

LEMMA HookClosedStep == ASSUME EngineSound, EngineInv, Engine!HookClosed PROVE EngineInv'
<1>1. /\ EngineTypes /\ pc["hook"] = "close" /\ pc["probe"] = "off" /\ svc.shutdown
      /\ pc["worker"] = "cancelled" => proc.state = "none" \/ holds["hook"] = proc.gen
      /\ UNCHANGED <<out, asked, nth, answer>> /\ Engine!FinishClose("hook")
  BY DEF EngineInv, HookComesLast, Engine!HookClosed
<1>2. /\ pc' \in [Engine!Task -> Place] /\ pc'["hook"] = "done" /\ pc'["worker"] = pc["worker"]
      /\ pc'["probe"] = "off"
  <2>1. "hook" \in Engine!Task /\ "done" \in Place
    BY DEF Engine!Task, Place, HookPlace
  <2> QED BY <1>1, <2>1, GotoType DEF Engine!HookClosed, Engine!Task
<1>3. /\ svc' \in EngineServices /\ svc'.status = svc.status /\ svc'.shutdown = svc.shutdown /\ holds' \in Holding
      /\ proc' \in {Engine!Gone, proc} /\ proc' \in EngineRecord
      /\ pc["worker"] = "cancelled" => proc'.state = "none"
  <2>1. CASE holds["hook"] = None
    <3>1. proc.state # "none" => proc.gen \in 1..4
      BY <1>1, TypesNow DEF EngineRecord
    <3> QED BY <1>1, <2>1, <3>1, TypesNow DEF Engine!FinishClose, EngineSound
  <2>2. CASE holds["hook"] # None
    <3>1. Engine!CloseEnds("hook") /\ "hook" \in Engine!Task
      BY <1>1, <2>2 DEF Engine!FinishClose, Engine!Task
    <3> QED BY <1>1, <3>1, CloseEndsType, GoneType
  <2> QED BY <2>1, <2>2
<1>4. EngineTypes'
  BY <1>1, <1>2, <1>3, GoneType, TypesNow, TypesAgain DEF ProbePlace, HookPlace
<1>5. OnlyItsOwn'
  BY <1>1, <1>2, <1>3, GoneType DEF EngineInv, OnlyItsOwn, Own
<1> QED BY <1>1, <1>2, <1>3, <1>4, <1>5, GoneType DEF EngineInv, HookComesLast, ProbeHoldsItsCandidate,
      Engine!AnswerFitsQuestion, Engine!NothingLeftRunning

LEMMA EngineStep == ASSUME EngineSound, EngineInv, [Engine!Next]_(Engine!vars) PROVE EngineInv'
<1>1. CASE UNCHANGED Engine!vars
  <2>1. EngineTypes'
    BY <1>1 DEF EngineInv, EngineTypes, Engine!TypeOK, Engine!vars
  <2> QED BY <1>1, <2>1 DEF EngineInv, HookComesLast, ProbeHoldsItsCandidate, OnlyItsOwn, Own, Engine!AnswerFitsQuestion,
        Engine!NothingLeftRunning, Engine!vars
<1>2. CASE Engine!Next
  BY <1>1, <1>2, ReadsStep, SearchesStep, DiesStep, SpawnedStep, SkipStep, EngineOpenStep, OpenFailsStep, ProbeNextStep, ProbeAcceptsStep,
     ProbeClosedStep, ComputeStep, WorkerClosedStep, WorkerStartStep, WorkerGoesStep, AskGoesOnStep, SearchLineStep,
     SearchStopStep, GivesUpStep, HookStopsStep, HookRequestsStep, HookAwaitsStep, HookClosedStep DEF Engine!Next, Engine!Over
<1> QED BY <1>1, <1>2

LEMMA EngineHolds ==
    ASSUME EngineSound, EngineInv
    PROVE  Engine!TypeOK /\ Engine!AnswerFitsQuestion /\ Engine!CandidatesAreNotAsked /\ Engine!NothingLeftRunning
<1>1. Engine!CandidatesAreNotAsked
  BY DEF EngineInv, ProbeHoldsItsCandidate, Engine!CandidatesAreNotAsked, Engine!Alive, Engine!Opened
<1> QED BY <1>1 DEF EngineInv, EngineTypes

\* The best move that is published answers the position the worker asked about or a question the
\* engine still had to answer when it was asked (one that outlived its time limit is not stopped),
\* a candidate is asked only while it is on trial or the service is shutting down, and once the
\* service was shut down no engine process is left if the worker took its cancellation, for every
\* set of positions, any number of candidates and any size of the output queue
\* (engine_service.py, engine_worker.py).
THEOREM EngineAnswers ==
    ASSUME EngineSound
    PROVE  Engine!Spec => [](/\ Engine!TypeOK /\ Engine!AnswerFitsQuestion
                             /\ Engine!CandidatesAreNotAsked /\ Engine!NothingLeftRunning)
<1>1. Engine!Init => EngineInv
  BY EngineInit
<1>2. EngineInv /\ [Engine!Next]_(Engine!vars) => EngineInv'
  BY EngineStep
<1>3. EngineInv => Engine!TypeOK /\ Engine!AnswerFitsQuestion /\ Engine!CandidatesAreNotAsked /\ Engine!NothingLeftRunning
  BY EngineHolds
<1> QED BY <1>1, <1>2, <1>3, PTL DEF Engine!Spec

-----------------------------------------------------------------------------
(* The TMflow link.                                                        *)

\* What an instance has to give: a value that is no caller, and a number of sockets.
LinkSound == Link!NoOne \notin Caller /\ MaxSockets \in Nat

CommandNames == {"HELLO", "GET_STATE", "MOVE", "STOP", "PING"}
Requests == {<<>>, <<"HELLO", "GET_STATE">>, <<"GET_STATE">>, <<"MOVE">>, <<"STOP">>, <<"PING">>}
ToMove == {<<"HELLO", "GET_STATE">>, <<"GET_STATE">>, <<"MOVE">>}
RobotAnswers == [id : Nat, status : Link!Final \cup {"ACK"}]
RobotCommand == [id : Nat, name : CommandNames, nr : Nat]
LinkCalls == [op : {"none", "motion", "connect", "halt", "ping"},
              at : {"idle", "connect", "request", "send", "ack", "final"}, rest : Requests, id : Nat]
Within == {"send", "ack", "final"}

LinkTypes ==
    /\ Link!TypeOK
    /\ inbox \in Seq(RobotAnswers) /\ call \in [Caller -> LinkCalls]
    /\ robot \in [todo : Seq(RobotCommand), doing : RobotCommand \cup {Link!NoTask}]
    /\ \A i \in DOMAIN robot.todo : robot.todo[i].id \in 1..seq
    /\ robot.doing # Link!NoTask => robot.doing.id \in 1..seq
    /\ \A c \in Caller : call[c].id <= seq

\* A call under way has something to ask, and a motion asks for nothing but its motion.
Asks(c) ==
    /\ call[c].at # "idle" => call[c].rest # <<>>
    /\ call[c].op = "motion" => call[c].rest \in ToMove

\* Under the id of a motion that waits for its answer the robot holds only that motion, and
\* what it says is done has been carried out.
Waits(c) == call[c].op = "motion" /\ call[c].rest = <<"MOVE">> /\ call[c].at \in {"ack", "final"}
Tells(c) ==
    /\ \A i \in DOMAIN robot.todo : robot.todo[i].id = call[c].id => robot.todo[i].name = "MOVE"
    /\ \A i \in DOMAIN inbox : inbox[i].id = call[c].id /\ inbox[i].status = "DONE" => inbox[i].id \in carried

LinkInv ==
    /\ LinkTypes /\ Link!SuccessMeansDone
    /\ \A c \in Caller : Asks(c) /\ (Waits(c) => Tells(c))

LEMMA ShortSeqs ==
    ASSUME NEW S, NEW a \in S, NEW b \in S
    PROVE  Tail(<<a>>) = <<>> /\ Tail(<<a, b>>) = <<b>> /\ <<a>> \o <<b>> = <<a, b>>
<1> DEFINE both == <<a>> \o <<b>>
           s == <<a, b>>
           t == Tail(s)
<1>1. <<a>> \in Seq(S) /\ <<a>> # <<>> /\ Len(<<a>>) = 1 /\ <<b>> \in Seq(S) /\ Len(<<b>>) = 1 /\ <<a>>[1] = a /\ <<b>>[1] = b
  OBVIOUS
<1>2. Tail(<<a>>) \in Seq(S) /\ Len(Tail(<<a>>)) = 0
  BY <1>1
<1>3. Tail(<<a>>) = <<>>
  BY <1>2, EmptySeq
<1>4. s \in Seq(S) /\ s # <<>> /\ Len(s) = 2 /\ s[2] = b
  OBVIOUS
<1> HIDE DEF s
<1>5. t \in Seq(S) /\ Len(t) = 1 /\ t[1] = b
  BY <1>4
<1> HIDE DEF t
<1>6. t = <<t[1]>>
  BY <1>5
<1>7. both \in Seq(S) /\ Len(both) = 2 /\ both[1] = a /\ both[2] = b
  BY <1>1, ConcatProperties
<1> HIDE DEF both
<1>8. both = <<both[1], both[2]>>
  BY <1>7
<1> QED BY <1>3, <1>5, <1>6, <1>7, <1>8 DEF both, s, t

\* An inbox that stays or is thrown away.
LEMMA KeptType ==
    ASSUME NEW S, NEW s \in Seq(S), NEW t \in {s, <<>>}
    PROVE  t \in Seq(S) /\ \A i \in DOMAIN t : \E j \in DOMAIN s : t[i] = s[j]
<1>1. CASE t = s
  BY <1>1
<1>2. CASE t = <<>>
  BY <1>2
<1> QED BY <1>1, <1>2

LEMMA GreetingType == Link!Greeting \in {<<"HELLO", "GET_STATE">>, <<"GET_STATE">>}
<1>1. CASE RequireHello
  <2>1. "HELLO" \in CommandNames /\ "GET_STATE" \in CommandNames
    BY DEF CommandNames
  <2>2. <<"HELLO">> \o <<"GET_STATE">> = <<"HELLO", "GET_STATE">>
    BY <2>1, ShortSeqs
  <2> QED BY <1>1, <2>2 DEF Link!Greeting
<1>2. CASE ~RequireHello
  <2>1. <<"GET_STATE">> \in Seq(CommandNames)
    BY DEF CommandNames
  <2>2. <<>> \o <<"GET_STATE">> = <<"GET_STATE">>
    BY <2>1, ConcatEmptySeq
  <2> QED BY <1>2, <2>2 DEF Link!Greeting
<1> QED BY <1>1, <1>2

LEMMA LinkInit == ASSUME LinkSound, Link!Init PROVE LinkInv
<1>1. /\ call \in [Caller -> LinkCalls] /\ \A c \in Caller : call[c] = Link!Idle
      /\ Link!Idle.op = "none" /\ Link!Idle.at = "idle" /\ Link!Idle.rest = <<>> /\ Link!Idle.id = 0
  BY DEF Link!Init, Link!Idle, LinkCalls, Requests
<1>2. robot \in [todo : Seq(RobotCommand), doing : RobotCommand \cup {Link!NoTask}] /\ robot.todo = <<>> /\ robot.doing = Link!NoTask
  <2>1. <<>> \in Seq(RobotCommand)
    OBVIOUS
  <2> QED BY <2>1 DEF Link!Init
<1>3. Link!TypeOK
  <2>0. 0 \in 0..MaxSockets
    BY DEF LinkSound
  <2>1. fake \in BOOLEAN /\ up \in BOOLEAN /\ socket \in [nr : 0..MaxSockets, open : BOOLEAN]
    BY <2>0 DEF Link!Init
  <2>2. inbox = <<>> /\ seq = 0 /\ adapterLock = Link!NoOne /\ carried \cup claimed = {}
    BY DEF Link!Init
  <2> QED BY <1>1, <2>1, <2>2 DEF Link!TypeOK, LinkSound
<1>4. inbox \in Seq(RobotAnswers)
  BY DEF Link!Init
<1> QED BY <1>1, <1>2, <1>3, <1>4 DEF Link!Init, LinkInv, LinkTypes, Link!SuccessMeansDone, Asks, Waits

LEMMA LinkTailType ==
    ASSUME NEW S, NEW s \in Seq(S), s # <<>>
    PROVE  /\ Tail(s) \in Seq(S) /\ Head(s) \in S /\ Head(s) = s[1] /\ 1 \in DOMAIN s
           /\ \A i \in DOMAIN Tail(s) : \E j \in DOMAIN s : Tail(s)[i] = s[j]
  OBVIOUS

LEMMA AppendType ==
    ASSUME NEW S, NEW s \in Seq(S), NEW e \in S
    PROVE  /\ Append(s, e) \in Seq(S)
           /\ \A i \in DOMAIN Append(s, e) : Append(s, e)[i] = e \/ \E j \in DOMAIN s : Append(s, e)[i] = s[j]
  OBVIOUS

LEMMA SocketCloses ==
    ASSUME Link!TypeOK
    PROVE  /\ socket \in [nr : 0..MaxSockets, open : BOOLEAN]
           /\ [socket EXCEPT !.open = FALSE] \in [nr : 0..MaxSockets, open : BOOLEAN]
  BY DEF Link!TypeOK

\* What a caller does without sending anything.
LEMMA CallerMoves ==
    ASSUME LinkSound, LinkInv, NEW c \in Caller,
           UNCHANGED <<fake, seq, robot, carried>>,
           up' \in BOOLEAN, socket' \in [nr : 0..MaxSockets, open : BOOLEAN],
           inbox' \in Seq(RobotAnswers), \A i \in DOMAIN inbox' : \E j \in DOMAIN inbox : inbox'[i] = inbox[j],
           call' \in [Caller -> LinkCalls], \A d \in Caller : d # c => call'[d] = call[d],
           call'[c].id <= seq, Asks(c)',
           Waits(c)' => Waits(c) /\ call'[c].id = call[c].id,
           IF call'[c].at \in Within THEN adapterLock \in {c, Link!NoOne} /\ adapterLock' = c
                                     ELSE adapterLock' = IF adapterLock = c THEN Link!NoOne ELSE adapterLock,
           claimed' = claimed \/ \E id \in carried : claimed' = claimed \cup {id}
    PROVE  LinkInv'
<1>1. Link!TypeOK /\ LinkTypes /\ Link!SuccessMeansDone /\ adapterLock \in Caller \cup {Link!NoOne}
  BY DEF LinkInv, LinkTypes, Link!TypeOK
<1>2. Link!SuccessMeansDone'
  BY <1>1 DEF Link!SuccessMeansDone
<1>3. carried' \cup claimed' \subseteq 1..seq'
  BY <1>1 DEF Link!TypeOK
<1>4. \A d \in Caller : (adapterLock' = d) <=> (call'[d].at \in Within)
  <2>1. \A d \in Caller : (adapterLock = d) <=> (call[d].at \in Within)
    BY <1>1 DEF Link!TypeOK, Within
  <2> QED BY <1>1, <2>1 DEF LinkSound
<1>5. \A i \in DOMAIN inbox' : inbox'[i] \in [id : 1..seq', status : Link!Final \cup {"ACK"}]
  BY <1>1 DEF Link!TypeOK
<1>6. adapterLock' \in Caller \cup {Link!NoOne}
  BY <1>1
<1>7. Link!TypeOK'
  <2>1. \A d \in Caller : call'[d].at \in {"idle", "connect", "request", "send", "ack", "final"}
    BY DEF LinkCalls
  <2> QED BY <1>1, <1>3, <1>4, <1>5, <1>6, <2>1 DEF Link!TypeOK, Within
<1>8. LinkTypes'
  BY <1>1, <1>7 DEF LinkTypes
<1>9. \A d \in Caller : Asks(d)' /\ (Waits(d)' => Tells(d)')
  <2> TAKE d \in Caller
  <2>1. Asks(d)'
    BY DEF LinkInv, Asks
  <2>2. ASSUME Waits(d)' PROVE Waits(d) /\ call'[d].id = call[d].id
    BY <2>2 DEF Waits
  <2>3. ASSUME Waits(d)' PROVE Tells(d)'
    BY <2>2, <2>3 DEF LinkInv, Tells
  <2> QED BY <2>1, <2>3
<1> QED BY <1>2, <1>8, <1>9 DEF LinkInv

\* Every change of a call is one of these.
LEMMA EnterType ==
    ASSUME LinkInv, NEW c \in Caller, NEW op \in {"motion", "connect", "halt", "ping"},
           NEW at \in {"connect", "request", "send"}, NEW rest \in Requests \ {<<>>}, Link!Enter(c, op, at, rest)
    PROVE  /\ call' \in [Caller -> LinkCalls] /\ \A d \in Caller : d # c => call'[d] = call[d]
           /\ call'[c].op = op /\ call'[c].at = at /\ call'[c].rest = rest /\ call'[c].id <= seq
<1>1. call \in [Caller -> LinkCalls] /\ seq \in Nat
  BY DEF LinkInv, LinkTypes, Link!TypeOK
<1>2. [op |-> op, at |-> at, rest |-> rest, id |-> 0] \in LinkCalls
  BY DEF LinkCalls
<1> QED BY <1>1, <1>2 DEF Link!Enter

LEMMA ReturnType ==
    ASSUME LinkInv, NEW c \in Caller, NEW v \in BOOLEAN, Link!Return(c, v)
    PROVE  /\ call' \in [Caller -> LinkCalls] /\ \A d \in Caller : d # c => call'[d] = call[d]
           /\ call'[c].op = "none" /\ call'[c].at = "idle" /\ call'[c].id <= seq
           /\ claimed' = IF v /\ call[c].op = "motion" THEN claimed \cup {call[c].id} ELSE claimed
<1>1. call \in [Caller -> LinkCalls] /\ seq \in Nat
  BY DEF LinkInv, LinkTypes, Link!TypeOK
<1>2. Link!Idle \in LinkCalls /\ Link!Idle.op = "none" /\ Link!Idle.at = "idle" /\ Link!Idle.id = 0
  BY DEF LinkCalls, Link!Idle, Requests
<1> QED BY <1>1, <1>2 DEF Link!Return

LEMMA AtType ==
    ASSUME LinkInv, NEW c \in Caller, NEW at \in {"send", "ack", "final"}, call' = [call EXCEPT ![c].at = at]
    PROVE  /\ call' \in [Caller -> LinkCalls] /\ \A d \in Caller : d # c => call'[d] = call[d]
           /\ call'[c].op = call[c].op /\ call'[c].at = at /\ call'[c].rest = call[c].rest
           /\ call'[c].id = call[c].id /\ call'[c].id <= seq
<1>1. call \in [Caller -> LinkCalls] /\ \A d \in Caller : call[d].id <= seq
  BY DEF LinkInv, LinkTypes, Link!TypeOK
<1> QED BY <1>1 DEF LinkCalls

LEMMA BeginsStep == ASSUME LinkSound, LinkInv, NEW c \in Caller, Link!Begins(c) PROVE LinkInv'
<1>1. /\ Link!TypeOK /\ LinkTypes /\ call[c].at = "idle" /\ adapterLock # c
      /\ UNCHANGED <<fake, seq, robot, carried, claimed>>
  <2>1. call[c].at = "idle"
    BY DEF Link!Begins, Link!MotionBegins, Link!ConnectBegins, Link!HaltBegins, Link!PingBegins, Link!Disconnect
  <2>2. Link!TypeOK /\ LinkTypes
    BY DEF LinkInv, LinkTypes
  <2>3. UNCHANGED <<fake, seq, robot, carried, claimed>>
    BY DEF Link!Begins, Link!MotionBegins, Link!ConnectBegins, Link!HaltBegins, Link!PingBegins, Link!Disconnect,
          Link!Link, Link!Robot
  <2> QED BY <2>1, <2>2, <2>3 DEF Link!TypeOK
<1>2. /\ up' \in BOOLEAN /\ socket' \in [nr : 0..MaxSockets, open : BOOLEAN]
      /\ inbox' \in Seq(RobotAnswers) /\ \A i \in DOMAIN inbox' : \E j \in DOMAIN inbox : inbox'[i] = inbox[j]
  <2>1. /\ up' \in {up, TRUE, FALSE} /\ inbox' \in {inbox, <<>>}
        /\ socket' = socket \/ socket' = [socket EXCEPT !.open = FALSE]
    BY DEF Link!Begins, Link!MotionBegins, Link!ConnectBegins, Link!HaltBegins, Link!PingBegins, Link!Disconnect,
          Link!Link
  <2>2. up \in BOOLEAN /\ inbox \in Seq(RobotAnswers) /\ <<>> \in Seq(RobotAnswers)
    BY <1>1 DEF Link!TypeOK, LinkTypes
  <2>3. \A t \in {inbox, <<>>} : t \in Seq(RobotAnswers) /\ \A i \in DOMAIN t : \E j \in DOMAIN inbox : t[i] = inbox[j]
    BY <2>2, KeptType
  <2>4. inbox' \in Seq(RobotAnswers) /\ \A i \in DOMAIN inbox' : \E j \in DOMAIN inbox : inbox'[i] = inbox[j]
    BY <2>1, <2>3
  <2> QED BY <1>1, <2>1, <2>2, <2>4, SocketCloses
<1>3. CASE UNCHANGED <<call, adapterLock>>
  <2>1. call' \in [Caller -> LinkCalls] /\ call'[c].id <= seq /\ Asks(c)' /\ (Waits(c)' => Waits(c)) /\ call'[c].at = "idle"
    BY <1>1, <1>3 DEF LinkInv, LinkTypes, Asks, Waits
  <2> QED BY <1>1, <1>2, <1>3, <2>1, CallerMoves DEF Within
<1>4. CASE /\ UNCHANGED adapterLock
           /\ \/ Link!Enter(c, "motion", "request", <<"MOVE">>) \/ Link!Enter(c, "motion", "connect", Link!Greeting)
              \/ Link!Enter(c, "connect", "connect", Link!Greeting) \/ Link!Enter(c, "halt", "request", <<"STOP">>)
  <2>1. PICK op \in {"motion", "connect", "halt", "ping"}, at \in {"connect", "request"}, rest \in Requests \ {<<>>} :
            Link!Enter(c, op, at, rest) /\ (op = "motion" => rest \in ToMove)
    BY <1>4, GreetingType DEF Requests, ToMove
  <2>2. /\ call' \in [Caller -> LinkCalls] /\ \A d \in Caller : d # c => call'[d] = call[d]
        /\ call'[c].op = op /\ call'[c].at = at /\ call'[c].rest = rest /\ call'[c].id <= seq
    BY <2>1, EnterType
  <2>3. Asks(c)' /\ ~Waits(c)' /\ call'[c].at \notin Within
    BY <2>1, <2>2 DEF Asks, Waits, Within
  <2> QED BY <1>1, <1>2, <1>4, <2>2, <2>3, CallerMoves
<1>5. CASE adapterLock = Link!NoOne /\ Link!Enter(c, "ping", "send", <<"PING">>) /\ adapterLock' = c
  <2>1. <<"PING">> \in Requests \ {<<>>}
    BY DEF Requests
  <2>2. /\ call' \in [Caller -> LinkCalls] /\ \A d \in Caller : d # c => call'[d] = call[d]
        /\ call'[c].op = "ping" /\ call'[c].at = "send" /\ call'[c].rest # <<>> /\ call'[c].id <= seq
    BY <1>5, <2>1, EnterType
  <2>3. Asks(c)' /\ ~Waits(c)' /\ call'[c].at \in Within
    BY <2>2 DEF Asks, Waits, Within
  <2> QED BY <1>1, <1>2, <1>5, <2>2, <2>3, CallerMoves
<1> QED BY <1>3, <1>4, <1>5 DEF Link!Begins, Link!MotionBegins, Link!ConnectBegins, Link!HaltBegins, Link!PingBegins,
      Link!Disconnect, Link!Link

LEMMA LinkOpenStep == ASSUME LinkSound, LinkInv, NEW c \in Caller, Link!Open(c) PROVE LinkInv'
<1>1. /\ Link!TypeOK /\ LinkTypes /\ call[c].at = "connect" /\ adapterLock = Link!NoOne /\ adapterLock # c
      /\ UNCHANGED <<fake, seq, robot, carried>> /\ inbox' = <<>> /\ inbox' \in Seq(RobotAnswers)
  BY DEF LinkInv, LinkTypes, LinkSound, Link!Open, Link!Robot
<1>2. up' \in BOOLEAN /\ socket' \in [nr : 0..MaxSockets, open : BOOLEAN]
  <2>1. CASE socket.nr < MaxSockets /\ socket' = [nr |-> socket.nr + 1, open |-> TRUE] /\ up' = TRUE
    BY <1>1, <2>1 DEF Link!TypeOK, LinkSound
  <2>2. CASE socket' = [socket EXCEPT !.open = FALSE] /\ up' = FALSE
    BY <1>1, <2>2, SocketCloses
  <2> QED BY <2>1, <2>2 DEF Link!Open
<1>3. CASE adapterLock' = c /\ call' = [call EXCEPT ![c].at = "send"] /\ UNCHANGED claimed
  <2>1. /\ call' \in [Caller -> LinkCalls] /\ \A d \in Caller : d # c => call'[d] = call[d]
        /\ call'[c].op = call[c].op /\ call'[c].at = "send" /\ call'[c].rest = call[c].rest /\ call'[c].id <= seq
    BY <1>3, AtType
  <2>2. Asks(c)' /\ ~Waits(c)' /\ call'[c].at \in Within
    BY <1>1, <2>1 DEF LinkInv, Asks, Waits, Within
  <2> QED BY <1>1, <1>2, <1>3, <2>1, <2>2, CallerMoves
<1>4. CASE Link!Return(c, FALSE) /\ UNCHANGED adapterLock
  <2>1. /\ call' \in [Caller -> LinkCalls] /\ \A d \in Caller : d # c => call'[d] = call[d]
        /\ call'[c].op = "none" /\ call'[c].at = "idle" /\ call'[c].id <= seq /\ UNCHANGED claimed
    BY <1>4, ReturnType
  <2>2. Asks(c)' /\ ~Waits(c)' /\ call'[c].at \notin Within
    BY <2>1 DEF Asks, Waits, Within
  <2> QED BY <1>1, <1>2, <1>4, <2>1, <2>2, CallerMoves
<1> QED BY <1>3, <1>4 DEF Link!Open

LEMMA AcquireStep == ASSUME LinkSound, LinkInv, NEW c \in Caller, Link!Acquire(c) PROVE LinkInv'
<1>1. /\ Link!TypeOK /\ LinkTypes /\ call[c].at = "request" /\ adapterLock = Link!NoOne /\ adapterLock' = c
      /\ UNCHANGED <<fake, up, socket, inbox, seq, robot, carried, claimed>>
      /\ call' = [call EXCEPT ![c].at = "send"]
  BY DEF LinkInv, LinkTypes, Link!Acquire, Link!Robot, Link!Link
<1>2. /\ call' \in [Caller -> LinkCalls] /\ \A d \in Caller : d # c => call'[d] = call[d]
      /\ call'[c].op = call[c].op /\ call'[c].at = "send" /\ call'[c].rest = call[c].rest /\ call'[c].id <= seq
  BY <1>1, AtType
<1>3. Asks(c)' /\ ~Waits(c)' /\ call'[c].at \in Within
  BY <1>1, <1>2 DEF LinkInv, Asks, Waits, Within
<1>4. up' \in BOOLEAN /\ socket' \in [nr : 0..MaxSockets, open : BOOLEAN] /\ inbox' \in Seq(RobotAnswers)
  BY <1>1 DEF LinkTypes, Link!TypeOK
<1> QED BY <1>1, <1>2, <1>3, <1>4, CallerMoves

\* An exception, wherever it is raised.
LEMMA FailsStep == ASSUME LinkSound, LinkInv, NEW c \in Caller, call[c].at \in Within, Link!Fails(c) PROVE LinkInv'
<1>1. /\ Link!TypeOK /\ LinkTypes /\ adapterLock = c /\ adapterLock' = Link!NoOne /\ Link!Return(c, FALSE)
      /\ UNCHANGED <<fake, seq, robot, carried>>
      /\ inbox' = <<>> \/ inbox' = inbox
      /\ socket' = socket \/ socket' = [socket EXCEPT !.open = FALSE]
      /\ up' \in BOOLEAN
  BY DEF LinkInv, LinkTypes, Link!TypeOK, Link!Fails, Link!Robot, Within
<1>2. /\ inbox' \in Seq(RobotAnswers) /\ \A i \in DOMAIN inbox' : \E j \in DOMAIN inbox : inbox'[i] = inbox[j]
      /\ socket' \in [nr : 0..MaxSockets, open : BOOLEAN]
  <2>1. inbox \in Seq(RobotAnswers)
    BY <1>1 DEF LinkTypes
  <2>2. \A t \in {inbox, <<>>} : t \in Seq(RobotAnswers) /\ \A i \in DOMAIN t : \E j \in DOMAIN inbox : t[i] = inbox[j]
    BY <2>1, KeptType
  <2>3. inbox' \in Seq(RobotAnswers) /\ \A i \in DOMAIN inbox' : \E j \in DOMAIN inbox : inbox'[i] = inbox[j]
    BY <1>1, <2>2
  <2> QED BY <1>1, <2>3, SocketCloses
<1>3. /\ call' \in [Caller -> LinkCalls] /\ \A d \in Caller : d # c => call'[d] = call[d]
      /\ call'[c].op = "none" /\ call'[c].at = "idle" /\ call'[c].id <= seq /\ UNCHANGED claimed
  BY <1>1, ReturnType
<1>4. Asks(c)' /\ ~Waits(c)' /\ call'[c].at \notin Within
  BY <1>3 DEF Asks, Waits, Within
<1> QED BY <1>1, <1>2, <1>3, <1>4, CallerMoves

LEMMA SendStep == ASSUME LinkSound, LinkInv, NEW c \in Caller, Link!Send(c) PROVE LinkInv'
<1> DEFINE name == Head(call[c].rest)
<1>1. Link!TypeOK /\ LinkTypes /\ call[c].at = "send" /\ call[c] \in LinkCalls /\ seq \in Nat /\ name \in CommandNames
  <2>1. Link!TypeOK /\ LinkTypes /\ call[c].at = "send" /\ call[c] \in LinkCalls /\ seq \in Nat
    BY DEF LinkInv, LinkTypes, Link!TypeOK, Link!Send
  <2>2. call[c].rest \in Requests \ {<<>>}
    BY <2>1 DEF LinkInv, Asks, LinkCalls
  <2>3. \A r \in Requests \ {<<>>} : Head(r) \in CommandNames
    BY DEF Requests, CommandNames
  <2> QED BY <2>1, <2>2, <2>3
<1>2. CASE Link!Fails(c)
  BY <1>1, <1>2, FailsStep DEF Within
<1>3. CASE ~Link!Fails(c)
  <2>1. /\ seq' = seq + 1 /\ UNCHANGED <<fake, up, socket, inbox, adapterLock, claimed, carried>>
        /\ call' = [call EXCEPT ![c].id = seq + 1, ![c].at = IF name = "MOVE" THEN "ack" ELSE "final"]
        /\ robot' = IF socket.open
                      THEN [robot EXCEPT !.todo = Append(@, [id |-> seq + 1, name |-> name, nr |-> socket.nr])]
                      ELSE robot
    BY <1>3 DEF Link!Send
  <2>2. /\ call' \in [Caller -> LinkCalls] /\ \A d \in Caller : d # c => call'[d] = call[d]
        /\ call'[c].op = call[c].op /\ call'[c].at \in {"ack", "final"} /\ call'[c].rest = call[c].rest
        /\ call'[c].id = seq + 1
    BY <1>1, <2>1 DEF LinkTypes, LinkCalls
  <2> DEFINE new == [id |-> seq + 1, name |-> name, nr |-> socket.nr]
  <2>3. new \in RobotCommand /\ new.id = seq + 1 /\ new.name = name
    BY <1>1 DEF Link!TypeOK, RobotCommand
  <2> HIDE DEF new, name
  <2>4. /\ robot' \in [todo : Seq(RobotCommand), doing : RobotCommand \cup {Link!NoTask}] /\ robot'.doing = robot.doing
        /\ \A i \in DOMAIN robot'.todo : robot'.todo[i] = new \/ \E j \in DOMAIN robot.todo : robot'.todo[i] = robot.todo[j]
    <3>1. robot.todo \in Seq(RobotCommand) /\ robot \in [todo : Seq(RobotCommand), doing : RobotCommand \cup {Link!NoTask}]
      BY <1>1 DEF LinkTypes
    <3>2. /\ Append(robot.todo, new) \in Seq(RobotCommand)
          /\ \A i \in DOMAIN Append(robot.todo, new) : \/ Append(robot.todo, new)[i] = new
                                                     \/ \E j \in DOMAIN robot.todo : Append(robot.todo, new)[i] = robot.todo[j]
      BY <2>3, <3>1, AppendType
    <3>3. robot' = robot \/ robot' = [robot EXCEPT !.todo = Append(robot.todo, new)]
      BY <2>1 DEF new
    <3> QED BY <3>1, <3>2, <3>3
  <2>5. Link!TypeOK'
    BY <1>1, <2>1, <2>2 DEF Link!TypeOK, LinkCalls
  <2>6. LinkTypes'
    <3>1. \A i \in DOMAIN robot'.todo : robot'.todo[i].id \in 1..seq'
      BY <1>1, <2>1, <2>3, <2>4 DEF LinkTypes
    <3>2. \A d \in Caller : call'[d].id <= seq'
      <4> TAKE d \in Caller
      <4>1. call[d].id <= seq /\ call[d].id \in Nat
        BY <1>1 DEF LinkTypes, LinkCalls
      <4> QED BY <1>1, <2>1, <2>2, <4>1
    <3>3. robot'.doing # Link!NoTask => robot'.doing.id \in 1..seq'
      BY <1>1, <2>1, <2>4 DEF LinkTypes
    <3> QED BY <1>1, <2>1, <2>2, <2>4, <2>5, <3>1, <3>2, <3>3 DEF LinkTypes
  <2>7. Link!SuccessMeansDone'
    BY <2>1 DEF LinkInv, Link!SuccessMeansDone
  <2>8. \A d \in Caller : Asks(d)' /\ (Waits(d)' => Tells(d)')
    <3> TAKE d \in Caller
    <3>1. Asks(d)'
      BY <1>1, <2>2 DEF LinkInv, Asks
    <3>2. CASE d # c
      <4>1. call'[d] = call[d] /\ call[d].id <= seq /\ call[d].id \in Nat
        BY <1>1, <2>2, <3>2 DEF LinkTypes, LinkCalls
      <4>2. Waits(d)' => Tells(d)
        BY <4>1 DEF LinkInv, Waits
      <4>3. new.id # call[d].id
        BY <1>1, <2>3, <4>1
      <4>4. ASSUME Tells(d) PROVE Tells(d)'
        <5>1. ASSUME NEW i \in DOMAIN robot'.todo, robot'.todo[i].id = call[d].id PROVE robot'.todo[i].name = "MOVE"
          BY <2>4, <4>3, <4>4, <5>1 DEF Tells
        <5> QED BY <2>1, <4>1, <4>4, <5>1 DEF Tells
      <4> QED BY <3>1, <4>2, <4>4
    <3>3. CASE d = c
      <4>1. Waits(d)' => name = "MOVE"
        BY <2>2, <3>3 DEF Waits, name
      <4>2. \A i \in DOMAIN robot'.todo : robot'.todo[i].id = seq + 1 => robot'.todo[i].name = name
        BY <1>1, <2>3, <2>4 DEF LinkTypes
      <4>3. \A i \in DOMAIN inbox : inbox[i].id # seq + 1
        BY <1>1 DEF Link!TypeOK
      <4> QED BY <2>1, <2>2, <3>1, <3>3, <4>1, <4>2, <4>3 DEF Tells
    <3> QED BY <3>2, <3>3
  <2> QED BY <2>6, <2>7, <2>8 DEF LinkInv
<1> QED BY <1>2, <1>3

LEMMA HearStep == ASSUME LinkSound, LinkInv, NEW c \in Caller, Link!Hear(c) PROVE LinkInv'
<1> DEFINE m == Head(inbox)
<1>1. /\ Link!TypeOK /\ LinkTypes /\ call[c].at \in {"ack", "final"} /\ adapterLock = c /\ call[c] \in LinkCalls
      /\ UNCHANGED <<fake, up, socket, seq, robot, carried>> /\ inbox' = Tail(inbox)
      /\ inbox \in Seq(RobotAnswers) /\ inbox # <<>>
  BY DEF LinkInv, LinkTypes, Link!TypeOK, Link!Hear, Link!Robot
<1>2. /\ inbox' \in Seq(RobotAnswers) /\ \A i \in DOMAIN inbox' : \E j \in DOMAIN inbox : inbox'[i] = inbox[j]
      /\ m \in RobotAnswers /\ m = inbox[1] /\ 1 \in DOMAIN inbox
  BY <1>1, LinkTailType
<1>3. up' \in BOOLEAN /\ socket' \in [nr : 0..MaxSockets, open : BOOLEAN]
  BY <1>1 DEF Link!TypeOK
<1>4. call[c].rest # <<>> /\ call[c].rest \in Requests /\ (call[c].op = "motion" => call[c].rest \in ToMove)
  BY <1>1 DEF LinkInv, Asks, LinkCalls
<1> HIDE DEF m
<1>5. CASE UNCHANGED <<call, adapterLock, claimed>>
  <2>1. /\ call' \in [Caller -> LinkCalls] /\ call'[c].id <= seq /\ Asks(c)' /\ (Waits(c)' => Waits(c))
        /\ call'[c].at \in Within
    BY <1>1, <1>5 DEF LinkInv, LinkTypes, Asks, Waits, Within
  <2> QED BY <1>1, <1>2, <1>3, <1>5, <2>1, CallerMoves
<1>6. CASE call' = [call EXCEPT ![c].at = "final"] /\ UNCHANGED <<adapterLock, claimed>>
  <2>1. /\ call' \in [Caller -> LinkCalls] /\ \A d \in Caller : d # c => call'[d] = call[d]
        /\ call'[c].op = call[c].op /\ call'[c].at = "final" /\ call'[c].rest = call[c].rest
        /\ call'[c].id = call[c].id /\ call'[c].id <= seq
    BY <1>6, AtType
  <2>2. Asks(c)' /\ (Waits(c)' => Waits(c)) /\ call'[c].at \in Within
    BY <1>1, <1>4, <2>1 DEF Asks, Waits, Within
  <2> QED BY <1>1, <1>2, <1>3, <1>6, <2>1, <2>2, CallerMoves
<1>7. ASSUME NEW v \in BOOLEAN, Link!Return(c, v), adapterLock' = Link!NoOne, v /\ call[c].op = "motion" => call[c].id \in carried
      PROVE  LinkInv'
  <2>1. /\ call' \in [Caller -> LinkCalls] /\ \A d \in Caller : d # c => call'[d] = call[d]
        /\ call'[c].op = "none" /\ call'[c].at = "idle" /\ call'[c].id <= seq
        /\ claimed' = IF v /\ call[c].op = "motion" THEN claimed \cup {call[c].id} ELSE claimed
    BY <1>7, ReturnType
  <2>2. Asks(c)' /\ ~Waits(c)' /\ call'[c].at \notin Within
    BY <2>1 DEF Asks, Waits, Within
  <2>3. claimed' = claimed \/ \E id \in carried : claimed' = claimed \cup {id}
    BY <1>7, <2>1
  <2> QED BY <1>1, <1>2, <1>3, <1>7, <2>1, <2>2, <2>3, CallerMoves
<1>8. CASE /\ m.id = call[c].id /\ m.status # "ACK" /\ Link!Answered(c, m.status)
           /\ ~(call[c].at = "ack" /\ m.status = "DONE")
  <2> DEFINE rest == Tail(call[c].rest)
             value == IF call[c].op = "motion" THEN m.status = "DONE" ELSE m.status \notin Link!Refusals
             greeted == call[c].rest = <<"GET_STATE">>
  <2>1. \/ call[c].rest = <<"HELLO", "GET_STATE">> /\ rest = <<"GET_STATE">>
        \/ call[c].rest \in {<<"GET_STATE">>, <<"MOVE">>, <<"STOP">>, <<"PING">>} /\ rest = <<>>
    <3>1. Tail(<<"HELLO", "GET_STATE">>) = <<"GET_STATE">>
      <4>1. "HELLO" \in CommandNames /\ "GET_STATE" \in CommandNames
        BY DEF CommandNames
      <4> QED BY <4>1, ShortSeqs
    <3>2. \A w \in CommandNames : Tail(<<w>>) = <<>>
      BY ShortSeqs
    <3>3. \A w \in {"GET_STATE", "MOVE", "STOP", "PING"} : w \in CommandNames
      BY DEF CommandNames
    <3> DEFINE asking == call[c].rest
    <3>4. asking \in Requests \ {<<>>} /\ asking = call[c].rest
      BY <1>4
    <3> HIDE DEF asking
    <3>5. \/ asking = <<"HELLO", "GET_STATE">> \/ asking \in {<<"GET_STATE">>, <<"MOVE">>, <<"STOP">>, <<"PING">>}
      BY <3>4 DEF Requests
    <3> QED BY <3>1, <3>2, <3>3, <3>4, <3>5
  <2>2. CASE rest # <<>>
    <3>1. rest = <<"GET_STATE">> /\ rest \in Requests /\ rest \in ToMove /\ rest # <<>>
      BY <2>1, <2>2 DEF Requests, ToMove
    <3>2. call' = [call EXCEPT ![c].rest = rest, ![c].at = "send"] /\ UNCHANGED <<adapterLock, claimed>>
      BY <1>8, <2>2 DEF Link!Answered
    <3> HIDE DEF rest
    <3>3. /\ call' \in [Caller -> LinkCalls] /\ \A d \in Caller : d # c => call'[d] = call[d]
          /\ call'[c].op = call[c].op /\ call'[c].at = "send" /\ call'[c].rest = rest
          /\ call'[c].id <= seq
      BY <1>1, <3>1, <3>2 DEF LinkTypes, LinkCalls
    <3>4. Asks(c)' /\ ~Waits(c)' /\ call'[c].at \in Within
      BY <3>1, <3>3 DEF Asks, Waits, Within
    <3> QED BY <1>1, <1>2, <1>3, <3>2, <3>3, <3>4, CallerMoves
  <2>3. CASE rest = <<>> /\ greeted /\ call[c].op = "motion"
    <3>1. Link!Enter(c, "motion", "request", <<"MOVE">>) /\ adapterLock' = Link!NoOne /\ UNCHANGED claimed
      BY <1>8, <2>3 DEF Link!Answered
    <3>2. <<"MOVE">> \in Requests \ {<<>>} /\ <<"MOVE">> \in ToMove
      BY DEF Requests, ToMove
    <3>3. /\ call' \in [Caller -> LinkCalls] /\ \A d \in Caller : d # c => call'[d] = call[d]
          /\ call'[c].op = "motion" /\ call'[c].at = "request" /\ call'[c].rest = <<"MOVE">> /\ call'[c].id <= seq
      BY <3>1, <3>2, EnterType
    <3>4. Asks(c)' /\ ~Waits(c)' /\ call'[c].at \notin Within
      BY <3>2, <3>3 DEF Asks, Waits, Within
    <3> QED BY <1>1, <1>2, <1>3, <3>1, <3>3, <3>4, CallerMoves
  <2>4. CASE rest = <<>> /\ ~(greeted /\ call[c].op = "motion")
    <3>1. Link!Return(c, greeted \/ value) /\ adapterLock' = Link!NoOne
      BY <1>8, <2>4 DEF Link!Answered
    <3>2. ASSUME greeted \/ value, call[c].op = "motion" PROVE call[c].id \in carried
      <4>1. m.status = "DONE" /\ ~greeted
        BY <2>4, <3>2
      <4>2. Waits(c)
        BY <1>1, <1>4, <2>1, <2>4, <3>2, <4>1 DEF Waits, ToMove
      <4>3. Tells(c)
        BY <4>2 DEF LinkInv
      <4> QED BY <1>2, <1>8, <4>1, <4>3 DEF Tells
    <3>3. greeted \/ value \in BOOLEAN
      OBVIOUS
    <3> HIDE DEF greeted, value
    <3>4. PICK v \in BOOLEAN : v = (greeted \/ value)
      OBVIOUS
    <3> QED BY <1>7, <3>1, <3>2, <3>4
  <2> QED BY <2>2, <2>3, <2>4
<1>9. CASE Link!Return(c, FALSE) /\ adapterLock' = Link!NoOne
  BY <1>7, <1>9
<1> QED BY <1>5, <1>6, <1>8, <1>9 DEF Link!Hear, Link!Matches, m

-----------------------------------------------------------------------------
(* The robot *)

LEMMA PostedType ==
    ASSUME LinkInv, NEW t \in RobotCommand, NEW s \in Link!Final \cup {"ACK"}
    PROVE  /\ Link!Posted(t, s) \in Seq(RobotAnswers)
           /\ \A i \in DOMAIN Link!Posted(t, s) : \/ Link!Posted(t, s)[i].id = t.id /\ Link!Posted(t, s)[i].status = s
                                                  \/ \E j \in DOMAIN inbox : Link!Posted(t, s)[i] = inbox[j]
<1>1. inbox \in Seq(RobotAnswers)
  BY DEF LinkInv, LinkTypes
<1> DEFINE a == [id |-> t.id, status |-> s]
<1>2. a \in RobotAnswers /\ a.id = t.id /\ a.status = s
  BY DEF RobotAnswers, RobotCommand
<1>3. Link!Posted(t, s) = inbox \/ Link!Posted(t, s) = Append(inbox, a)
  BY DEF Link!Posted
<1> HIDE DEF a
<1> QED BY <1>1, <1>2, <1>3, AppendType

\* The robot says s of the command t, and what it says is done is carried out.
LEMMA RobotMoves ==
    ASSUME LinkSound, LinkInv, UNCHANGED <<fake, up, socket, seq, adapterLock, call, claimed>>,
           NEW t \in RobotCommand, NEW s \in Link!Final \cup {"ACK"}, t.id \in 1..seq, inbox' = Link!Posted(t, s),
           robot' \in [todo : Seq(RobotCommand), doing : RobotCommand \cup {Link!NoTask}],
           \A i \in DOMAIN robot'.todo : \E j \in DOMAIN robot.todo : robot'.todo[i] = robot.todo[j],
           robot'.doing \in {Link!NoTask, robot.doing, t},
           carried' \in {carried, carried \cup {t.id}},
           \/ s = "DONE" /\ \A c \in Caller : Waits(c) => call[c].id # t.id
           \/ s # "DONE" \/ t.id \in carried'
    PROVE  LinkInv'
<1>1. Link!TypeOK /\ LinkTypes /\ Link!SuccessMeansDone /\ carried \subseteq carried' /\ carried' \subseteq 1..seq
  BY DEF LinkInv, LinkTypes, Link!TypeOK
<1>2. /\ inbox' \in Seq(RobotAnswers)
      /\ \A i \in DOMAIN inbox' : \/ inbox'[i].id = t.id /\ inbox'[i].status = s
                                  \/ \E j \in DOMAIN inbox : inbox'[i] = inbox[j]
  BY PostedType
<1>3. \A i \in DOMAIN inbox' : inbox'[i] \in [id : 1..seq', status : Link!Final \cup {"ACK"}]
  <2> TAKE i \in DOMAIN inbox'
  <2>1. inbox'[i] \in RobotAnswers
    BY <1>2
  <2>2. inbox'[i].id \in 1..seq
    BY <1>1, <1>2 DEF Link!TypeOK
  <2> QED BY <2>1, <2>2 DEF RobotAnswers
<1>4. Link!TypeOK'
  BY <1>1, <1>3 DEF Link!TypeOK
<1>5. LinkTypes'
  BY <1>1, <1>2, <1>4 DEF LinkTypes
<1>6. Link!SuccessMeansDone'
  BY <1>1 DEF Link!SuccessMeansDone
<1>7. \A c \in Caller : Asks(c)' /\ (Waits(c)' => Tells(c)')
  <2> TAKE c \in Caller
  <2>1. Asks(c)' /\ (Waits(c)' => Waits(c) /\ Tells(c))
    BY DEF LinkInv, Asks, Waits
  <2>2. ASSUME Waits(c), Tells(c) PROVE Tells(c)'
    BY <1>1, <1>2, <2>2 DEF Tells
  <2> QED BY <2>1, <2>2
<1> QED BY <1>5, <1>6, <1>7 DEF LinkInv

LEMMA TakesStep == ASSUME LinkSound, LinkInv, Link!RobotTakes PROVE LinkInv'
<1> DEFINE t == Head(robot.todo)
<1>1. robot \in [todo : Seq(RobotCommand), doing : RobotCommand \cup {Link!NoTask}] /\ robot.todo # <<>> /\ LinkTypes
  BY DEF LinkInv, LinkTypes, Link!RobotTakes
<1>2. /\ t \in RobotCommand /\ t = robot.todo[1] /\ 1 \in DOMAIN robot.todo /\ Tail(robot.todo) \in Seq(RobotCommand)
      /\ \A i \in DOMAIN Tail(robot.todo) : \E j \in DOMAIN robot.todo : Tail(robot.todo)[i] = robot.todo[j]
  BY <1>1, LinkTailType
<1>3. t.id \in 1..seq
  BY <1>1, <1>2 DEF LinkTypes
<1>4. PICK s \in {"ACK", "DONE", "REJECTED"} :
          /\ s = "ACK" => t.name = "MOVE"
          /\ inbox' = Link!Posted(t, s)
          /\ robot' = [todo |-> Tail(robot.todo),
                       doing |-> IF s = "ACK" THEN t
                                 ELSE IF t.name = "STOP" /\ s = "DONE" THEN Link!NoTask
                                 ELSE robot.doing]
          /\ carried' = IF s = "DONE" /\ t.name = "MOVE" THEN carried \cup {t.id} ELSE carried
  BY DEF Link!RobotTakes
<1> HIDE DEF t
<1>5. /\ robot'.todo = Tail(robot.todo) /\ robot'.doing \in {Link!NoTask, robot.doing, t}
      /\ robot' \in [todo : Seq(RobotCommand), doing : RobotCommand \cup {Link!NoTask}]
  BY <1>1, <1>2, <1>4
<1>6. UNCHANGED <<fake, up, socket, seq, adapterLock, call, claimed>>
  BY DEF Link!RobotTakes
<1>7. s \in Link!Final \cup {"ACK"} /\ carried' \in {carried, carried \cup {t.id}}
  BY <1>4 DEF Link!Final, Link!Refusals
<1>8. \/ s = "DONE" /\ \A c \in Caller : Waits(c) => call[c].id # t.id
      \/ s # "DONE" \/ t.id \in carried'
  <2>1. ASSUME NEW c \in Caller, Waits(c), call[c].id = t.id PROVE t.name = "MOVE"
    BY <1>2, <2>1 DEF LinkInv, Tells
  <2> QED BY <1>4, <2>1
<1> QED BY <1>2, <1>3, <1>4, <1>5, <1>6, <1>7, <1>8, RobotMoves

LEMMA EndsStep == ASSUME LinkSound, LinkInv, Link!RobotEnds PROVE LinkInv'
<1>1. /\ robot \in [todo : Seq(RobotCommand), doing : RobotCommand \cup {Link!NoTask}] /\ robot.doing # Link!NoTask
      /\ robot.doing.id \in 1..seq /\ robot.doing \in RobotCommand
      /\ UNCHANGED <<fake, up, socket, seq, adapterLock, call, claimed>>
  BY DEF LinkInv, LinkTypes, Link!RobotEnds
<1>2. PICK s \in {"DONE", "ERROR"} :
          /\ inbox' = Link!Posted(robot.doing, s)
          /\ carried' = IF s = "DONE" THEN carried \cup {robot.doing.id} ELSE carried
  BY DEF Link!RobotEnds
<1>3. /\ robot' \in [todo : Seq(RobotCommand), doing : RobotCommand \cup {Link!NoTask}] /\ robot'.todo = robot.todo
      /\ robot'.doing \in {Link!NoTask, robot.doing}
  BY <1>1 DEF Link!RobotEnds
<1>4. s \in Link!Final \cup {"ACK"} /\ carried' \in {carried, carried \cup {robot.doing.id}}
      /\ (s # "DONE" \/ robot.doing.id \in carried')
  BY <1>2 DEF Link!Final, Link!Refusals
<1>5. /\ \A i \in DOMAIN robot'.todo : \E j \in DOMAIN robot.todo : robot'.todo[i] = robot.todo[j]
      /\ robot'.doing \in {Link!NoTask, robot.doing, robot.doing}
  BY <1>3
<1> QED BY <1>1, <1>2, <1>3, <1>4, <1>5, RobotMoves

LEMMA DropsStep == ASSUME LinkSound, LinkInv, Link!RobotDrops PROVE LinkInv'
<1>1. Link!TypeOK /\ socket' = [socket EXCEPT !.open = FALSE]
      /\ UNCHANGED <<fake, up, inbox, seq, adapterLock, call, claimed, robot, carried>>
  BY DEF LinkInv, LinkTypes, Link!RobotDrops, Link!Robot
<1>2. Link!TypeOK'
  BY <1>1 DEF Link!TypeOK
<1> QED BY <1>1, <1>2 DEF LinkInv, LinkTypes, Link!SuccessMeansDone, Asks, Waits, Tells

LEMMA LinkStep == ASSUME LinkSound, LinkInv, [Link!Next]_(Link!vars) PROVE LinkInv'
<1>1. CASE UNCHANGED Link!vars
  BY <1>1 DEF Link!vars, LinkInv, LinkTypes, Link!TypeOK, Link!SuccessMeansDone, Asks, Waits, Tells
<1>2. ASSUME NEW c \in Caller, Link!GivesUp(c) PROVE LinkInv'
  BY <1>2, FailsStep DEF Link!GivesUp, Link!AckTimeout, Link!DoneTimeout, Link!PeerGone, Within
<1>3. ASSUME NEW c \in Caller, Link!Goes(c) PROVE LinkInv'
  BY <1>3, LinkOpenStep, AcquireStep, SendStep, HearStep DEF Link!Goes
<1> QED BY <1>1, <1>2, <1>3, BeginsStep, TakesStep, EndsStep, DropsStep DEF Link!Next

\* A motion that was reported finished has been carried out under its own id, whatever answers are
\* late, belong to other commands or are lost with their socket (tmflow_json_client.py).
THEOREM LinkAnswers == ASSUME LinkSound PROVE Link!Spec => [](Link!TypeOK /\ Link!SuccessMeansDone)
<1>1. Link!Init => LinkInv
  BY LinkInit
<1>2. LinkInv /\ [Link!Next]_(Link!vars) => LinkInv'
  BY LinkStep
<1>3. LinkInv => Link!TypeOK /\ Link!SuccessMeansDone
  BY DEF LinkInv, LinkTypes
<1> QED BY <1>1, <1>2, <1>3, PTL DEF Link!Spec

-----------------------------------------------------------------------------
(* The techmanpy link.                                                     *)

\* What an instance has to give.
TechmanSound == "free" \notin Caller /\ MaxCalls \in Nat

LoopState == {"starting", "published", "running", "stopping", "closed"}
TechmanCalls == [kind : Techman!Kinds \cup {"none"}, pc : {"idle", "ensure", "ready", "submit", "wait", "end"},
                 co : {"none", "queued", "tagged", "exit", "poll"}, loop : Nat, tag : Nat, seen : BOOLEAN,
                 blind : BOOLEAN, ok : BOOLEAN]
ControllerFlow == [listen : BOOLEAN, leave : BOOLEAN, vision : BOOLEAN, queue : Seq(Nat), done : SUBSET Nat]

\* Where the coroutine of a call is tells what the call is for.
CoFits(c) ==
    /\ request[c].co \in {"exit", "poll"} => request[c].kind = "vision"
    /\ request[c].co = "tagged" => request[c].kind = "motion"
    /\ request[c].pc \in {"ensure", "ready", "submit"} => request[c].co = "none"
    /\ request[c].seen => request[c].co = "poll"

\* Once a Vision cycle has seen the flow out of Listen, the flow comes back with Vision run, unless what it saw
\* was a probe that failed.
VisionOnItsWay(c) == request[c].co = "poll" /\ request[c].seen => ~flow.listen \/ flow.vision \/ request[c].blind

Succeeds(c) == Techman!Triggered(c) => flow.vision \/ request[c].blind

TechmanInv ==
    /\ Techman!TypeOK /\ request \in [Caller -> TechmanCalls] /\ flow \in ControllerFlow
    /\ ready => current # 0
    /\ \A c, d \in Caller : c # d /\ request[c].kind # "none" => request[c].kind # request[d].kind
    /\ \A c \in Caller : CoFits(c) /\ VisionOnItsWay(c)
    /\ Techman!VisionHasRun

LEMMA TechmanInit == ASSUME TechmanSound, Techman!Init PROVE TechmanInv
<1>1. Techman!NoCall \in TechmanCalls
  BY DEF Techman!NoCall, TechmanCalls
<1>2. /\ request \in [Caller -> TechmanCalls] /\ \A c \in Caller : request[c] = Techman!NoCall
      /\ Techman!NoCall.kind = "none" /\ Techman!NoCall.pc = "idle" /\ Techman!NoCall.co = "none" /\ Techman!NoCall.loop = 0 /\ Techman!NoCall.seen = FALSE
  BY <1>1 DEF Techman!Init, Techman!NoCall
<1>3. flow \in ControllerFlow
  <2>1. <<>> \in Seq(Nat)
    OBVIOUS
  <2> QED BY <2>1 DEF Techman!Init, ControllerFlow
<1>4. loops = <<>> /\ loops \in Seq(LoopState) /\ Len(loops) = 0
  BY DEF Techman!Init
<1>5. current = 0 /\ ready = FALSE /\ loopLock = "free" /\ connected = FALSE /\ tag = 0 /\ calls = 0
  BY DEF Techman!Init
<1>6. Techman!TypeOK
  <2>1. current \in 0..Len(loops) /\ calls \in 0..MaxCalls /\ tag \in Nat
    BY <1>4, <1>5 DEF TechmanSound
  <2>2. \A c \in Caller : loopLock # c /\ request[c].pc # "ready" /\ request[c].loop \in 0..Len(loops)
    BY <1>2, <1>4, <1>5 DEF TechmanSound
  <2> QED BY <1>2, <1>4, <1>5, <2>1, <2>2 DEF Techman!TypeOK, Techman!At, LoopState
<1> QED BY <1>2, <1>3, <1>5, <1>6 DEF TechmanInv, CoFits, VisionOnItsWay, Techman!VisionHasRun, Techman!At,
      Techman!Triggered

\* What one call does.
LEMMA CallMoves ==
    ASSUME TechmanSound, TechmanInv, NEW c \in Caller,
           request' \in [Caller -> TechmanCalls], \A d \in Caller : d # c => request'[d] = request[d],
           loops' \in Seq(LoopState), Len(loops') >= Len(loops), current' \in 0..Len(loops'),
           ready' \in BOOLEAN, ready' => current' # 0,
           IF request'[c].pc = "ready" THEN loopLock \in {c, "free"} /\ loopLock' = c
                                       ELSE loopLock' = IF loopLock = c THEN "free" ELSE loopLock,
           request'[c].loop <= Len(loops'), request'[c].pc \in {"submit", "wait"} => request'[c].loop # 0,
           \/ request'[c].kind \in {"none", request[c].kind}
           \/ \A d \in Caller : request[d].kind # request'[c].kind,
           connected' \in BOOLEAN, tag' \in Nat, calls' \in 0..MaxCalls,
           flow' \in ControllerFlow,
           (flow'.vision = flow.vision /\ flow'.listen = flow.listen) \/ request[c].kind = "vision",
           CoFits(c)', VisionOnItsWay(c)', Succeeds(c)'
    PROVE  TechmanInv'
<1>1. Techman!TypeOK /\ request \in [Caller -> TechmanCalls] /\ Len(loops) \in Nat /\ Len(loops') \in Nat
  BY DEF TechmanInv, Techman!TypeOK
<1>2. \A d \in Caller : request'[d].loop \in 0..Len(loops')
  <2> TAKE d \in Caller
  <2>1. CASE d = c
    BY <1>1, <2>1 DEF TechmanCalls
  <2>2. CASE d # c
    BY <1>1, <2>2 DEF Techman!TypeOK
  <2> QED BY <2>1, <2>2
<1>3. loopLock' \in Caller \cup {"free"} /\ \A d \in Caller : (loopLock' = d) <=> Techman!At(d, "ready")'
  <2>1. loopLock \in Caller \cup {"free"} /\ \A d \in Caller : (loopLock = d) <=> Techman!At(d, "ready")
    BY <1>1 DEF Techman!TypeOK
  <2> QED BY <1>1, <2>1 DEF TechmanSound, Techman!At
<1>4. Techman!TypeOK'
  <2>1. \A d \in Caller : request'[d].pc \in {"submit", "wait"} => request'[d].loop # 0
    BY <1>1 DEF Techman!TypeOK
  <2>2. \A d \in Caller : /\ request'[d].kind \in Techman!Kinds \cup {"none"}
                          /\ request'[d].pc \in {"idle", "ensure", "ready", "submit", "wait", "end"}
    BY DEF TechmanCalls
  <2> QED BY <1>1, <1>2, <1>3, <2>1, <2>2 DEF Techman!TypeOK, LoopState
<1>5. \A d, e \in Caller : d # e /\ request'[d].kind # "none" => request'[d].kind # request'[e].kind
  BY DEF TechmanInv
<1>6. \A d \in Caller : CoFits(d)' /\ VisionOnItsWay(d)' /\ Succeeds(d)'
  <2> TAKE d \in Caller
  <2>1. CASE d = c
    BY <2>1
  <2>2. CASE d # c
    <3>1. request'[d] = request[d] /\ CoFits(d) /\ VisionOnItsWay(d) /\ Succeeds(d)
      BY <2>2 DEF TechmanInv, Techman!VisionHasRun, Succeeds, Techman!Triggered
    <3>2. (flow'.vision = flow.vision /\ flow'.listen = flow.listen) \/ request[d].kind # "vision"
      BY <2>2 DEF TechmanInv
    <3> QED BY <3>1, <3>2 DEF CoFits, VisionOnItsWay, Succeeds, Techman!Triggered, Techman!At
  <2> QED BY <2>1, <2>2
<1> QED BY <1>4, <1>5, <1>6 DEF TechmanInv, Techman!VisionHasRun, Succeeds, Techman!Triggered

\* What is read off the invariant for a step that leaves the adapter alone.
AdapterFits ==
    /\ loops \in Seq(LoopState) /\ Len(loops) \in Nat /\ current \in 0..Len(loops) /\ ready \in BOOLEAN
    /\ ready => current # 0
    /\ connected \in BOOLEAN /\ tag \in Nat /\ calls \in 0..MaxCalls /\ flow \in ControllerFlow
    /\ request \in [Caller -> TechmanCalls]
    /\ \A c \in Caller : /\ request[c] \in TechmanCalls /\ request[c].loop <= Len(loops) /\ CoFits(c) /\ VisionOnItsWay(c) /\ Succeeds(c)
                         /\ request[c].pc \in {"submit", "wait"} => request[c].loop # 0
                         /\ (loopLock = c) <=> (request[c].pc = "ready")
LEMMA AdapterParts == ASSUME TechmanInv PROVE AdapterFits
  BY DEF TechmanInv, Techman!TypeOK, AdapterFits, Techman!VisionHasRun, Succeeds, Techman!Triggered, Techman!At, LoopState

\* A call is over, with or without success.
LEMMA EndsType ==
    ASSUME TechmanInv, NEW c \in Caller, NEW ok \in BOOLEAN, Techman!Ends(c, ok)
    PROVE  /\ request' \in [Caller -> TechmanCalls] /\ \A d \in Caller : d # c => request'[d] = request[d]
           /\ request'[c].kind = request[c].kind /\ request'[c].pc = "end" /\ request'[c].ok = ok /\ request'[c].co = request[c].co
           /\ request'[c].loop = request[c].loop /\ request'[c].seen = request[c].seen /\ request'[c].blind = request[c].blind
<1>1. request \in [Caller -> TechmanCalls]
  BY DEF TechmanInv
<1> QED BY <1>1 DEF Techman!Ends, TechmanCalls

LEMMA CallEnds ==
    ASSUME TechmanSound, TechmanInv, NEW c \in Caller, NEW ok \in BOOLEAN, Techman!Ends(c, ok), request[c].pc # "ready",
           UNCHANGED <<Techman!adapter, connected, calls, tag>>, flow' \in ControllerFlow, UNCHANGED <<flow.vision, flow.listen>>,
           ok /\ request[c].kind = "vision" => flow.vision \/ request[c].blind
    PROVE  TechmanInv'
<1>1. AdapterFits /\ UNCHANGED <<loops, current, ready, loopLock>>
  BY AdapterParts DEF Techman!adapter
<1>2. /\ request' \in [Caller -> TechmanCalls] /\ \A d \in Caller : d # c => request'[d] = request[d]
      /\ request'[c].kind = request[c].kind /\ request'[c].pc = "end" /\ request'[c].ok = ok /\ request'[c].co = request[c].co
      /\ request'[c].loop = request[c].loop /\ request'[c].seen = request[c].seen /\ request'[c].blind = request[c].blind
  BY EndsType
<1>3. CoFits(c)' /\ VisionOnItsWay(c)' /\ Succeeds(c)'
  BY <1>1, <1>2 DEF AdapterFits, CoFits, VisionOnItsWay, Succeeds, Techman!Triggered, Techman!At
<1> QED BY <1>1, <1>2, <1>3, CallMoves DEF AdapterFits

LEMMA BeginStep == ASSUME TechmanSound, TechmanInv, NEW c \in Caller, Techman!Begin(c) PROVE TechmanInv'
<1>1. AdapterFits /\ UNCHANGED <<loops, current, ready, loopLock, connected, flow, tag>>
      /\ request[c].pc = "idle" /\ calls' = calls + 1 /\ calls < MaxCalls
  BY AdapterParts DEF Techman!adapter, Techman!Begin, Techman!At
<1>2. PICK k \in Techman!Kinds : /\ \A d \in Caller : request[d].kind # k
                                 /\ request' = [request EXCEPT ![c] = [Techman!NoCall EXCEPT !.kind = k, !.pc = "ensure"]]
  BY DEF Techman!Begin
<1> DEFINE new == [Techman!NoCall EXCEPT !.kind = k, !.pc = "ensure"]
<1>3. /\ new \in TechmanCalls /\ new.kind = k /\ new.pc = "ensure" /\ new.co = "none" /\ new.loop = 0 /\ new.seen = FALSE
  BY DEF Techman!NoCall, TechmanCalls
<1> HIDE DEF new
<1>4. /\ request' \in [Caller -> TechmanCalls] /\ \A d \in Caller : d # c => request'[d] = request[d]
      /\ request'[c] = new
  BY <1>1, <1>2, <1>3 DEF AdapterFits, new
<1>5. CoFits(c)' /\ VisionOnItsWay(c)' /\ Succeeds(c)'
  BY <1>3, <1>4 DEF CoFits, VisionOnItsWay, Succeeds, Techman!Triggered, Techman!At
<1>6. calls' \in 0..MaxCalls
  BY <1>1 DEF AdapterFits, TechmanSound
<1>7. loopLock # c /\ Len(loops') >= 0 /\ Len(loops') >= Len(loops)
  BY <1>1 DEF AdapterFits
<1>8. /\ loops' \in Seq(LoopState) /\ current' \in 0..Len(loops') /\ ready' \in BOOLEAN /\ (ready' => current' # 0)
      /\ connected' \in BOOLEAN /\ tag' \in Nat /\ flow' \in ControllerFlow
      /\ flow'.vision = flow.vision /\ flow'.listen = flow.listen
  BY <1>1 DEF AdapterFits
<1> QED BY <1>1, <1>2, <1>3, <1>4, <1>5, <1>6, <1>7, <1>8, CallMoves

LEMMA ReturnStep == ASSUME TechmanSound, TechmanInv, NEW c \in Caller, Techman!Return(c) PROVE TechmanInv'
<1>1. AdapterFits /\ UNCHANGED <<loops, current, ready, loopLock, flow, tag, calls>> /\ request[c].pc = "end"
  BY AdapterParts DEF Techman!adapter, Techman!Return, Techman!At
<1>2. Techman!NoCall \in TechmanCalls /\ Techman!NoCall.kind = "none" /\ Techman!NoCall.pc = "idle" /\ Techman!NoCall.co = "none" /\ Techman!NoCall.loop = 0
      /\ Techman!NoCall.seen = FALSE
  BY DEF Techman!NoCall, TechmanCalls
<1>3. /\ request' \in [Caller -> TechmanCalls] /\ \A d \in Caller : d # c => request'[d] = request[d]
      /\ request'[c] = Techman!NoCall /\ connected' \in BOOLEAN
  BY <1>1, <1>2 DEF AdapterFits, Techman!Return, TechmanCalls
<1>4. CoFits(c)' /\ VisionOnItsWay(c)' /\ Succeeds(c)'
  BY <1>2, <1>3 DEF CoFits, VisionOnItsWay, Succeeds, Techman!Triggered, Techman!At
<1> QED BY <1>1, <1>2, <1>3, <1>4, CallMoves DEF AdapterFits

LEMMA EnsureStep == ASSUME TechmanSound, TechmanInv, NEW c \in Caller, Techman!EnsureLoop(c) PROVE TechmanInv'
<1>1. AdapterFits /\ UNCHANGED <<current, connected, flow, tag, calls>> /\ request[c].pc = "ensure" /\ loopLock = "free" /\ loopLock # c
  BY AdapterParts DEF Techman!adapter, Techman!EnsureLoop, Techman!At, TechmanSound
<1>2. CASE /\ Techman!IsRunning(current) /\ request' = [request EXCEPT ![c].pc = "submit", ![c].loop = current]
           /\ UNCHANGED Techman!adapter
  <2>1. current # 0 /\ current \in Nat /\ current <= Len(loops) /\ UNCHANGED <<loops, ready, loopLock>>
    BY <1>1, <1>2 DEF Techman!IsRunning, AdapterFits, Techman!adapter
  <2>0. request \in [Caller -> TechmanCalls] /\ request' = [request EXCEPT ![c].pc = "submit", ![c].loop = current]
    BY <1>1, <1>2 DEF AdapterFits
  <2>2. /\ request' \in [Caller -> TechmanCalls] /\ \A d \in Caller : d # c => request'[d] = request[d]
        /\ request'[c].kind = request[c].kind /\ request'[c].pc = "submit" /\ request'[c].co = request[c].co
        /\ request'[c].loop = current /\ request'[c].seen = request[c].seen /\ request'[c].blind = request[c].blind
    BY <2>0, <2>1 DEF TechmanCalls
  <2>3. CoFits(c)' /\ VisionOnItsWay(c)' /\ Succeeds(c)'
    BY <1>1, <2>2 DEF AdapterFits, CoFits, VisionOnItsWay, Succeeds, Techman!Triggered, Techman!At
  <2> QED BY <1>1, <2>1, <2>2, <2>3, CallMoves DEF AdapterFits
<1>3. CASE loops' = Append(loops, "starting") /\ ready' = FALSE /\ loopLock' = c /\ Techman!Goto(c, "ready")
  <2>1. loops' \in Seq(LoopState) /\ Len(loops') = Len(loops) + 1
    BY <1>1, <1>3 DEF AdapterFits, LoopState
  <2>2. /\ request' \in [Caller -> TechmanCalls] /\ \A d \in Caller : d # c => request'[d] = request[d]
        /\ request'[c].kind = request[c].kind /\ request'[c].pc = "ready" /\ request'[c].co = request[c].co
        /\ request'[c].loop = request[c].loop /\ request'[c].seen = request[c].seen /\ request'[c].blind = request[c].blind
    BY <1>1, <1>3 DEF AdapterFits, TechmanCalls, Techman!Goto
  <2>3. CoFits(c)' /\ VisionOnItsWay(c)' /\ Succeeds(c)'
    BY <1>1, <2>2 DEF AdapterFits, CoFits, VisionOnItsWay, Succeeds, Techman!Triggered, Techman!At
  <2>4. current' \in 0..Len(loops') /\ request'[c].loop <= Len(loops') /\ Len(loops') >= Len(loops)
    BY <1>1, <2>1, <2>2 DEF AdapterFits, TechmanCalls
  <2> QED BY <1>1, <1>3, <2>1, <2>2, <2>3, <2>4, CallMoves DEF AdapterFits
<1> QED BY <1>2, <1>3 DEF Techman!EnsureLoop

LEMMA ReadyStep == ASSUME TechmanSound, TechmanInv, NEW c \in Caller, Techman!LoopIsReady(c) PROVE TechmanInv'
<1>1. AdapterFits /\ UNCHANGED <<loops, current, ready, connected, flow, tag, calls>> /\ request[c].pc = "ready"
      /\ loopLock = c /\ loopLock' = "free"
  BY AdapterParts DEF Techman!LoopIsReady, Techman!At, AdapterFits
<1>2. CASE ready /\ request' = [request EXCEPT ![c].pc = "submit", ![c].loop = current]
  <2>1. current # 0 /\ current \in Nat /\ current <= Len(loops)
    BY <1>1, <1>2 DEF AdapterFits
  <2>2. /\ request' \in [Caller -> TechmanCalls] /\ \A d \in Caller : d # c => request'[d] = request[d]
        /\ request'[c].kind = request[c].kind /\ request'[c].pc = "submit" /\ request'[c].co = request[c].co
        /\ request'[c].loop = current /\ request'[c].seen = request[c].seen /\ request'[c].blind = request[c].blind
    BY <1>1, <1>2, <2>1 DEF AdapterFits, TechmanCalls
  <2>3. CoFits(c)' /\ VisionOnItsWay(c)' /\ Succeeds(c)'
    BY <1>1, <2>2 DEF AdapterFits, CoFits, VisionOnItsWay, Succeeds, Techman!Triggered, Techman!At
  <2> QED BY <1>1, <2>1, <2>2, <2>3, CallMoves DEF AdapterFits
<1>3. CASE Techman!Ends(c, FALSE)
  <2>1. /\ request' \in [Caller -> TechmanCalls] /\ \A d \in Caller : d # c => request'[d] = request[d]
        /\ request'[c].kind = request[c].kind /\ request'[c].pc = "end" /\ request'[c].ok = FALSE /\ request'[c].co = request[c].co
        /\ request'[c].loop = request[c].loop /\ request'[c].seen = request[c].seen /\ request'[c].blind = request[c].blind
    BY <1>3, EndsType
  <2>2. CoFits(c)' /\ VisionOnItsWay(c)' /\ Succeeds(c)'
    BY <1>1, <2>1 DEF AdapterFits, CoFits, VisionOnItsWay, Succeeds, Techman!Triggered, Techman!At
  <2> QED BY <1>1, <2>1, <2>2, CallMoves DEF AdapterFits
<1> QED BY <1>2, <1>3 DEF Techman!LoopIsReady

LEMMA SubmitStep == ASSUME TechmanSound, TechmanInv, NEW c \in Caller, Techman!Submit(c) PROVE TechmanInv'
<1>1. AdapterFits /\ UNCHANGED <<Techman!adapter, connected, flow, tag, calls>> /\ request[c].pc = "submit"
      /\ UNCHANGED <<loops, current, ready, loopLock>>
  BY AdapterParts DEF Techman!Submit, Techman!At, Techman!adapter
<1>2. CASE Techman!Ends(c, FALSE)
  BY <1>1, <1>2, CallEnds DEF AdapterFits
<1>3. CASE request' = [request EXCEPT ![c].pc = "wait", ![c].co = "queued"]
  <2>1. /\ request' \in [Caller -> TechmanCalls] /\ \A d \in Caller : d # c => request'[d] = request[d]
        /\ request'[c].kind = request[c].kind /\ request'[c].pc = "wait" /\ request'[c].co = "queued"
        /\ request'[c].loop = request[c].loop /\ request'[c].seen = request[c].seen /\ request'[c].blind = request[c].blind
    BY <1>1, <1>3 DEF AdapterFits, TechmanCalls
  <2>2. CoFits(c)' /\ VisionOnItsWay(c)' /\ Succeeds(c)'
    BY <1>1, <2>1 DEF AdapterFits, CoFits, VisionOnItsWay, Succeeds, Techman!Triggered, Techman!At
  <2> QED BY <1>1, <2>1, <2>2, CallMoves DEF AdapterFits
<1> QED BY <1>2, <1>3 DEF Techman!Submit

LEMMA TimesOutStep ==
    ASSUME TechmanSound, TechmanInv, NEW c \in Caller, Techman!OperationTimesOut(c)
    PROVE  TechmanInv'
<1>1. AdapterFits /\ UNCHANGED <<Techman!adapter, connected, flow, tag, calls>> /\ request[c].pc = "wait" /\ Techman!Ends(c, FALSE)
  BY AdapterParts DEF Techman!OperationTimesOut, Techman!At
<1> QED BY <1>1, CallEnds DEF AdapterFits

\* A coroutine that waits goes on to its next place.
LEMMA CoGoesOn ==
    ASSUME TechmanSound, TechmanInv, NEW c \in Caller, request[c].pc = "wait", UNCHANGED <<Techman!adapter, connected, calls>>,
           request' \in [Caller -> TechmanCalls], \A d \in Caller : d # c => request'[d] = request[d],
           request'[c].kind = request[c].kind, request'[c].pc = "wait", request'[c].loop = request[c].loop,
           request'[c].co # "none", request'[c].co \in {"exit", "poll"} => request[c].kind = "vision",
           request'[c].co = "tagged" => request[c].kind = "motion", request'[c].seen => request'[c].co = "poll",
           VisionOnItsWay(c)', tag' \in Nat, flow' \in ControllerFlow,
           UNCHANGED <<flow.vision, flow.listen>> \/ request[c].kind = "vision"
    PROVE  TechmanInv'
<1>1. AdapterFits /\ UNCHANGED <<loops, current, ready, loopLock>>
  BY AdapterParts DEF Techman!adapter
<1>2. CoFits(c)' /\ Succeeds(c)'
  BY <1>1 DEF CoFits, Succeeds, Techman!Triggered, Techman!At
<1> QED BY <1>1, <1>2, CallMoves DEF AdapterFits

LEMMA CoroutineStep == ASSUME TechmanSound, TechmanInv, NEW c \in Caller, Techman!Coroutine(c) PROVE TechmanInv'
<1>1. /\ AdapterFits /\ request[c].pc = "wait" /\ UNCHANGED <<Techman!adapter, connected, calls>>
  BY AdapterParts DEF Techman!Coroutine, Techman!CheckListen, Techman!SendScript, Techman!Arrived,
        Techman!SendCommand, Techman!ExitListen, Techman!Probe, Techman!Runs, Techman!At, Techman!CoKeeps
<1>2. ASSUME UNCHANGED <<flow, tag>> PROVE tag' \in Nat /\ flow' \in ControllerFlow /\ UNCHANGED <<flow.vision, flow.listen>>
  BY <1>1, <1>2 DEF AdapterFits
<1>3. CASE Techman!Ends(c, FALSE) /\ UNCHANGED <<flow, tag>>
  BY <1>1, <1>2, <1>3, CallEnds
<1>4. CASE Techman!CheckListen(c)
  <2>1. CASE request[c].kind = "connect" /\ Techman!Ends(c, flow.listen) /\ UNCHANGED <<flow, tag>>
    <3>1. flow.listen \in BOOLEAN
      BY <1>1 DEF AdapterFits, ControllerFlow
    <3> QED BY <1>1, <1>2, <2>1, <3>1, CallEnds
  <2>2. CASE request[c].kind = "vision" /\ request' = [request EXCEPT ![c].co = "exit"] /\ UNCHANGED <<flow, tag>>
    <3>1. /\ request' \in [Caller -> TechmanCalls] /\ \A d \in Caller : d # c => request'[d] = request[d]
          /\ request'[c].kind = request[c].kind /\ request'[c].pc = "wait" /\ request'[c].co = "exit"
          /\ request'[c].loop = request[c].loop /\ request'[c].seen = request[c].seen /\ request'[c].blind = request[c].blind
      BY <1>1, <2>2 DEF AdapterFits, TechmanCalls
    <3>2. request[c].co = "queued" /\ ~request[c].seen
      BY <1>1, <1>4 DEF Techman!CheckListen, Techman!Runs, AdapterFits, CoFits
    <3> QED BY <1>1, <1>2, <2>2, <3>1, <3>2, CoGoesOn DEF VisionOnItsWay
  <2> QED BY <1>3, <1>4, <2>1, <2>2 DEF Techman!CheckListen, Techman!Raises
<1>5. CASE Techman!SendScript(c)
  <2>1. CASE /\ tag' = tag + 1 /\ flow' = [flow EXCEPT !.queue = Append(@, tag')]
             /\ request' = [request EXCEPT ![c].co = "tagged", ![c].tag = tag']
    <3>1. tag' \in Nat /\ flow' \in ControllerFlow /\ UNCHANGED <<flow.vision, flow.listen>>
      <4>1. tag' \in Nat /\ flow \in ControllerFlow
        BY <1>1, <2>1 DEF AdapterFits
      <4>2. PICK n \in Nat : n = tag' /\ flow' = [flow EXCEPT !.queue = Append(flow.queue, n)]
        BY <2>1, <4>1
      <4>3. Append(flow.queue, n) \in Seq(Nat)
        BY <4>1, <4>2 DEF ControllerFlow
      <4> QED BY <4>1, <4>2, <4>3 DEF ControllerFlow
    <3>2. /\ request' \in [Caller -> TechmanCalls] /\ \A d \in Caller : d # c => request'[d] = request[d]
          /\ request'[c].kind = request[c].kind /\ request'[c].pc = "wait" /\ request'[c].co = "tagged"
          /\ request'[c].loop = request[c].loop /\ request'[c].seen = request[c].seen /\ request'[c].blind = request[c].blind
      <4>1. PICK n \in Nat : request' = [request EXCEPT ![c].co = "tagged", ![c].tag = n]
        BY <2>1, <3>1
      <4>2. request \in [Caller -> TechmanCalls] /\ request[c].pc = "wait"
        BY <1>1 DEF AdapterFits
      <4> QED BY <4>1, <4>2 DEF TechmanCalls
    <3>3. request[c].co = "queued" /\ ~request[c].seen /\ request[c].kind = "motion"
      BY <1>1, <1>5 DEF Techman!SendScript, Techman!Runs, AdapterFits, CoFits
    <3> QED BY <1>1, <3>1, <3>2, <3>3, CoGoesOn DEF VisionOnItsWay
  <2> QED BY <1>3, <1>5, <2>1 DEF Techman!SendScript, Techman!Raises
<1>6. CASE Techman!Arrived(c)
  <2>1. Techman!Ends(c, TRUE) /\ UNCHANGED <<flow, tag>> /\ request[c].kind = "motion"
    BY <1>1, <1>6 DEF Techman!Arrived, Techman!Runs, AdapterFits, CoFits
  <2> QED BY <1>1, <1>2, <2>1, CallEnds
<1>7. CASE Techman!SendCommand(c)
  <2>1. CASE /\ Techman!Ends(c, TRUE) /\ UNCHANGED tag
             /\ flow' = IF request[c].kind = "halt" THEN [flow EXCEPT !.queue = <<>>] ELSE flow
    <3>1. <<>> \in Seq(Nat)
      OBVIOUS
    <3>2. flow' \in ControllerFlow /\ UNCHANGED <<flow.vision, flow.listen>>
      BY <1>1, <2>1, <3>1 DEF AdapterFits, ControllerFlow
    <3>3. request[c].kind # "vision"
      BY <1>7 DEF Techman!SendCommand
    <3> QED BY <1>1, <2>1, <3>2, <3>3, CallEnds
  <2> QED BY <1>3, <1>7, <2>1 DEF Techman!SendCommand, Techman!Raises
<1>8. CASE Techman!ExitListen(c)
  <2>1. request[c].co = "exit" /\ request[c].kind = "vision" /\ ~request[c].seen
    BY <1>1, <1>8 DEF Techman!ExitListen, Techman!Runs, AdapterFits, CoFits
  <2>2. CASE /\ flow' = [flow EXCEPT !.leave = flow.listen, !.vision = FALSE]
             /\ request' = [request EXCEPT ![c].co = "poll"] /\ UNCHANGED tag
    <3>1. tag' \in Nat /\ flow' \in ControllerFlow
      BY <1>1, <2>2 DEF AdapterFits, ControllerFlow
    <3>2. /\ request' \in [Caller -> TechmanCalls] /\ \A d \in Caller : d # c => request'[d] = request[d]
          /\ request'[c].kind = request[c].kind /\ request'[c].pc = "wait" /\ request'[c].co = "poll"
          /\ request'[c].loop = request[c].loop /\ request'[c].seen = request[c].seen /\ request'[c].blind = request[c].blind
      BY <1>1, <2>2 DEF AdapterFits, TechmanCalls
    <3> QED BY <1>1, <2>1, <3>1, <3>2, CoGoesOn DEF VisionOnItsWay
  <2> QED BY <1>3, <1>8, <2>2 DEF Techman!ExitListen, Techman!Raises
<1>9. CASE Techman!Probe(c)
  <2>1. /\ request[c].co = "poll" /\ request[c].kind = "vision" /\ UNCHANGED <<flow, tag>>
        /\ request[c].seen => ~flow.listen \/ flow.vision \/ request[c].blind
    BY <1>1, <1>9 DEF Techman!Probe, Techman!Runs, AdapterFits, CoFits, VisionOnItsWay
  <2>2. flow.listen \in BOOLEAN
    BY <1>1 DEF AdapterFits, ControllerFlow
  <2>3. PICK active \in {flow.listen, FALSE} :
             IF active /\ request[c].seen THEN Techman!Ends(c, TRUE)
             ELSE request' = [request EXCEPT ![c].seen = @ \/ ~active, ![c].blind = @ \/ active # flow.listen]
    BY <1>9 DEF Techman!Probe
  <2>4. CASE active /\ request[c].seen
    <3>1. Techman!Ends(c, TRUE) /\ flow.listen
      BY <2>2, <2>3, <2>4
    <3>2. flow.vision \/ request[c].blind
      BY <2>1, <2>4, <3>1
    <3>3. flow' \in ControllerFlow /\ UNCHANGED <<flow.vision, flow.listen>> /\ UNCHANGED tag
      BY <1>1, <2>1 DEF AdapterFits
    <3> QED BY <1>1, <1>2, <3>1, <3>2, <3>3, CallEnds
  <2>5. CASE ~(active /\ request[c].seen)
    <3> DEFINE seen == request[c].seen \/ ~active
               blind == request[c].blind \/ active # flow.listen
    <3>1. /\ seen \in BOOLEAN /\ blind \in BOOLEAN
          /\ request' = [request EXCEPT ![c].seen = seen, ![c].blind = blind]
          /\ seen => ~flow.listen \/ flow.vision \/ blind
      BY <1>1, <2>1, <2>2, <2>3, <2>5 DEF AdapterFits, TechmanCalls
    <3> HIDE DEF seen, blind
    <3>2. /\ request' \in [Caller -> TechmanCalls] /\ \A d \in Caller : d # c => request'[d] = request[d]
          /\ request'[c].kind = request[c].kind /\ request'[c].pc = "wait" /\ request'[c].co = "poll"
          /\ request'[c].loop = request[c].loop /\ request'[c].seen = seen /\ request'[c].blind = blind
      <4>1. request \in [Caller -> TechmanCalls] /\ request[c].pc = "wait"
        BY <1>1 DEF AdapterFits
      <4>2. request' = [request EXCEPT ![c] = [request[c] EXCEPT !.seen = seen, !.blind = blind]]
        BY <3>1
      <4>3. [request[c] EXCEPT !.seen = seen, !.blind = blind] \in TechmanCalls
        BY <3>1, <4>1 DEF TechmanCalls
      <4> QED BY <2>1, <4>1, <4>2, <4>3 DEF TechmanCalls
    <3>3. VisionOnItsWay(c)'
      BY <2>1, <3>1, <3>2 DEF VisionOnItsWay
    <3> QED BY <1>1, <1>2, <2>1, <3>2, <3>3, CoGoesOn
  <2> QED BY <2>4, <2>5
<1> QED BY <1>4, <1>5, <1>6, <1>7, <1>8, <1>9 DEF Techman!Coroutine

LEMMA LoopsStep == ASSUME TechmanSound, TechmanInv, NEW g \in DOMAIN loops, Techman!LoopStep(g) PROVE TechmanInv'
<1>1. /\ AdapterFits /\ Techman!TypeOK /\ loops \in Seq(LoopState) /\ Len(loops) \in Nat /\ g \in 1..Len(loops)
      /\ UNCHANGED <<connected, flow, tag, calls, loopLock>>
  <2>1. AdapterFits /\ Techman!TypeOK /\ loops \in Seq(LoopState) /\ Len(loops) \in Nat
    BY AdapterParts DEF AdapterFits, TechmanInv
  <2>2. g \in 1..Len(loops)
    BY <2>1
  <2> QED BY <2>1, <2>2 DEF Techman!LoopStep, Techman!LoopPublished, Techman!LoopRuns, Techman!LoopCloses
<1>2. loops' \in Seq(LoopState) /\ Len(loops') = Len(loops)
  <2>1. PICK state \in LoopState : loops' = [loops EXCEPT ![g] = state]
    BY DEF Techman!LoopStep, Techman!LoopPublished, Techman!LoopRuns, Techman!LoopCloses, LoopState
  <2> QED BY <1>1, <2>1, ExceptSeq DEF AdapterFits
<1>3. current' \in 0..Len(loops') /\ ready' \in BOOLEAN /\ (ready' => current' # 0)
  <2>1. current \in 0..Len(loops) /\ ready \in BOOLEAN /\ (ready => current # 0)
    BY <1>1 DEF AdapterFits
  <2>2. (current' = g /\ ready' = TRUE) \/ UNCHANGED <<current, ready>>
    BY DEF Techman!LoopStep, Techman!LoopPublished, Techman!LoopRuns, Techman!LoopCloses
  <2>3. CASE UNCHANGED <<current, ready>>
    BY <1>2, <2>1, <2>3
  <2>4. CASE current' = g /\ ready' = TRUE
    <3>1. g \in 0..Len(loops') /\ g # 0
      BY <1>1, <1>2
    <3> QED BY <2>4, <3>1
  <2> QED BY <2>2, <2>3, <2>4
<1>4. /\ request' \in [Caller -> TechmanCalls]
      /\ \A c \in Caller : \/ request'[c] = request[c]
                           \/ /\ request[c].pc = "wait" /\ request'[c].pc = "end" /\ request'[c].ok = FALSE
                              /\ request'[c].kind = request[c].kind /\ request'[c].co = request[c].co
                              /\ request'[c].loop = request[c].loop /\ request'[c].seen = request[c].seen /\ request'[c].blind = request[c].blind
  <2>1. CASE UNCHANGED request
    BY <1>1, <2>1 DEF AdapterFits
  <2>2. CASE request' = [c \in Caller |->
                       IF Techman!At(c, "wait") /\ request[c].loop = g /\ request[c].co # "queued"
                         THEN [request[c] EXCEPT !.pc = "end", !.ok = FALSE] ELSE request[c]]
    <3>1. \A c \in Caller : request[c] \in TechmanCalls
      BY <1>1 DEF AdapterFits
    <3>2. \A r \in TechmanCalls : LET e == [r EXCEPT !.pc = "end", !.ok = FALSE]
                          IN  /\ e \in TechmanCalls /\ e.pc = "end" /\ e.ok = FALSE /\ e.kind = r.kind /\ e.co = r.co
                              /\ e.loop = r.loop /\ e.seen = r.seen /\ e.blind = r.blind
      BY DEF TechmanCalls
    <3>3. \A c \in Caller : \/ request'[c] = request[c]
                            \/ request[c].pc = "wait" /\ request'[c] = [request[c] EXCEPT !.pc = "end", !.ok = FALSE]
      BY <2>2 DEF Techman!At
    <3>4. request' \in [Caller -> TechmanCalls]
      <4>1. \A c \in Caller : [request[c] EXCEPT !.pc = "end", !.ok = FALSE] \in TechmanCalls
        BY <3>1, <3>2
      <4> QED BY <2>2, <3>1, <4>1
    <3>5. \A c \in Caller : \/ request'[c] = request[c]
                            \/ /\ request[c].pc = "wait" /\ request'[c].pc = "end" /\ request'[c].ok = FALSE
                               /\ request'[c].kind = request[c].kind /\ request'[c].co = request[c].co
                               /\ request'[c].loop = request[c].loop /\ request'[c].seen = request[c].seen /\ request'[c].blind = request[c].blind
      <4> TAKE c \in Caller
      <4>1. CASE request[c].pc = "wait" /\ request'[c] = [request[c] EXCEPT !.pc = "end", !.ok = FALSE]
        <5>1. request[c] \in TechmanCalls
          BY <3>1
        <5> QED BY <3>2, <4>1, <5>1
      <4> QED BY <3>3, <4>1
    <3> QED BY <3>4, <3>5
  <2> QED BY <2>1, <2>2 DEF Techman!LoopStep, Techman!LoopPublished, Techman!LoopRuns, Techman!LoopCloses
<1>5. Techman!TypeOK'
  <2>1. \A c \in Caller : /\ request'[c].kind \in Techman!Kinds \cup {"none"} /\ request'[c].loop \in 0..Len(loops')
                          /\ request'[c].pc \in {"idle", "ensure", "ready", "submit", "wait", "end"}
                          /\ request'[c].pc \in {"submit", "wait"} => request'[c].loop # 0
                          /\ (loopLock' = c) <=> (request'[c].pc = "ready")
    <3> TAKE c \in Caller
    <3>1. request'[c].pc = "ready" <=> request[c].pc = "ready"
      BY <1>4
    <3> QED BY <1>1, <1>2, <1>4, <3>1 DEF AdapterFits, TechmanCalls
  <2> QED BY <1>1, <1>2, <1>3, <2>1 DEF Techman!TypeOK, LoopState, Techman!At
<1>6. \A c \in Caller : CoFits(c)' /\ VisionOnItsWay(c)' /\ Succeeds(c)'
  <2> TAKE c \in Caller
  <2>1. CoFits(c) /\ VisionOnItsWay(c) /\ Succeeds(c)
    BY <1>1 DEF AdapterFits
  <2> QED BY <1>1, <1>4, <2>1 DEF CoFits, VisionOnItsWay, Succeeds, Techman!Triggered, Techman!At
<1>7. \A c, d \in Caller : c # d /\ request'[c].kind # "none" => request'[c].kind # request'[d].kind
  BY <1>4 DEF TechmanInv
<1> QED BY <1>1, <1>3, <1>4, <1>5, <1>6, <1>7 DEF TechmanInv, Techman!VisionHasRun, Succeeds, Techman!Triggered, AdapterFits

\* disconnect, and the controller.
LEMMA OutsideStep == ASSUME TechmanSound, TechmanInv, Techman!Disconnect \/ Techman!Controller PROVE TechmanInv'
<1>1. AdapterFits /\ Techman!TypeOK /\ UNCHANGED <<request, loopLock, tag>>
  BY AdapterParts DEF TechmanInv, Techman!Disconnect, Techman!Controller, Techman!adapter
<1>2. /\ loops' \in Seq(LoopState) /\ Len(loops') = Len(loops) /\ current' \in 0..Len(loops')
      /\ ready' \in BOOLEAN /\ (ready' => current' # 0) /\ connected' \in BOOLEAN /\ calls' \in 0..MaxCalls
  <2>1. CASE Techman!Controller
    BY <1>1, <2>1 DEF AdapterFits, Techman!Controller, Techman!adapter
  <2>2. CASE Techman!Disconnect
    <3>1. loops' \in Seq(LoopState) /\ Len(loops') = Len(loops)
      <4>1. CASE Techman!IsRunning(current) /\ loops' = [loops EXCEPT ![current] = "stopping"]
        <5>1. "stopping" \in LoopState /\ current \in 1..Len(loops)
          BY <1>1, <4>1 DEF LoopState, AdapterFits, Techman!IsRunning
        <5> QED BY <1>1, <4>1, <5>1, ExceptSeq DEF AdapterFits
      <4>2. CASE loops' = loops
        BY <1>1, <4>2 DEF AdapterFits
      <4> QED BY <2>2, <4>1, <4>2 DEF Techman!Disconnect
    <3>2. calls' \in 0..MaxCalls /\ current' = 0 /\ ready' = FALSE /\ connected' = FALSE
      BY <1>1, <2>2 DEF AdapterFits, Techman!Disconnect, TechmanSound
    <3>3. 0 \in 0..Len(loops')
      BY <1>1, <3>1 DEF AdapterFits
    <3> QED BY <3>1, <3>2, <3>3
  <2> QED BY <2>1, <2>2
<1>3. /\ flow' \in ControllerFlow
      /\ flow.vision => flow'.vision
      /\ ~flow.listen \/ flow.vision => ~flow'.listen \/ flow'.vision
  <2>1. flow \in ControllerFlow
    BY <1>1 DEF AdapterFits
  <2>2. CASE UNCHANGED flow
    BY <2>1, <2>2
  <2>3. CASE Techman!Leaves
    BY <2>1, <2>3 DEF Techman!Leaves, ControllerFlow
  <2>4. CASE Techman!RunsVision
    BY <2>1, <2>4 DEF Techman!RunsVision, ControllerFlow
  <2>5. CASE Techman!Returns
    BY <2>1, <2>5 DEF Techman!Returns, ControllerFlow
  <2>6. CASE Techman!Moves
    <3>1. flow.queue \in Seq(Nat) /\ flow.queue # <<>> /\ flow.done \in SUBSET Nat
      BY <2>1, <2>6 DEF Techman!Moves, ControllerFlow
    <3>2. Tail(flow.queue) \in Seq(Nat) /\ flow.done \cup {Head(flow.queue)} \in SUBSET Nat
      BY <3>1
    <3>3. flow' = [flow EXCEPT !.queue = Tail(flow.queue), !.done = flow.done \cup {Head(flow.queue)}]
      BY <2>6 DEF Techman!Moves
    <3> QED BY <2>1, <3>2, <3>3 DEF ControllerFlow
  <2> QED BY <2>2, <2>3, <2>4, <2>5, <2>6 DEF Techman!Disconnect, Techman!Controller
<1>4. Techman!TypeOK'
  BY <1>1, <1>2 DEF Techman!TypeOK, LoopState, Techman!At
<1>5. \A c \in Caller : CoFits(c)' /\ VisionOnItsWay(c)' /\ Succeeds(c)'
  <2> TAKE c \in Caller
  <2>1. CoFits(c) /\ VisionOnItsWay(c) /\ Succeeds(c) /\ UNCHANGED request
    BY <1>1 DEF AdapterFits
  <2>2. CoFits(c)'
    BY <2>1 DEF CoFits
  <2>3. VisionOnItsWay(c)'
    BY <1>3, <2>1 DEF VisionOnItsWay
  <2>4. Succeeds(c)'
    BY <1>3, <2>1 DEF Succeeds, Techman!Triggered, Techman!At
  <2> QED BY <2>2, <2>3, <2>4
<1>6. /\ request' \in [Caller -> TechmanCalls]
      /\ \A c, d \in Caller : c # d /\ request'[c].kind # "none" => request'[c].kind # request'[d].kind
  BY <1>1 DEF TechmanInv, AdapterFits
<1> QED BY <1>2, <1>3, <1>4, <1>5, <1>6 DEF TechmanInv, Techman!VisionHasRun, Succeeds, Techman!Triggered

LEMMA TechmanStep == ASSUME TechmanSound, TechmanInv, [Techman!Next]_(Techman!vars) PROVE TechmanInv'
<1>1. CASE UNCHANGED Techman!vars
  BY <1>1 DEF Techman!vars, TechmanInv, Techman!TypeOK, Techman!VisionHasRun, CoFits, VisionOnItsWay, Techman!At, Techman!Triggered
<1>2. ASSUME NEW c \in Caller, Techman!CallStep(c) PROVE TechmanInv'
  BY <1>2, EnsureStep, ReadyStep, SubmitStep, TimesOutStep, ReturnStep DEF Techman!CallStep
<1> QED BY <1>1, <1>2, BeginStep, CoroutineStep, LoopsStep, OutsideStep DEF Techman!Next

\* A Vision job that succeeded has run since it was triggered, unless a probe that failed while the flow was
\* in Listen was taken for the flow being outside, also when disconnect closes the loop under the call
\* (techmanpy_adapter.py).
THEOREM TechmanAnswers == ASSUME TechmanSound PROVE Techman!Spec => [](Techman!TypeOK /\ Techman!VisionHasRun)
<1>1. Techman!Init => TechmanInv
  BY TechmanInit
<1>2. TechmanInv /\ [Techman!Next]_(Techman!vars) => TechmanInv'
  BY TechmanStep
<1>3. TechmanInv => Techman!TypeOK /\ Techman!VisionHasRun
  BY DEF TechmanInv
<1> QED BY <1>1, <1>2, <1>3, PTL DEF Techman!Spec

-----------------------------------------------------------------------------
(* The camera's sources.                                                   *)

\* What an instance has to give: sources and threads that are numbered, and bounds.
SourceSound == Sources \subseteq Nat /\ Threads \subseteq Nat /\ Size \in Nat /\ Switches \in Nat

Object == [kind : Source!Kind, running : BOOLEAN, stop : BOOLEAN, open : BOOLEAN, ref : Threads \cup {0}]
ThreadState == [of : Sources \cup {0}, live : BOOLEAN, pc : {"gone", "top"} \cup Source!Blocked \cup Source!Writing]
Managed == [at : Sources, running : BOOLEAN, switches : 0..Switches, pc : {"idle", "joining"}, next : Source!Kind \cup {"same"}]

\* A thread works for a source, a source that runs was not told to stop, and only a camera
\* is started again.
SourceInv ==
    /\ Source!TypeOK
    /\ \A t \in Threads : thread[t].pc # "gone" => thread[t].of \in Sources
    /\ \A s \in Sources : source[s].running => ~source[s].stop
    /\ manager.pc = "joining" /\ manager.next = "same" => source[manager.at].kind = "opencv"
    /\ Source!StreamReaderSurvives

LEMMA SourceTypes == Source!TypeOK <=> /\ queued \in 0..Size /\ manager \in Managed /\ source \in [Sources -> Object]
                                       /\ thread \in [Threads -> ThreadState] /\ poster \in {"idle"} \cup Source!Writing
  BY DEF Source!TypeOK, Object, ThreadState, Managed

LEMMA Least == ASSUME NEW S \in SUBSET Nat, S # {} PROVE \E n \in S : \A m \in S : n <= m
<1>1. PICK n \in S : \A m \in S : ~(<<m, n>> \in OpToRel(<, Nat))
  BY WFMin, NatLessThanWellFounded, Zenon
<1>2. \A m \in S : ~(m < n)
  BY <1>1, Zenon DEF OpToRel
<1>3. \A m \in S : m \in Nat
  OBVIOUS
<1>4. \A m \in S : n <= m
  BY <1>2, <1>3
<1> QED BY <1>4

LEMMA NewThread ==
    ASSUME SourceSound, Source!FreeThread # {}
    PROVE  Source!AThread \in Threads /\ thread[Source!AThread].pc = "gone"
<1>1. Source!FreeThread \in SUBSET Nat
  BY DEF Source!FreeThread, SourceSound
<1>2. Source!AThread \in Source!FreeThread
  BY <1>1, Least DEF Source!AThread
<1> QED BY <1>2 DEF Source!FreeThread

LEMMA NewSource == ASSUME SourceSound, Source!FreeSource # {}
                   PROVE  Source!ASource \in Sources /\ Source!ASource # manager.at /\ Source!ThreadsOf(Source!ASource) = {}
<1>1. Source!FreeSource \in SUBSET Nat
  BY DEF Source!FreeSource, SourceSound
<1>2. Source!ASource \in Source!FreeSource
  BY <1>1, Least DEF Source!ASource
<1> QED BY <1>2 DEF Source!FreeSource

LEMMA NoThreadType == Source!NoThread \in ThreadState /\ Source!NoThread.pc = "gone"
  BY DEF Source!NoThread, ThreadState

LEMMA SourceInit == ASSUME SourceSound, Source!Init PROVE SourceInv
<1>1. PICK kind \in Source!Kind, ok \in BOOLEAN, first \in Sources, t \in Threads :
         /\ kind = "tmvision_http" => ok
         /\ \A s \in Sources : first <= s
         /\ \A u \in Threads : t <= u
         /\ manager = [at |-> first, running |-> ok, switches |-> 0, pc |-> "idle", next |-> "same"]
         /\ LET threaded == ok /\ kind # "tmvision_http"
            IN /\ source = [s \in Sources |->
                    IF s = first
                    THEN [kind |-> kind, running |-> ok, stop |-> FALSE,
                          open |-> ok /\ kind = "opencv", ref |-> IF threaded THEN t ELSE 0]
                    ELSE [kind |-> "tmvision_http", running |-> FALSE, stop |-> FALSE,
                          open |-> FALSE, ref |-> 0]]
               /\ thread = [u \in Threads |->
                    IF u = t /\ threaded THEN [of |-> first, pc |-> "top", live |-> FALSE]
                    ELSE Source!NoThread]
  BY DEF Source!Init
<1> DEFINE threaded == ok /\ kind # "tmvision_http"
<1>2. manager \in Managed /\ manager.pc = "idle"
  BY <1>1 DEF Managed, SourceSound
<1>3. /\ source \in [Sources -> Object] /\ \A s \in Sources : ~source[s].stop
      /\ \A s \in Sources : source[s].kind = "tmflow_json" /\ source[s].running => s = first /\ threaded
  BY <1>1 DEF Object, Source!Kind
<1>4. /\ thread \in [Threads -> ThreadState]
      /\ \A u \in Threads : thread[u].pc # "gone" => thread[u].of \in Sources
      /\ threaded => thread[t].of = first /\ thread[t].pc = "top"
  BY <1>1, NoThreadType DEF ThreadState
<1>5. Source!TypeOK
  <2>1. queued \in 0..Size /\ poster \in {"idle"} \cup Source!Writing
    BY DEF Source!Init, SourceSound
  <2> QED BY <1>2, <1>3, <1>4, <2>1, SourceTypes
<1>6. Source!StreamReaderSurvives
  BY <1>3, <1>4 DEF Source!StreamReaderSurvives, Source!ThreadsOf
<1> QED BY <1>2, <1>3, <1>4, <1>5, <1>6 DEF SourceInv

-----------------------------------------------------------------------------
(* put_raw *)

LEMMA PutType ==
    ASSUME SourceSound, SourceInv, NEW to \in Source!Writing
    PROVE  Source!PutNext(to) \in {"done", "full", "again", "raised"} /\ (Source!PutStep(to) => queued' \in 0..Size)
<1>1. queued \in Nat /\ queued <= Size /\ Size \in Nat
  BY DEF SourceInv, Source!TypeOK, SourceSound
<1>2. Source!PutNext(to) \in {"done", "full", "again", "raised"}
  BY DEF Source!PutNext, Source!Writing
<1>3. ASSUME Source!PutStep(to) PROVE queued' \in 0..Size
  <2>1. CASE to = "full"
    BY <1>1, <1>3, <2>1 DEF Source!PutStep
  <2>2. CASE to # "full" /\ queued < Size
    BY <1>1, <1>3, <2>2 DEF Source!PutStep
  <2>3. CASE to # "full" /\ ~(queued < Size)
    BY <1>1, <1>3, <2>3 DEF Source!PutStep
  <2> QED BY <2>1, <2>2, <2>3
<1> QED BY <1>2, <1>3

LEMMA QueueStep == ASSUME SourceSound, SourceInv, Source!Post \/ Source!PostStep \/ Source!Take PROVE SourceInv'
<1>1. UNCHANGED <<manager, source, thread>>
  BY DEF Source!Post, Source!PostStep, Source!Take
<1>2. queued' \in 0..Size /\ poster' \in {"idle"} \cup Source!Writing
  <2>1. CASE Source!Post
    BY <2>1 DEF Source!Post, SourceInv, Source!TypeOK, Source!Writing
  <2>2. CASE Source!PostStep
    <3>1. poster \in Source!Writing /\ Source!PutStep(poster) /\ poster' \in {"idle"} \cup Source!Writing
      BY <2>2 DEF Source!PostStep
    <3> QED BY <3>1, PutType
  <2>3. CASE Source!Take
    BY <2>3 DEF Source!Take, SourceInv, Source!TypeOK, SourceSound
  <2> QED BY <2>1, <2>2, <2>3
<1>3. Source!TypeOK'
  BY <1>1, <1>2 DEF SourceInv, Source!TypeOK
<1> QED BY <1>1, <1>3 DEF SourceInv, Source!StreamReaderSurvives, Source!ThreadsOf

-----------------------------------------------------------------------------
(* The threads *)

\* What a thread of a source does: only its own place, and whether pictures can be had.
LEMMA ThreadMoves ==
    ASSUME SourceSound, SourceInv, NEW t \in Threads, thread[t].pc # "gone",
           UNCHANGED <<manager, poster>>, queued' \in 0..Size,
           source' \in [Sources -> Object],
           \A s \in Sources : /\ source'[s].kind = source[s].kind /\ source'[s].running = source[s].running
                              /\ source'[s].stop = source[s].stop,
           thread' \in [Threads -> ThreadState],
           \A u \in Threads : u # t => thread'[u].of = thread[u].of /\ thread'[u].pc = thread[u].pc,
           \/ thread'[t].of = thread[t].of /\ thread'[t].pc # "gone"
           \/ thread'[t].pc = "gone" /\ ~(Source!Mine(t).kind = "tmflow_json" /\ Source!Mine(t).running)
    PROVE  SourceInv'
<1>1. Source!TypeOK'
  <2>1. manager \in Managed /\ poster \in {"idle"} \cup Source!Writing
    BY SourceTypes DEF SourceInv
  <2>2. /\ queued' \in 0..Size /\ manager' \in Managed /\ source' \in [Sources -> Object]
        /\ thread' \in [Threads -> ThreadState] /\ poster' \in {"idle"} \cup Source!Writing
    BY <2>1
  <2> QED BY <2>2 DEF Source!TypeOK, Object, ThreadState, Managed
<1>2. \A u \in Threads : thread'[u].pc # "gone" => thread'[u].of \in Sources
  BY DEF SourceInv
<1>3. manager'.pc = "joining" /\ manager'.next = "same" => source'[manager'.at].kind = "opencv"
  <2>1. manager.at \in Sources
    BY DEF SourceInv, Source!TypeOK
  <2> QED BY <2>1 DEF SourceInv
<1>4. Source!StreamReaderSurvives'
  <2> SUFFICES ASSUME NEW s \in Sources, source'[s].kind = "tmflow_json", source'[s].running
               PROVE  \E u \in Threads : thread'[u].pc # "gone" /\ thread'[u].of = s
    BY DEF Source!StreamReaderSurvives, Source!ThreadsOf
  <2>1. PICK u \in Threads : thread[u].pc # "gone" /\ thread[u].of = s
    BY DEF SourceInv, Source!StreamReaderSurvives, Source!ThreadsOf
  <2>2. CASE u # t
    BY <2>1, <2>2
  <2>3. CASE u = t
    BY <2>1, <2>3 DEF Source!Mine
  <2> QED BY <2>2, <2>3
<1> QED BY <1>1, <1>2, <1>3, <1>4 DEF SourceInv

LEMMA OpenType ==
    ASSUME SourceInv, NEW s \in Sources, NEW open \in BOOLEAN, source' = [source EXCEPT ![s].open = open]
    PROVE  /\ source' \in [Sources -> Object]
           /\ \A r \in Sources : /\ source'[r].kind = source[r].kind /\ source'[r].running = source[r].running
                                 /\ source'[r].stop = source[r].stop
<1>1. source \in [Sources -> Object]
  BY SourceTypes DEF SourceInv
<1> DEFINE object == [source[s] EXCEPT !.open = open]
<1>2. /\ object \in Object /\ object.kind = source[s].kind /\ object.running = source[s].running
      /\ object.stop = source[s].stop
  BY <1>1 DEF Object
<1>3. source' = [source EXCEPT ![s] = object]
  OBVIOUS
<1> HIDE DEF object
<1> QED BY <1>1, <1>2, <1>3

LEMMA ClosedType ==
    ASSUME SourceInv
    PROVE  /\ Source!Closed \in [Sources -> Object]
           /\ \A r \in Sources : /\ Source!Closed[r].kind = source[r].kind /\ Source!Closed[r].running = source[r].running
                                 /\ Source!Closed[r].stop = source[r].stop
<1>1. source \in [Sources -> Object] /\ manager.at \in Sources
  BY SourceTypes DEF SourceInv, Managed
<1> DEFINE s == manager.at
           object == [source[s] EXCEPT !.open = FALSE]
<1>2. /\ object \in Object /\ object.kind = source[s].kind /\ object.running = source[s].running
      /\ object.stop = source[s].stop
  BY <1>1 DEF Object
<1>3. Source!Closed = [source EXCEPT ![s] = object]
  BY DEF Source!Closed
<1> HIDE DEF object
<1> QED BY <1>1, <1>2, <1>3

\* Threads that keep their place may lose the capture.
LEMMA SourceReleasedType ==
    ASSUME SourceInv, NEW s
    PROVE  /\ Source!Released(s) \in [Threads -> ThreadState]
           /\ \A u \in Threads : Source!Released(s)[u].of = thread[u].of /\ Source!Released(s)[u].pc = thread[u].pc
<1>1. thread \in [Threads -> ThreadState]
  BY SourceTypes DEF SourceInv
<1>2. \A r \in ThreadState : LET e == [r EXCEPT !.live = FALSE]
                             IN  e \in ThreadState /\ e.of = r.of /\ e.pc = r.pc
  BY DEF ThreadState
<1>3. \A u \in Threads : Source!Released(s)[u] \in {thread[u], [thread[u] EXCEPT !.live = FALSE]}
  BY DEF Source!Released
<1>4. \A u \in Threads : Source!Released(s)[u] \in ThreadState /\ Source!Released(s)[u].of = thread[u].of /\ Source!Released(s)[u].pc = thread[u].pc
  BY <1>1, <1>2, <1>3
<1> QED BY <1>4 DEF Source!Released

\* A thread that goes to another place and does not end.
LEMMA ThreadGoes ==
    ASSUME SourceSound, SourceInv, NEW t \in Threads, thread[t].pc # "gone", Source!Quiet,
           \/ UNCHANGED source
           \/ \E s \in Sources, open \in BOOLEAN : source' = [source EXCEPT ![s].open = open],
           NEW to \in {"top"} \cup Source!Blocked \cup Source!Writing, NEW live \in BOOLEAN,
           \/ thread' = [thread EXCEPT ![t].pc = to]
           \/ thread' = [thread EXCEPT ![t].pc = to, ![t].live = live]
           \/ \E s \in Sources : thread' = [Source!Released(s) EXCEPT ![t].pc = to]
    PROVE  SourceInv'
<1>1. /\ source' \in [Sources -> Object]
      /\ \A s \in Sources : /\ source'[s].kind = source[s].kind /\ source'[s].running = source[s].running
                            /\ source'[s].stop = source[s].stop
  <2>1. CASE UNCHANGED source
    BY <2>1, SourceTypes DEF SourceInv
  <2>2. CASE \E s \in Sources, open \in BOOLEAN : source' = [source EXCEPT ![s].open = open]
    <3>1. PICK s \in Sources, open \in BOOLEAN : source' = [source EXCEPT ![s].open = open]
      BY <2>2
    <3> QED BY <3>1, OpenType
  <2> QED BY <2>1, <2>2
<1>2. /\ thread' \in [Threads -> ThreadState] /\ thread'[t].pc = to /\ thread'[t].of = thread[t].of
      /\ \A u \in Threads : u # t => thread'[u].of = thread[u].of /\ thread'[u].pc = thread[u].pc
  <2>1. PICK old \in {thread} \cup {Source!Released(s) : s \in Sources} :
            \/ thread' = [old EXCEPT ![t].pc = to]
            \/ thread' = [old EXCEPT ![t].pc = to, ![t].live = live]
    OBVIOUS
  <2>2. /\ old \in [Threads -> ThreadState]
        /\ \A u \in Threads : old[u].of = thread[u].of /\ old[u].pc = thread[u].pc
    BY SourceReleasedType, SourceTypes DEF SourceInv
  <2> QED BY <2>1, <2>2 DEF ThreadState
<1>3. to # "gone" /\ UNCHANGED <<manager, poster>> /\ queued' \in 0..Size
  BY DEF Source!Quiet, Source!Blocked, Source!Writing, SourceInv, Source!TypeOK
<1> QED BY <1>1, <1>2, <1>3, ThreadMoves

\* A thread that ends.
LEMMA ThreadEnds ==
    ASSUME SourceSound, SourceInv, NEW t \in Threads, thread[t].pc # "gone", UNCHANGED <<manager, poster>>,
           queued' \in 0..Size,
           UNCHANGED source \/ \E s \in Sources, open \in BOOLEAN : source' = [source EXCEPT ![s].open = open],
           thread' = [thread EXCEPT ![t] = Source!NoThread],
           ~(Source!Mine(t).kind = "tmflow_json" /\ Source!Mine(t).running)
    PROVE  SourceInv'
<1>1. /\ source' \in [Sources -> Object]
      /\ \A s \in Sources : /\ source'[s].kind = source[s].kind /\ source'[s].running = source[s].running
                            /\ source'[s].stop = source[s].stop
  <2>1. CASE UNCHANGED source
    BY <2>1, SourceTypes DEF SourceInv
  <2>2. CASE \E s \in Sources, open \in BOOLEAN : source' = [source EXCEPT ![s].open = open]
    <3>1. PICK s \in Sources, open \in BOOLEAN : source' = [source EXCEPT ![s].open = open]
      BY <2>2
    <3> QED BY <3>1, OpenType
  <2> QED BY <2>1, <2>2
<1>2. thread \in [Threads -> ThreadState]
  BY SourceTypes DEF SourceInv
<1>3. /\ thread' \in [Threads -> ThreadState] /\ thread'[t].pc = "gone"
      /\ \A u \in Threads : u # t => thread'[u] = thread[u]
  BY <1>2, NoThreadType
<1> QED BY <1>1, <1>3, ThreadMoves

LEMMA CameraStep ==
    ASSUME SourceSound, SourceInv, NEW t \in Threads, Source!CameraTop(t) \/ Source!CameraReopens(t) \/ Source!CameraWakes(t) \/ Source!CameraReads(t)
    PROVE  SourceInv'
<1>1. thread[t].pc # "gone" /\ Source!Mine(t).kind = "opencv" /\ Source!Quiet /\ thread[t] \in ThreadState
  BY SourceTypes DEF SourceInv, Source!CameraTop, Source!CameraReopens, Source!CameraWakes, Source!CameraReads,
        Source!Is
<1>2. thread[t].of \in Sources /\ Source!Mine(t) \in Object /\ queued' \in 0..Size /\ UNCHANGED <<manager, poster>>
  BY <1>1, SourceTypes DEF SourceInv, Source!Mine, Source!Quiet
<1>3. \A to \in {"top", "read", "open", "sleep", "put"} : to \in {"top"} \cup Source!Blocked \cup Source!Writing
  BY DEF Source!Blocked, Source!Writing
<1>4. CASE Source!CameraTop(t)
  <2>1. CASE ~Source!Mine(t).running
    <3>1. thread' = [thread EXCEPT ![t] = Source!NoThread] /\ UNCHANGED source
      BY <1>4, <2>1 DEF Source!CameraTop
    <3> QED BY <1>1, <1>2, <3>1, ThreadEnds
  <2>2. CASE Source!Mine(t).running
    <3>1. PICK to \in {"read", "open"}, live \in BOOLEAN :
              thread' = [thread EXCEPT ![t] = [@ EXCEPT !.pc = to, !.live = live]]
      BY <1>2, <1>4, <2>2 DEF Source!CameraTop, Object
    <3>2. thread' = [thread EXCEPT ![t].pc = to, ![t].live = live] /\ UNCHANGED source
      BY <1>4, <3>1 DEF Source!CameraTop
    <3>3. to \in {"top"} \cup Source!Blocked \cup Source!Writing
      BY <1>3
    <3> QED BY <1>1, <3>2, <3>3, ThreadGoes
  <2> QED BY <2>1, <2>2
<1>5. CASE Source!CameraReopens(t)
  <2>1. CASE /\ source' = [source EXCEPT ![thread[t].of].open = TRUE]
             /\ thread' = [Source!Released(thread[t].of) EXCEPT ![t].pc = "top"]
    BY <1>1, <1>2, <1>3, <2>1, ThreadGoes
  <2>2. CASE thread' = [thread EXCEPT ![t].pc = "sleep"] /\ UNCHANGED source
    BY <1>1, <1>3, <2>2, ThreadGoes
  <2> QED BY <1>5, <2>1, <2>2 DEF Source!CameraReopens, Source!Goto
<1>6. CASE Source!CameraWakes(t)
  BY <1>1, <1>3, <1>6, ThreadGoes DEF Source!CameraWakes, Source!Goto
<1>7. CASE Source!CameraReads(t)
  <2>1. CASE /\ source' = [source EXCEPT ![thread[t].of].open = FALSE]
             /\ thread' = [Source!Released(thread[t].of) EXCEPT ![t].pc = "top"]
    BY <1>1, <1>2, <1>3, <2>1, ThreadGoes
  <2>2. CASE \E to \in {"put", "top"} : thread' = [thread EXCEPT ![t].pc = to] /\ UNCHANGED source
    BY <1>1, <1>3, <2>2, ThreadGoes
  <2> QED BY <1>7, <2>1, <2>2 DEF Source!CameraReads, Source!Goto
<1> QED BY <1>4, <1>5, <1>6, <1>7

LEMMA StreamStep ==
    ASSUME SourceSound, SourceInv, NEW t \in Threads, Source!StreamTop(t) \/ Source!StreamConnects(t) \/ Source!StreamReads(t) \/ Source!StreamWakes(t)
    PROVE  SourceInv'
<1>1. thread[t].pc # "gone" /\ Source!Quiet /\ thread[t] \in ThreadState
  BY SourceTypes DEF SourceInv, Source!StreamTop, Source!StreamConnects, Source!StreamReads, Source!StreamWakes,
        Source!Is
<1>2. thread[t].of \in Sources /\ Source!Mine(t) \in Object /\ queued' \in 0..Size /\ UNCHANGED <<manager, poster>>
  BY <1>1, SourceTypes DEF SourceInv, Source!Mine, Source!Quiet
<1>3. \A to \in {"top", "read", "open", "sleep", "put"} : to \in {"top"} \cup Source!Blocked \cup Source!Writing
  BY DEF Source!Blocked, Source!Writing
<1>4. CASE Source!StreamTop(t)
  <2>1. CASE Source!Mine(t).stop
    <3>1. thread' = [thread EXCEPT ![t] = Source!NoThread] /\ UNCHANGED source
      BY <1>4, <2>1 DEF Source!StreamTop
    <3>2. ~Source!Mine(t).running
      BY <1>2, <2>1 DEF SourceInv, Source!Mine
    <3> QED BY <1>1, <1>2, <3>1, <3>2, ThreadEnds
  <2>2. CASE ~Source!Mine(t).stop
    <3>1. thread' = [thread EXCEPT ![t].pc = "open"] /\ UNCHANGED source
      BY <1>4, <2>2 DEF Source!StreamTop
    <3> QED BY <1>1, <1>3, <3>1, ThreadGoes
  <2> QED BY <2>1, <2>2
<1>5. CASE Source!StreamConnects(t)
  <2>1. CASE /\ source' = [source EXCEPT ![thread[t].of].open = TRUE]
             /\ thread' = [thread EXCEPT ![t].pc = "read", ![t].live = TRUE]
    BY <1>1, <1>2, <1>3, <2>1, ThreadGoes
  <2>2. CASE \E to \in {"top", "sleep"} : thread' = [thread EXCEPT ![t].pc = to] /\ UNCHANGED source
    BY <1>1, <1>3, <2>2, ThreadGoes
  <2> QED BY <1>5, <2>1, <2>2 DEF Source!StreamConnects, Source!Goto
<1>6. CASE Source!StreamReads(t)
  <2>1. CASE thread' = [thread EXCEPT ![t].pc = "put"] /\ UNCHANGED source
    BY <1>1, <1>3, <2>1, ThreadGoes
  <2>2. CASE /\ source' = [source EXCEPT ![thread[t].of].open = FALSE]
             /\ \E to \in {"top", "sleep"} : thread' = [thread EXCEPT ![t].pc = to]
    BY <1>1, <1>2, <1>3, <2>2, ThreadGoes
  <2> QED BY <1>6, <2>1, <2>2 DEF Source!StreamReads, Source!Goto
<1>7. CASE Source!StreamWakes(t)
  BY <1>1, <1>3, <1>7, ThreadGoes DEF Source!StreamWakes, Source!Goto
<1> QED BY <1>4, <1>5, <1>6, <1>7

LEMMA PutsStep == ASSUME SourceSound, SourceInv, NEW t \in Threads, Source!ThreadPuts(t) PROVE SourceInv'
<1> DEFINE next == Source!PutNext(thread[t].pc)
           to == CASE next = "done"   -> Source!Stored(t)
                   [] next = "raised" -> Source!AfterRaise(t)
                   [] OTHER           -> next
<1>1. /\ thread[t].pc \in Source!Writing /\ Source!PutStep(thread[t].pc) /\ UNCHANGED <<manager, poster>>
      /\ thread' = [thread EXCEPT ![t] = IF to = "gone" THEN Source!NoThread ELSE [@ EXCEPT !.pc = to]]
      /\ source' = [source EXCEPT ![thread[t].of].open = @ /\ to # "sleep"]
  BY DEF Source!ThreadPuts
<1>2. /\ thread[t].pc # "gone" /\ next \in {"done", "full", "again", "raised"} /\ queued' \in 0..Size
  BY <1>1, PutType DEF Source!Writing
<1>3. /\ to \in {"gone", "top"} \cup Source!Blocked \cup Source!Writing
      /\ to = "gone" => Source!Mine(t).kind = "opencv"
  BY <1>2 DEF Source!Stored, Source!AfterRaise, Source!Blocked, Source!Writing
<1> HIDE DEF next, to
<1>4. thread[t].of \in Sources /\ thread \in [Threads -> ThreadState] /\ source \in [Sources -> Object]
  BY <1>2, SourceTypes DEF SourceInv
<1>5. \E open \in BOOLEAN : source' = [source EXCEPT ![thread[t].of].open = open]
  <2>1. source[thread[t].of].open \in BOOLEAN
    BY <1>4 DEF Object
  <2> DEFINE open == source[thread[t].of].open /\ to # "sleep"
  <2>2. open \in BOOLEAN /\ source' = [source EXCEPT ![thread[t].of].open = open]
    BY <1>1, <2>1
  <2> HIDE DEF open
  <2> QED BY <2>2
<1>6. CASE to = "gone"
  <2>1. thread' = [thread EXCEPT ![t] = Source!NoThread]
    BY <1>1, <1>6
  <2> QED BY <1>1, <1>2, <1>3, <1>4, <1>5, <1>6, <2>1, ThreadEnds
<1>7. CASE to # "gone"
  <2>1. /\ source' \in [Sources -> Object]
        /\ \A s \in Sources : /\ source'[s].kind = source[s].kind /\ source'[s].running = source[s].running
                              /\ source'[s].stop = source[s].stop
    <3>1. PICK open \in BOOLEAN : source' = [source EXCEPT ![thread[t].of].open = open]
      BY <1>5
    <3> QED BY <3>1, <1>4, OpenType
  <2>2. thread' = [thread EXCEPT ![t] = [@ EXCEPT !.pc = to]]
    BY <1>1, <1>7
  <2>3. /\ thread' \in [Threads -> ThreadState] /\ thread'[t].of = thread[t].of /\ thread'[t].pc = to
        /\ \A u \in Threads : u # t => thread'[u] = thread[u]
    BY <1>3, <1>4, <2>2 DEF ThreadState
  <2> QED BY <1>1, <1>2, <1>7, <2>1, <2>3, ThreadMoves
<1> QED BY <1>6, <1>7

-----------------------------------------------------------------------------
(* The manager *)

LEMMA StoppingStep ==
    ASSUME SourceSound, SourceInv, Source!CanSwitch, NEW next \in Source!Kind \cup {"same"}, Source!Stopping(next),
           next = "same" => source[manager.at].kind = "opencv"
    PROVE  SourceInv'
<1>1. /\ manager \in Managed /\ source \in [Sources -> Object] /\ thread \in [Threads -> ThreadState]
      /\ queued \in 0..Size /\ poster \in {"idle"} \cup Source!Writing /\ UNCHANGED <<queued, thread, poster>>
  BY SourceTypes DEF SourceInv, Source!Stopping
<1>2. manager' \in Managed /\ manager'.at = manager.at /\ manager'.next = next
  <2>1. manager.switches + 1 \in 0..Switches
    BY <1>1 DEF Source!CanSwitch, Managed, SourceSound
  <2> QED BY <1>1, <2>1 DEF Source!Stopping, Managed
<1>3. /\ source' \in [Sources -> Object]
      /\ \A s \in Sources : /\ source'[s].kind = source[s].kind
                            /\ source'[s].running => source[s].running /\ source'[s].stop = source[s].stop
  <2>1. manager.at \in Sources /\ source[manager.at] \in Object
    BY <1>1 DEF Managed
  <2> DEFINE open == source[manager.at].open /\ source[manager.at].kind = "opencv"
             new == [source[manager.at] EXCEPT !.running = FALSE, !.stop = TRUE, !.open = open]
  <2>2. open \in BOOLEAN
    OBVIOUS
  <2>3. source' = [source EXCEPT ![manager.at] = new]
    BY <2>1 DEF Source!Stopping, Object
  <2> HIDE DEF open
  <2>4. new \in Object /\ new.kind = source[manager.at].kind /\ new.running = FALSE
    BY <2>1, <2>2 DEF Object
  <2> HIDE DEF new
  <2> QED BY <1>1, <2>1, <2>3, <2>4
<1>4. Source!TypeOK'
  BY <1>1, <1>2, <1>3 DEF Source!TypeOK, Object, ThreadState, Managed
<1>5. manager'.pc = "joining" /\ manager'.next = "same" => source'[manager'.at].kind = "opencv"
  BY <1>1, <1>2, <1>3 DEF Managed
<1> QED BY <1>1, <1>3, <1>4, <1>5 DEF SourceInv, Source!StreamReaderSurvives, Source!ThreadsOf

LEMMA SetSourceStep ==
    ASSUME SourceSound, SourceInv, NEW kind \in Source!Kind, Source!SetSource(kind)
    PROVE  SourceInv'
<1>1. CASE Source!Stopping(kind)
  BY <1>1, StoppingStep DEF Source!SetSource, Source!Kind
<1>2. CASE ~manager.running /\ ~Source!Stopping(kind)
  <2>1. /\ manager \in Managed /\ source \in [Sources -> Object] /\ thread \in [Threads -> ThreadState]
        /\ queued \in 0..Size /\ poster \in {"idle"} \cup Source!Writing /\ UNCHANGED <<queued, thread, poster>>
        /\ Source!ASource \in Sources /\ Source!CanSwitch
    BY <1>2, SourceTypes, NewSource DEF SourceInv, Source!SetSource
  <2>2. manager' \in Managed /\ manager'.pc = "idle"
    <3>1. manager.switches + 1 \in 0..Switches
      BY <2>1 DEF Source!CanSwitch, Managed, SourceSound
    <3> QED BY <1>2, <2>1, <3>1 DEF Source!SetSource, Source!CanSwitch, Managed
  <2>3. /\ source' \in [Sources -> Object]
        /\ \A s \in Sources : source'[s] = source[s] \/ ~source'[s].running
    <3> DEFINE new == [kind |-> kind, running |-> FALSE, stop |-> FALSE, open |-> FALSE, ref |-> 0]
    <3>1. new \in Object /\ new.running = FALSE
      BY DEF Object
    <3>2. source' = [source EXCEPT ![Source!ASource] = new]
      BY <1>2 DEF Source!SetSource
    <3> HIDE DEF new
    <3> QED BY <2>1, <3>1, <3>2
  <2>4. Source!TypeOK'
    BY <2>1, <2>2, <2>3 DEF Source!TypeOK, Object, ThreadState, Managed
  <2> QED BY <2>1, <2>2, <2>3, <2>4 DEF SourceInv, Source!StreamReaderSurvives, Source!ThreadsOf
<1> QED BY <1>1, <1>2 DEF Source!SetSource

LEMMA SourceStartedStep ==
    ASSUME SourceSound, SourceInv, NEW s \in Sources, NEW kind \in Source!Kind, NEW ok \in BOOLEAN, Source!FreeThread # {},
           Source!Started(s, kind, ok), UNCHANGED <<queued, poster>>, manager' \in Managed, manager'.pc = "idle"
    PROVE  SourceInv'
<1>1. /\ source \in [Sources -> Object] /\ thread \in [Threads -> ThreadState] /\ manager.at \in Sources
      /\ queued \in 0..Size /\ poster \in {"idle"} \cup Source!Writing
      /\ Source!AThread \in Threads /\ thread[Source!AThread].pc = "gone"
  BY SourceTypes, NewThread DEF SourceInv, Managed
<1> DEFINE threaded == ok /\ kind # "tmvision_http"
           new == [kind |-> kind, running |-> ok, stop |-> FALSE, open |-> ok /\ kind = "opencv",
                   ref |-> IF ok /\ kind # "tmvision_http" THEN Source!AThread ELSE 0]
           fresh == [of |-> s, pc |-> "top", live |-> FALSE]
<1>2. new \in Object /\ new.kind = kind /\ new.running = ok /\ new.stop = FALSE
  BY <1>1 DEF Object
<1>3. fresh \in ThreadState /\ fresh.of = s /\ fresh.pc = "top"
  BY DEF ThreadState
<1>4. /\ source' = [Source!Closed EXCEPT ![s] = new]
      /\ thread' = [t \in Threads |-> IF threaded /\ t = Source!AThread THEN fresh ELSE Source!Released(manager.at)[t]]
  BY DEF Source!Started
<1> HIDE DEF new, fresh
<1>5. /\ source' \in [Sources -> Object] /\ source'[s] = new
      /\ \A r \in Sources : r # s => /\ source'[r].kind = source[r].kind /\ source'[r].running = source[r].running
                                     /\ source'[r].stop = source[r].stop
  <2>1. /\ Source!Closed \in [Sources -> Object]
        /\ \A r \in Sources : /\ Source!Closed[r].kind = source[r].kind /\ Source!Closed[r].running = source[r].running
                              /\ Source!Closed[r].stop = source[r].stop
    BY ClosedType
  <2> QED BY <1>2, <1>4, <2>1
<1>6. /\ thread' \in [Threads -> ThreadState]
      /\ \A t \in Threads : \/ thread'[t].of = thread[t].of /\ thread'[t].pc = thread[t].pc
                            \/ t = Source!AThread /\ thread'[t] = fresh
      /\ threaded => thread'[Source!AThread] = fresh
  <2>1. \A t \in Threads : thread'[t] = Source!Released(manager.at)[t] \/ (t = Source!AThread /\ thread'[t] = fresh)
    BY <1>4
  <2>2. \A t \in Threads : /\ Source!Released(manager.at)[t] \in ThreadState /\ Source!Released(manager.at)[t].of = thread[t].of
                           /\ Source!Released(manager.at)[t].pc = thread[t].pc
    BY SourceReleasedType
  <2>3. thread' \in [Threads -> ThreadState]
    <3>1. \A t \in Threads : (IF threaded /\ t = Source!AThread THEN fresh ELSE Source!Released(manager.at)[t]) \in ThreadState
      BY <1>3, <2>2
    <3> QED BY <1>4, <3>1
  <2>4. threaded => thread'[Source!AThread] = fresh
    BY <1>1, <1>4
  <2> QED BY <2>1, <2>2, <2>3, <2>4
<1>7. Source!TypeOK'
  BY <1>1, <1>5, <1>6 DEF Source!TypeOK, Object, ThreadState, Managed
<1>8. \A t \in Threads : thread'[t].pc # "gone" => thread'[t].of \in Sources
  BY <1>3, <1>6 DEF SourceInv
<1>9. \A r \in Sources : source'[r].running => ~source'[r].stop
  BY <1>2, <1>5 DEF SourceInv
<1>10. Source!StreamReaderSurvives'
  <2> SUFFICES ASSUME NEW r \in Sources, source'[r].kind = "tmflow_json", source'[r].running
               PROVE  \E u \in Threads : thread'[u].pc # "gone" /\ thread'[u].of = r
    BY DEF Source!StreamReaderSurvives, Source!ThreadsOf
  <2>1. CASE r = s
    <3>1. threaded
      BY <1>2, <1>5, <2>1
    <3> QED BY <1>1, <1>3, <1>6, <2>1, <3>1
  <2>2. CASE r # s
    <3>1. PICK u \in Threads : thread[u].pc # "gone" /\ thread[u].of = r
      BY <1>5, <2>2 DEF SourceInv, Source!StreamReaderSurvives, Source!ThreadsOf
    <3> QED BY <1>1, <1>6, <3>1
  <2> QED BY <2>1, <2>2
<1> QED BY <1>7, <1>8, <1>9, <1>10 DEF SourceInv

LEMMA SwitchedStep == ASSUME SourceSound, SourceInv, NEW ok \in BOOLEAN, Source!Switched(ok) PROVE SourceInv'
<1>1. manager \in Managed /\ UNCHANGED <<queued, poster>>
  BY SourceTypes DEF SourceInv, Source!Switched
<1>2. CASE manager.next = "same"
  <2>1. /\ Source!FreeThread # {} /\ Source!Started(manager.at, "opencv", ok) /\ manager' = [manager EXCEPT !.pc = "idle"]
    BY <1>2 DEF Source!Switched, Source!Startable
  <2>2. manager.at \in Sources /\ "opencv" \in Source!Kind /\ manager' \in Managed /\ manager'.pc = "idle"
    BY <1>1, <2>1 DEF Managed, Source!Kind
  <2> QED BY <1>1, <2>1, <2>2, SourceStartedStep
<1>3. CASE manager.next # "same"
  <2>1. /\ Source!FreeThread # {} /\ Source!FreeSource # {} /\ Source!Started(Source!ASource, manager.next, ok)
        /\ manager' = [manager EXCEPT !.pc = "idle", !.at = Source!ASource, !.running = ok]
    BY <1>3 DEF Source!Switched, Source!Startable
  <2>2. Source!ASource \in Sources /\ manager.next \in Source!Kind
    BY <1>1, <1>3, <2>1, NewSource DEF Managed
  <2>3. manager' \in Managed /\ manager'.pc = "idle"
    BY <1>1, <2>1, <2>2 DEF Managed
  <2> QED BY <1>1, <2>1, <2>2, <2>3, SourceStartedStep
<1> QED BY <1>2, <1>3

LEMMA SourceStep == ASSUME SourceSound, SourceInv, [Source!Next]_(Source!vars) PROVE SourceInv'
<1>1. CASE UNCHANGED Source!vars
  BY <1>1 DEF Source!vars, SourceInv, Source!TypeOK, Source!StreamReaderSurvives, Source!ThreadsOf
<1>2. ASSUME NEW t \in Threads, Source!ThreadStep(t) PROVE SourceInv'
  BY <1>2, CameraStep, StreamStep, PutsStep DEF Source!ThreadStep
<1>3. ASSUME Source!SetCameraIndex PROVE SourceInv'
  BY <1>3, StoppingStep DEF Source!SetCameraIndex
<1> QED BY <1>1, <1>2, <1>3, QueueStep, SetSourceStep, SwitchedStep DEF Source!Next

\* A stream source that runs has the thread that reads it, however sources are switched, restarted
\* and stopped while threads still wait or write (vision_source_manager.py, tmflow_json_source.py).
THEOREM StreamsAreRead == ASSUME SourceSound PROVE Source!Spec => [](Source!TypeOK /\ Source!StreamReaderSurvives)
<1>1. Source!Init => SourceInv
  BY SourceInit
<1>2. SourceInv /\ [Source!Next]_(Source!vars) => SourceInv'
  BY SourceStep
<1>3. SourceInv => Source!TypeOK /\ Source!StreamReaderSurvives
  BY DEF SourceInv
<1> QED BY <1>1, <1>2, <1>3, PTL DEF Source!Spec

-----------------------------------------------------------------------------
(* The player's page.                                                      *)

\* What an instance has to give: bounds.
PageSound == MaxPos \in Nat /\ MaxQueue \in Nat /\ MaxWire \in Nat

BusEvent == [kind : {"analysis", "started", "completed", "status", "over", "move"}, n : Nat]
ButtonLock == [active : BOOLEAN, accepted : BOOLEAN, sawBusy : BOOLEAN, grace : BOOLEAN, timer : BOOLEAN]
LockFits(l) == (l.timer => l.accepted) /\ (l.accepted => l.active)
EventFits(e) == e.kind \in {"analysis", "move"} => e.n \in 0..MaxPos

\* A request on its way has the button locked and not accepted yet, and of the events that go
\* over the bound on the queue one is the status worker's.
PageInv ==
    /\ Page!TypeOK
    /\ page \in [started : BOOLEAN, lock : ButtonLock]
    /\ events \in Seq(BusEvent) /\ \A i \in DOMAIN events : EventFits(events[i])
    /\ Len(events) > MaxQueue => \E i \in DOMAIN events : events[i].kind = "status"
    /\ http # "none" => page.lock.active /\ ~page.lock.accepted

\* What the store and the queue need to be, and what the page needs to be.
ServerFits ==
    /\ store \in Page!States /\ events \in Seq(BusEvent) /\ (\A i \in DOMAIN events : EventFits(events[i]))
    /\ Len(events) \in Nat /\ Len(events) <= MaxQueue + 1
    /\ Len(events) > MaxQueue => \E i \in DOMAIN events : events[i].kind = "status"
    /\ arm \in {"none", "accepted", "moving", "verify"} /\ beat \in {None, 0, 1}
NetFits == late \in Page!Views \cup {None} /\ wire \in Seq(Page!Views) /\ Len(wire) <= MaxWire
PageFits ==
    /\ view \in Page!Views /\ page \in [started : BOOLEAN, lock : ButtonLock] /\ LockFits(page.lock)
    /\ http \in {"none", "sent", "yes", "no"}
    /\ http # "none" => page.lock.active /\ ~page.lock.accepted
LEMMA PageParts == PageInv <=> ServerFits /\ NetFits /\ PageFits
  BY DEF PageInv, Page!TypeOK, ServerFits, NetFits, PageFits, LockFits

LEMMA SeenType == ASSUME NEW s \in Page!States PROVE Page!Seen(s) \in Page!Views
  BY DEF Page!Seen, Page!States, Page!Views

LEMMA PageInit == ASSUME PageSound, Page!Init PROVE PageInv
<1>1. store \in Page!States /\ view \in Page!Views
  <2>1. Page!Fresh \in Page!States
    BY DEF Page!Fresh, Page!States, PageSound
  <2> QED BY <2>1, SeenType DEF Page!Init
<1>2. page \in [started : BOOLEAN, lock : ButtonLock] /\ page.lock = Page!Unlocked /\ ~Page!Unlocked.timer /\ ~Page!Unlocked.accepted
  BY DEF Page!Init, Page!Unlocked, ButtonLock
<1>3. events = <<>> /\ wire = <<>> /\ http = "none" /\ arm = "none" /\ beat = None /\ late = None
  BY DEF Page!Init
<1>4. <<>> \in Seq(BusEvent) /\ <<>> \in Seq(Page!Views)
  OBVIOUS
<1>5. ServerFits
  BY <1>1, <1>3, <1>4 DEF ServerFits, PageSound
<1>6. NetFits
  BY <1>3, <1>4 DEF NetFits, PageSound
<1>7. PageFits
  BY <1>1, <1>2, <1>3 DEF PageFits, LockFits
<1> QED BY <1>5, <1>6, <1>7, PageParts

-----------------------------------------------------------------------------
(* The store *)

LEMMA AppendEvent ==
    ASSUME PageSound, ServerFits, NEW e \in BusEvent, EventFits(e), events' = Append(events, e),
           Len(events) < MaxQueue \/ (e.kind = "status" /\ \A i \in DOMAIN events : events[i].kind # "status")
    PROVE  /\ events' \in Seq(BusEvent) /\ (\A i \in DOMAIN events' : EventFits(events'[i]))
           /\ Len(events') \in Nat /\ Len(events') <= MaxQueue + 1
           /\ Len(events') > MaxQueue => \E i \in DOMAIN events' : events'[i].kind = "status"
<1>1. /\ events \in Seq(BusEvent) /\ Len(events) \in Nat /\ MaxQueue \in Nat
      /\ \A i \in DOMAIN events : EventFits(events[i])
  BY DEF ServerFits, PageSound
<1>2. Len(events) <= MaxQueue
  BY <1>1 DEF ServerFits
<1>3. /\ events' \in Seq(BusEvent) /\ Len(events') = Len(events) + 1 /\ DOMAIN events' = 1..(Len(events) + 1)
      /\ events'[Len(events) + 1] = e /\ \A i \in 1..Len(events) : events'[i] = events[i]
  BY <1>1
<1>4. \A i \in DOMAIN events' : EventFits(events'[i])
  <2> TAKE i \in DOMAIN events'
  <2>1. CASE i = Len(events) + 1
    BY <1>3, <2>1
  <2>2. CASE i # Len(events) + 1
    <3>1. i \in 1..Len(events) /\ i \in DOMAIN events
      BY <1>1, <1>3, <2>2
    <3> QED BY <1>1, <1>3, <3>1
  <2> QED BY <2>1, <2>2
<1>5. Len(events') > MaxQueue => \E i \in DOMAIN events' : events'[i].kind = "status"
  <2>1. Len(events) + 1 \in DOMAIN events'
    BY <1>1, <1>3
  <2> QED BY <1>1, <1>3, <2>1
<1> QED BY <1>1, <1>2, <1>3, <1>4, <1>5

LEMMA PublishType ==
    ASSUME PageSound, ServerFits, NEW kind \in {"analysis", "started", "completed", "over", "move"}, NEW n \in 0..MaxPos,
           Page!Publish(kind, n), UNCHANGED store, arm' \in {"none", "accepted", "moving", "verify"}, beat' \in {None, 0, 1}
    PROVE  ServerFits'
<1> DEFINE e == [kind |-> kind, n |-> n]
<1>1. e \in BusEvent /\ EventFits(e) /\ events' = Append(events, e) /\ Len(events) < MaxQueue
  BY DEF BusEvent, EventFits, Page!Publish, PageSound
<1> HIDE DEF e
<1>2. /\ events' \in Seq(BusEvent) /\ (\A i \in DOMAIN events' : EventFits(events'[i]))
      /\ Len(events') \in Nat /\ Len(events') <= MaxQueue + 1
      /\ Len(events') > MaxQueue => \E i \in DOMAIN events' : events'[i].kind = "status"
  BY <1>1, AppendEvent
<1> QED BY <1>2 DEF ServerFits, EventFits

LEMMA ReducedType ==
    ASSUME PageSound, NEW s \in Page!States, NEW e \in BusEvent, EventFits(e)
    PROVE  Page!Reduced(s, e) \in Page!States
<1> USE DEF Page!States
<1>1. CASE e.kind = "analysis"
  BY <1>1 DEF Page!Reduced, EventFits
<1>2. CASE e.kind = "started"
  BY <1>2 DEF Page!Reduced
<1>3. CASE e.kind = "completed"
  BY <1>3 DEF Page!Reduced
<1>4. CASE e.kind = "status"
  <2> DEFINE busy == e.n = 1
  <2>1. busy \in BOOLEAN /\ Page!Reduced(s, e) = [s EXCEPT !.busy = busy]
    BY <1>4 DEF Page!Reduced
  <2> HIDE DEF busy
  <2> QED BY <2>1
<1>5. CASE e.kind = "over"
  BY <1>5 DEF Page!Reduced
<1>6. CASE e.kind = "move"
  BY <1>6 DEF Page!Reduced, EventFits
<1> QED BY <1>1, <1>2, <1>3, <1>4, <1>5, <1>6 DEF BusEvent

LEMMA ReduceStep == ASSUME PageSound, PageInv, Page!Reduce PROVE PageInv'
<1>1. /\ ServerFits /\ NetFits /\ PageFits /\ UNCHANGED <<analysis, arm, beat, late, http, page, view>>
      /\ events # <<>> /\ Len(wire) < MaxWire /\ events' = Tail(events) /\ store' = Page!Reduced(store, Head(events))
  BY PageParts DEF Page!Reduce
<1>2. /\ events \in Seq(BusEvent) /\ Len(events) \in Nat /\ Len(events) <= MaxQueue + 1 /\ MaxQueue \in Nat /\ MaxWire \in Nat
      /\ store \in Page!States /\ wire \in Seq(Page!Views) /\ \A i \in DOMAIN events : EventFits(events[i])
  BY <1>1 DEF ServerFits, NetFits, PageSound
<1>3. /\ Head(events) \in BusEvent /\ Head(events) = events[1] /\ 1 \in DOMAIN events
      /\ events' \in Seq(BusEvent) /\ Len(events') = Len(events) - 1
      /\ \A i \in DOMAIN events' : \E j \in DOMAIN events : events'[i] = events[j]
  BY <1>1, <1>2
<1>4. store' \in Page!States
  BY <1>1, <1>2, <1>3, ReducedType
<1>5. ServerFits'
  <2>1. Len(events') \in Nat /\ Len(events') <= MaxQueue /\ ~(Len(events') > MaxQueue)
    BY <1>2, <1>3
  <2>2. \A i \in DOMAIN events' : EventFits(events'[i])
    BY <1>2, <1>3
  <2> QED BY <1>1, <1>2, <1>3, <1>4, <2>1, <2>2 DEF ServerFits, EventFits
<1>6. NetFits'
  <2>1. Page!Seen(store') \in Page!Views
    BY <1>4, SeenType
  <2>2. wire' = wire \/ wire' = Append(wire, Page!Seen(store'))
    BY DEF Page!Reduce
  <2>3. wire' \in Seq(Page!Views) /\ Len(wire') <= MaxWire
    BY <1>1, <1>2, <2>1, <2>2
  <2> QED BY <1>1, <2>3 DEF NetFits, Page!Views
<1>7. PageFits'
  BY <1>1 DEF PageFits, LockFits, Page!Views, ButtonLock
<1> QED BY <1>5, <1>6, <1>7, PageParts DEF PageInv, ServerFits, NetFits, PageFits, Page!TypeOK, LockFits

\* A step of the server's own.
LEMMA ServerStep ==
    ASSUME PageSound, PageInv, Page!PlayerMoves \/ Page!EnginePolls \/ Page!Arm \/ Page!BeatReads \/ Page!BeatPublishes
    PROVE  PageInv'
<1>1. ServerFits /\ NetFits /\ PageFits /\ UNCHANGED <<store, wire, late, http, page, view>>
  BY PageParts DEF Page!PlayerMoves, Page!EnginePolls, Page!Arm, Page!BeatReads, Page!BeatPublishes, Page!Outside,
        Page!net
<1>2. store.pos \in 0..MaxPos /\ MaxPos \in Nat /\ arm \in {"none", "accepted", "moving", "verify"} /\ beat \in {None, 0, 1}
  BY <1>1 DEF ServerFits, Page!States, PageSound
<1>0. NetFits' /\ PageFits'
  BY <1>1 DEF NetFits, PageFits
<1> SUFFICES ServerFits'
  BY <1>0, PageParts DEF PageInv, ServerFits, NetFits, PageFits, Page!TypeOK, LockFits
<1>3. CASE UNCHANGED events /\ arm' \in {"none", "accepted", "moving", "verify"} /\ beat' \in {None, 0, 1}
  BY <1>1, <1>3 DEF ServerFits, EventFits, Page!States
<1>4. CASE Page!PlayerMoves
  <2>1. store.pos + 1 \in 0..MaxPos /\ Page!Publish("move", store.pos + 1) /\ UNCHANGED <<arm, beat>>
    BY <1>2, <1>4 DEF Page!PlayerMoves
  <2>2. ServerFits'
    BY <1>1, <1>2, <2>1, PublishType
  <2> QED BY <2>2
<1>5. CASE Page!EnginePolls
  <2>1. UNCHANGED events \/ Page!Publish("analysis", store.pos)
    BY <1>5 DEF Page!EnginePolls
  <2>2. UNCHANGED <<arm, beat>>
    BY <1>5 DEF Page!EnginePolls
  <2> QED BY <1>1, <1>2, <1>3, <2>1, <2>2, PublishType
<1>6. CASE Page!Arm
  <2>0. 0 \in 0..MaxPos /\ beat' \in {None, 0, 1}
    BY <1>2, <1>6 DEF Page!Arm
  <2>1. arm' \in {"none", "accepted", "moving", "verify"}
    BY <1>6 DEF Page!Arm, Page!ArmStarts, Page!ArmCompletes, Page!Verified, Page!VerificationFails
  <2>2. \/ Page!Publish("started", 0) \/ Page!Publish("completed", 0) \/ UNCHANGED events
        \/ store.pos + 1 \in 0..MaxPos /\ Page!Publish("move", store.pos + 1)
    BY <1>2, <1>6 DEF Page!Arm, Page!ArmStarts, Page!ArmCompletes, Page!Verified, Page!VerificationFails
  <2> QED BY <1>1, <1>3, <2>0, <2>1, <2>2, PublishType
<1>7. CASE Page!BeatReads
  BY <1>2, <1>3, <1>7 DEF Page!BeatReads
<1>8. CASE Page!BeatPublishes
  <2> DEFINE e == [kind |-> "status", n |-> beat]
  <2>1. /\ e \in BusEvent /\ EventFits(e) /\ e.kind = "status" /\ events' = Append(events, e)
        /\ \A i \in DOMAIN events : events[i].kind # "status"
    BY <1>2, <1>8 DEF Page!BeatPublishes, BusEvent, EventFits
  <2> HIDE DEF e
  <2>2. /\ events' \in Seq(BusEvent) /\ (\A i \in DOMAIN events' : EventFits(events'[i]))
        /\ Len(events') \in Nat /\ Len(events') <= MaxQueue + 1
        /\ Len(events') > MaxQueue => \E i \in DOMAIN events' : events'[i].kind = "status"
    BY <1>1, <2>1, AppendEvent
  <2>3. beat' = None /\ UNCHANGED arm
    BY <1>8 DEF Page!BeatPublishes
  <2> QED BY <1>1, <1>2, <2>2, <2>3 DEF ServerFits, EventFits
<1> QED BY <1>4, <1>5, <1>6, <1>7, <1>8

-----------------------------------------------------------------------------
(* The page *)

Pages == [started : BOOLEAN, lock : ButtonLock]

LEMMA UnlockedType == Page!Unlocked \in ButtonLock /\ LockFits(Page!Unlocked) /\ ~Page!Unlocked.active /\ ~Page!Unlocked.accepted
  BY DEF Page!Unlocked, ButtonLock, LockFits

LEMMA PageReleasedType ==
    ASSUME NEW p \in Pages
    PROVE  Page!Released(p) \in Pages /\ LockFits(Page!Released(p).lock)
<1>1. Page!Released(p) \in Pages /\ Page!Released(p).lock = Page!Unlocked
  BY UnlockedType DEF Pages, Page!Released
<1> QED BY <1>1, UnlockedType

LEMMA LockedType ==
    ASSUME NEW p \in Pages, p.lock.active, NEW v \in Page!Views, NEW timer \in BOOLEAN
    PROVE  Page!Locked(p, v, timer) \in Pages /\ LockFits(Page!Locked(p, v, timer).lock)
<1>1. p.lock \in ButtonLock /\ v.busy \in BOOLEAN
  BY DEF Pages, Page!Views
<1>2. Page!Locked(p, v, timer) \in Pages /\ Page!Locked(p, v, timer).lock.accepted /\ Page!Locked(p, v, timer).lock.active
  BY <1>1 DEF Pages, ButtonLock, Page!Locked
<1> QED BY <1>2 DEF LockFits

\* A snapshot releases the lock or leaves it active, and one that was not accepted as it was.
LEMMA SyncedType ==
    ASSUME NEW p \in Pages, LockFits(p.lock), NEW v \in Page!Views
    PROVE  /\ Page!Synced(p, v) \in Pages /\ LockFits(Page!Synced(p, v).lock)
           /\ ~p.lock.accepted => Page!Synced(p, v) = p
<1> DEFINE q == [p EXCEPT !.lock.sawBusy = TRUE]
<1>1. p.lock \in ButtonLock
  BY DEF Pages
<1>2. /\ q \in Pages /\ q.lock.timer = p.lock.timer
      /\ q.lock.accepted = p.lock.accepted /\ q.lock.active = p.lock.active
  BY <1>1 DEF Pages, ButtonLock
<1>3. LockFits(q.lock)
  BY <1>2 DEF LockFits
<1>4. Page!Released(p) \in Pages /\ LockFits(Page!Released(p).lock)
  BY PageReleasedType
<1>5. Page!Synced(p, v) \in {p, q, Page!Released(p)} /\ (~p.lock.accepted => Page!Synced(p, v) = p)
  BY DEF Page!Synced
<1> HIDE DEF q
<1> QED BY <1>2, <1>3, <1>4, <1>5

\* What goes to the page and comes back from it.
LEMMA NetStep == ASSUME PageSound, PageInv, Page!ExecuteReadyMove \/ Page!LateLost \/ Page!Reconnect PROVE PageInv'
<1>1. ServerFits /\ NetFits /\ PageFits /\ UNCHANGED <<store, events, analysis, beat, page, view>>
  BY PageParts DEF Page!ExecuteReadyMove, Page!LateLost, Page!Reconnect, Page!server, Page!net
<1>2. store \in Page!States /\ Page!Seen(store) \in Page!Views
  BY <1>1, SeenType DEF ServerFits
<1>3. ServerFits' /\ (http # "none" <=> http' # "none") /\ http' \in {"none", "sent", "yes", "no"}
  <2>1. CASE Page!ExecuteReadyMove
    <3>1. arm' \in {"none", "accepted", "moving", "verify"}
      BY <1>1, <2>1 DEF Page!ExecuteReadyMove, ServerFits
    <3> QED BY <1>1, <2>1, <3>1 DEF Page!ExecuteReadyMove, ServerFits, EventFits
  <2>2. CASE Page!LateLost \/ Page!Reconnect
    <3>1. arm' = arm /\ http' = http
      BY <2>2 DEF Page!LateLost, Page!Reconnect, Page!server
    <3> QED BY <1>1, <3>1 DEF ServerFits, PageFits, EventFits
  <2> QED BY <2>1, <2>2
<1>4. NetFits'
  <2>1. CASE Page!ExecuteReadyMove
    BY <1>1, <2>1 DEF Page!ExecuteReadyMove, Page!net, NetFits
  <2>2. CASE Page!LateLost
    BY <1>1, <2>2 DEF Page!LateLost, NetFits
  <2>3. CASE Page!Reconnect
    <3>1. wire' = <<>> /\ late' = Page!Seen(store)
      BY <2>3 DEF Page!Reconnect, Page!Answers
    <3>2. wire' \in Seq(Page!Views) /\ Len(wire') <= MaxWire
      BY <3>1 DEF PageSound
    <3> QED BY <1>2, <3>1, <3>2 DEF NetFits, Page!Views
  <2> QED BY <2>1, <2>2, <2>3
<1>5. PageFits'
  BY <1>1, <1>3 DEF PageFits, LockFits
<1> QED BY <1>3, <1>4, <1>5, PageParts DEF PageInv, ServerFits, NetFits, PageFits, Page!TypeOK, LockFits

LEMMA StateArrives == ASSUME PageSound, PageInv, Page!Receive \/ Page!LateArrives PROVE PageInv'
<1>1. ServerFits /\ NetFits /\ PageFits /\ UNCHANGED <<store, events, analysis, arm, beat, http>>
  BY PageParts DEF Page!Receive, Page!LateArrives, Page!server
<1>2. /\ page \in Pages /\ LockFits(page.lock) /\ wire \in Seq(Page!Views) /\ Len(wire) \in Nat
      /\ Len(wire) <= MaxWire /\ MaxWire \in Nat /\ late \in Page!Views \cup {None}
  BY <1>1 DEF PageFits, NetFits, Pages, PageSound
<1>3. ServerFits'
  BY <1>1 DEF ServerFits, EventFits
<1>4. NetFits' /\ view' \in Page!Views /\ Page!Shows(Page!Synced(page, view'), view')
  <2>1. CASE Page!Receive
    <3>1. wire # <<>> /\ wire' = Tail(wire) /\ late' = late /\ Page!Shows(Page!Synced(page, Head(wire)), Head(wire))
      BY <2>1 DEF Page!Receive, Page!server
    <3>2. Head(wire) \in Page!Views /\ wire' \in Seq(Page!Views) /\ Len(wire') <= MaxWire
      BY <1>2, <3>1
    <3>3. view' = Head(wire) /\ Page!Shows(Page!Synced(page, view'), view')
      BY <3>1 DEF Page!Shows
    <3> QED BY <1>2, <3>1, <3>2, <3>3 DEF NetFits, Page!Views
  <2>2. CASE Page!LateArrives
    <3>1. late # None /\ late' = None /\ wire' = wire /\ view' = late /\ Page!Shows(Page!Synced(page, view'), view')
      BY <2>2 DEF Page!LateArrives, Page!Shows, Page!server
    <3> QED BY <1>2, <3>1 DEF NetFits, Page!Views
  <2> QED BY <1>1, <2>1, <2>2
<1>5. PageFits'
  <2>1. page' = Page!Synced(page, view')
    BY <1>4 DEF Page!Shows
  <2>2. page' \in Pages /\ LockFits(page'.lock) /\ (~page.lock.accepted => page' = page)
    BY <1>2, <1>4, <2>1, SyncedType
  <2> QED BY <1>1, <1>4, <2>2 DEF PageFits, Pages, LockFits, Page!Views, ButtonLock
<1> QED BY <1>3, <1>4, <1>5, PageParts DEF PageInv, ServerFits, NetFits, PageFits, Page!TypeOK, LockFits

LEMMA GameStep == ASSUME PageSound, PageInv, Page!StartPlayerGame \/ Page!EndPlayerGame PROVE PageInv'
<1>1. ServerFits /\ NetFits /\ PageFits /\ UNCHANGED <<store, arm, beat, wire, http, view>>
  BY PageParts DEF Page!StartPlayerGame, Page!EndPlayerGame, Page!Shows
<1>2. store \in Page!States /\ 0 \in 0..MaxPos
  BY <1>1 DEF ServerFits, PageSound
<1>3. ServerFits'
  <2>1. UNCHANGED events \/ Page!Publish("over", 0)
    BY DEF Page!StartPlayerGame, Page!EndPlayerGame
  <2>2. CASE UNCHANGED events
    BY <1>1, <2>2 DEF ServerFits, EventFits
  <2>3. CASE Page!Publish("over", 0)
    <3>1. arm' \in {"none", "accepted", "moving", "verify"} /\ beat' \in {None, 0, 1}
      BY <1>1 DEF ServerFits
    <3> QED BY <1>1, <1>2, <2>3, <3>1, PublishType
  <2> QED BY <2>1, <2>2, <2>3
<1>4. NetFits'
  <2> DEFINE over == [store EXCEPT !.over = TRUE, !.result = TRUE]
  <2>1. over \in Page!States
    BY <1>2 DEF Page!States
  <2> HIDE DEF over
  <2>2. Page!Seen(store) \in Page!Views /\ Page!Seen(over) \in Page!Views
    BY <1>2, <2>1, SeenType
  <2>3. late' = Page!Seen(store) \/ late' = Page!Seen(over)
    BY DEF Page!StartPlayerGame, Page!EndPlayerGame, Page!Answers, over
  <2> QED BY <1>1, <2>2, <2>3 DEF NetFits, Page!Views
<1>5. PageFits'
  <2>1. page' \in Pages /\ page'.lock = page.lock
    BY <1>1 DEF Page!StartPlayerGame, Page!EndPlayerGame, Page!Shows, PageFits, Pages
  <2> QED BY <1>1, <2>1 DEF PageFits, Pages, LockFits
<1> QED BY <1>3, <1>4, <1>5, PageParts DEF PageInv, ServerFits, NetFits, PageFits, Page!TypeOK, LockFits

\* The button of the arm's move.
LEMMA ButtonStep ==
    ASSUME PageSound, PageInv,
           Page!StartRobotArmFlow \/ Page!Answered \/ Page!RequestTimesOut \/ Page!GraceElapses \/ Page!ReleaseTimeout
    PROVE  PageInv'
<1>1. ServerFits /\ NetFits /\ PageFits /\ UNCHANGED <<store, events, analysis, arm, beat, wire, late, view>>
  BY PageParts DEF Page!StartRobotArmFlow, Page!Answered, Page!RequestTimesOut, Page!GraceElapses,
        Page!ReleaseTimeout, Page!server, Page!net, Page!Shows
<1>2. page \in Pages /\ page.lock \in ButtonLock /\ LockFits(page.lock) /\ view \in Page!Views /\ view.busy \in BOOLEAN
  BY <1>1 DEF PageFits, Pages, Page!Views
<1>3. ServerFits' /\ NetFits'
  BY <1>1 DEF ServerFits, NetFits, EventFits
<1>4. /\ page' \in Pages /\ LockFits(page'.lock) /\ http' \in {"none", "sent", "yes", "no"}
      /\ http' # "none" => page'.lock.active /\ ~page'.lock.accepted
  <2>1. CASE Page!StartRobotArmFlow
    <3> DEFINE l == [Page!Unlocked EXCEPT !.active = TRUE, !.sawBusy = view.busy]
    <3>1. l \in ButtonLock /\ LockFits(l) /\ l.active /\ ~l.accepted
      BY <1>2 DEF Page!Unlocked, ButtonLock, LockFits
    <3> HIDE DEF l
    <3>2. page' = [page EXCEPT !.lock = l] /\ http' = "sent"
      BY <2>1 DEF Page!StartRobotArmFlow, Page!Shows, l
    <3>3. page' \in Pages /\ page'.lock = l
      BY <1>2, <3>1, <3>2 DEF Pages
    <3> QED BY <3>1, <3>2, <3>3
  <2>2. CASE Page!Answered
    <3>1. http' = "none" /\ http # "none" /\ page' = IF http = "yes" THEN Page!Locked(page, view, TRUE) ELSE Page!Released(page)
      BY <2>2 DEF Page!Answered, Page!Shows
    <3>2. page.lock.active
      BY <1>1, <3>1 DEF PageFits
    <3> QED BY <1>2, <3>1, <3>2, LockedType, PageReleasedType
  <2>3. CASE Page!RequestTimesOut
    BY <1>2, <2>3, PageReleasedType DEF Page!RequestTimesOut, Page!Shows
  <2>4. CASE Page!GraceElapses
    <3>1. page' = [page EXCEPT !.lock.grace = TRUE] /\ http' = http /\ page.lock.accepted
      BY <2>4 DEF Page!GraceElapses
    <3>2. /\ page' \in Pages /\ page'.lock.timer = page.lock.timer
          /\ page'.lock.accepted = page.lock.accepted /\ page'.lock.active = page.lock.active
      BY <1>2, <3>1 DEF Pages, ButtonLock
    <3> QED BY <1>1, <1>2, <3>1, <3>2 DEF PageFits, LockFits
  <2>5. CASE Page!ReleaseTimeout
    <3>1. page' = Page!Released(page) /\ http' = http /\ page.lock.timer
      BY <2>5 DEF Page!ReleaseTimeout, Page!Shows
    <3>2. http = "none"
      BY <1>1, <1>2, <3>1 DEF PageFits, LockFits
    <3> QED BY <1>2, <3>1, <3>2, PageReleasedType
  <2> QED BY <2>1, <2>2, <2>3, <2>4, <2>5
<1>5. PageFits'
  BY <1>1, <1>4 DEF PageFits, Pages, LockFits
<1> QED BY <1>3, <1>5, PageParts DEF PageInv, ServerFits, NetFits, PageFits, Page!TypeOK, LockFits

LEMMA PageStep == ASSUME PageSound, PageInv, [Page!Next]_(Page!vars) PROVE PageInv'
<1>1. CASE Page!Next
  BY <1>1, ReduceStep, ServerStep, NetStep, StateArrives, GameStep, ButtonStep DEF Page!Next
<1>2. CASE UNCHANGED Page!vars
  BY <1>2 DEF Page!vars, PageInv, Page!TypeOK, EventFits
<1> QED BY <1>1, <1>2

\* While a request is out the button is locked for it, and nothing of an older one is left in it.
RequestHoldsLock == http # "none" => page.lock.active /\ ~page.lock.accepted /\ ~page.lock.timer

\* The lock of the arm's button belongs to one request: a timer runs only for a request that was
\* accepted, and while a request is out no timer of an older one is left that could end its lock
\* (beginRobotPlayRequest, markRobotPlayAccepted and releaseRobotPlayRequest in app.js).
THEOREM PageHolds == ASSUME PageSound PROVE Page!Spec => [](Page!TypeOK /\ RequestHoldsLock)
<1>1. Page!Init => PageInv
  BY PageInit
<1>2. PageInv /\ [Page!Next]_(Page!vars) => PageInv'
  BY PageStep
<1>3. PageInv => Page!TypeOK /\ RequestHoldsLock
  BY DEF PageInv, Page!TypeOK, RequestHoldsLock
<1> QED BY <1>1, <1>2, <1>3, PTL DEF Page!Spec
=============================================================================
