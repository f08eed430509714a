---------------------------- MODULE GuidedProofs ----------------------------
(***************************************************************************)
(* The guided demo whose operator waits for an answer before the next      *)
(* click: for any number of scenario threads and of systems, no script     *)
(* outlives its system, no system its script, and no step is carried out   *)
(* that was not clicked.                                                   *)
(***************************************************************************)
EXTENDS Guided, FiniteSetTheorems, SequenceTheorems, TLAPS

Scenarios == DOMAIN Script
Answers == {"admission", "assignment", "open", "close", "departed", "move", "exit"}
Lives(t) == script[t].at # "dead"

Places == {"check", "clear", "show", "await", "recheck", "apply", "sense", "wait", "end", "fail"}

ScriptStates == [at : {"dead"} \cup Places,
                 id : Scenarios \cup {""}, step : Nat, awaited : Seq(Answers), home : Systems \cup {None}]

Stages == {"free", "cancel", "wake", "join", "stop", "create", "swap", "replace", "uncancel", "unadvance",
           "launch", "idle"}

RequestStates == [at : Stages,
                  goal : {"", "start", "reset", "close"}, id : Scenarios \cup {""}, again : BOOLEAN,
                  joined : Threads \cup {None}, new : Systems \cup {None}]

States == {"idle", "running", "waiting_for_advance", "completed", "failed"}

TypeOK ==
    /\ cancel \in BOOLEAN /\ advance \in BOOLEAN /\ clicked \in BOOLEAN /\ closed \in BOOLEAN
    /\ thread \in Threads \cup {None}
    /\ status \in [state : States, step : Nat, total : Nat]
    /\ system \in Systems /\ shown \in Systems /\ running \in SUBSET Systems
    /\ script \in [Threads -> ScriptStates] /\ request \in [Requests -> RequestStates]

\* A living script is the one the controller knows, and uses the system that runs.
ThreadOK ==
    \A t \in Threads :
        /\ ~Lives(t) => script[t] = Dead
        /\ Lives(t) => t = thread /\ script[t].home = system /\ system \in running
        /\ Lives(t) /\ cancel => \A r \in Requests : request[r].at \in {"wake", "join"}

\* It is where the status says, ...
Progress(s) ==
    /\ s.id \in Scenarios
    /\ Active /\ status.step = s.step /\ status.total = Len(Script[s.id])
    /\ s.step <= Len(Script[s.id])
    /\ s.at \in {"check", "clear", "show"} => s.step < Len(Script[s.id])
    /\ s.at \in {"await", "recheck", "apply", "sense"} => s.step # 0
    /\ s.at = "end" => s.step = Len(Script[s.id])
    /\ s.at = "wait" => s.awaited # <<>>
    /\ status.state = "waiting_for_advance" => s.at \in {"await", "recheck", "apply"}

\* ... and what has woken it is a click for its step, or it is to end.
Woken(s) ==
    /\ s.at = "show" /\ advance => cancel
    /\ s.at = "await" /\ advance => clicked \/ cancel
    /\ s.at = "recheck" => clicked \/ cancel

ProgressOK == \A t \in Threads : Lives(t) => Progress(script[t]) /\ Woken(script[t])

\* How far the handling of a click has come.
Stage(q) ==
    /\ q.at = "free" => q = Free
    /\ q.goal = "start" => q.id \in Scenarios
    /\ q.at \in {"uncancel", "unadvance", "launch"} => q.goal = "start"
    /\ q.at \in {"wake", "join"} => cancel
    /\ q.at \in {"unadvance", "launch"} => ~cancel
    /\ q.at = "join" => q.joined = thread
    /\ q.at \notin {"free", "cancel", "wake", "join"} => thread = None /\ \A t \in Threads : ~Lives(t)
    /\ q.at \in {"free", "cancel", "wake", "join", "stop"} => running \subseteq {system} /\ shown = system
    /\ q.at = "create" => running = {} /\ shown = system
    /\ q.at = "swap" => q.new \in Systems /\ running = {q.new} /\ shown = system
    /\ q.at = "replace" => q.new = system /\ running = {system}
    /\ q.at \in {"uncancel", "unadvance", "launch", "idle"} => running = {system} /\ shown = system

RequestOK == \A r \in Requests : Stage(request[r])

RestOK ==
    /\ AtRest /\ ~Alive(thread) /\ Active => running = {}
    /\ closed => AtRest /\ running = {} /\ thread = None

IInv == TypeOK /\ ThreadOK /\ ProgressOK /\ RequestOK /\ RestOK

\* The operator's clicks are handled one at a time.
OneClick == \E r : Requests = {r}

-----------------------------------------------------------------------------
\* Every script has as many steps as the dashboard is told, and waits for names of messages.
LEMMA Scripts ==
    /\ "" \notin Scenarios /\ DOMAIN TotalSteps = Scenarios
    /\ \A id \in Scenarios : /\ Script[id] \in Seq(Seq(Answers)) /\ Len(Script[id]) \in Nat
                              /\ TotalSteps[id] = Len(Script[id]) /\ Len(Script[id]) > 0
<1>1. Scenarios = {"lifecycle", "contention", "full_lot"} /\ DOMAIN TotalSteps = Scenarios
  BY DEF Scenarios, Script, TotalSteps
<1>2. Admit \in Seq(Answers) /\ Depart \in Seq(Answers)
  BY DEF Admit, Depart, Answers
<1>3. <<>> \in Seq(Answers) /\ <<"move">> \in Seq(Answers) /\ <<"exit", "open">> \in Seq(Answers)
      /\ <<"admission">> \in Seq(Answers)
  BY DEF Answers
<1>4. Depart \o <<"move">> \in Seq(Answers)
  BY <1>2, <1>3, ConcatProperties
<1>5. Lifecycle \in Seq(Seq(Answers)) /\ Len(Lifecycle) = 6
  BY <1>2, <1>3 DEF Lifecycle
<1>6. Contention \in Seq(Seq(Answers)) /\ Len(Contention) = 12
  BY <1>2, <1>3, <1>4 DEF Contention
<1>7. FullLot \in Seq(Seq(Answers)) /\ Len(FullLot) = 3
  BY <1>3 DEF FullLot
<1>8. /\ Script["lifecycle"] = Lifecycle /\ Script["contention"] = Contention
      /\ Script["full_lot"] = FullLot /\ TotalSteps["lifecycle"] = 6 /\ TotalSteps["contention"] = 12
      /\ TotalSteps["full_lot"] = 3
  BY DEF Script, TotalSteps
<1>9. ASSUME NEW id \in Scenarios
      PROVE  /\ Script[id] \in Seq(Seq(Answers)) /\ Len(Script[id]) \in Nat
             /\ TotalSteps[id] = Len(Script[id]) /\ Len(Script[id]) > 0
  <2>1. \/ id = "lifecycle" /\ Script[id] = Lifecycle /\ TotalSteps[id] = 6
        \/ id = "contention" /\ Script[id] = Contention /\ TotalSteps[id] = 12
        \/ id = "full_lot" /\ Script[id] = FullLot /\ TotalSteps[id] = 3
    BY <1>1, <1>8
  <2>2. Script[id] \in Seq(Seq(Answers))
    BY <1>5, <1>6, <1>7, <2>1
  <2>3. Len(Script[id]) = TotalSteps[id] /\ TotalSteps[id] \in {6, 12, 3}
    BY <1>5, <1>6, <1>7, <2>1
  <2> QED
    BY <2>2, <2>3
<1> QED
  BY <1>1, <1>9

\* Dead and Free are states of a thread and of a request.
LEMMA Records ==
    /\ Dead \in ScriptStates /\ Dead.at = "dead"
    /\ Free \in RequestStates /\ Free.at = "free" /\ Free.goal = ""
<1>1. <<>> \in Seq(Answers)
  OBVIOUS
<1> QED
  BY <1>1 DEF Dead, Free, ScriptStates, RequestStates, Stages

\* Where a script lives no other does, and no click has come further than to wait for it.
LEMMA Alone ==
    ASSUME IInv, NEW t \in Threads, Lives(t)
    PROVE  /\ t = thread /\ t # None /\ script[t] \in ScriptStates /\ script[t] # Dead
           /\ \A u \in Threads \ {t} : script[u] = Dead
           /\ \A r \in Requests : request[r].at \in {"free", "cancel", "wake", "join"}
           /\ Progress(script[t]) /\ Woken(script[t])
           /\ script[t].home = system /\ system \in running
<1>1. \A r \in Requests : request[r].at \in {"free", "cancel", "wake", "join"}
  BY DEF IInv, RequestOK, Stage
<1> QED
  BY <1>1, GuidedAssumption, Records DEF IInv, TypeOK, ThreadOK, ProgressOK, Lives

\* What every step of a script has in common: it stays with its system, where the status
\* says, or it is over because of a reset or because it has said so.
LEMMA ThreadStep ==
    ASSUME IInv, OneClick, NEW t \in Threads, Lives(t), NEW e \in ScriptStates,
           script' = [script EXCEPT ![t] = e], Waited, cancel' = cancel,
           advance' \in BOOLEAN, clicked' \in BOOLEAN, status' \in [state : States, step : Nat, total : Nat],
           \/ e = Dead /\ (cancel \/ ~Active')
           \/ e.at # "dead" /\ e.home = script[t].home /\ Progress(e)' /\ Woken(e)'
    PROVE  IInv'
<1>1. /\ t = thread /\ t # None
      /\ \A u \in Threads \ {t} : script[u] = Dead
      /\ \A r \in Requests : request[r].at \in {"free", "cancel", "wake", "join"}
      /\ script[t].home = system /\ system \in running
  BY Alone
<1>2. UNCHANGED <<thread, system, shown, running, request, closed, cancel>>
  BY DEF Waited, systems
<1>3. script' \in [Threads -> ScriptStates] /\ script'[t] = e /\ \A u \in Threads \ {t} : script'[u] = Dead
  BY <1>1 DEF IInv, TypeOK
<1>4. TypeOK'
  BY <1>2, <1>3 DEF IInv, TypeOK
<1>5. \A u \in Threads : Lives(u)' => u = t
  BY <1>3, Records DEF Lives
<1>6. Lives(t)' => e.at # "dead" /\ e.home = system /\ Progress(e)' /\ Woken(e)'
  BY <1>1, <1>3, Records DEF Lives
<1>7. ThreadOK'
  <2>1. cancel => \A r \in Requests : request[r].at \in {"wake", "join"}
    BY DEF IInv, ThreadOK
  <2>2. ASSUME NEW u \in Threads, ~Lives(u)' PROVE script'[u] = Dead
    BY <1>3, <2>2 DEF Lives
  <2> QED
    BY <1>1, <1>2, <1>5, <1>6, <2>1, <2>2 DEF ThreadOK
<1>8. ProgressOK'
  BY <1>3, <1>5, <1>6 DEF ProgressOK, Progress, Woken, Active
<1>9. RequestOK'
  BY <1>1, <1>2 DEF IInv, RequestOK, Stage, Lives
<1>10. RestOK'
  <2>1. closed => thread = None
    BY DEF IInv, RestOK
  <2>2. ASSUME AtRest', ~Alive(thread)', Active' PROVE running' = {}
    <3>1. e = Dead
      BY <1>1, <1>2, <1>3, <2>2, Records DEF Alive
    <3>2. cancel
      BY <2>2, <3>1, Records
    <3>3. \A r \in Requests : request[r].at \in {"wake", "join"}
      BY <3>2 DEF IInv, ThreadOK
    <3> QED
      <4>1. PICK r \in Requests : TRUE
        BY DEF OneClick
      <4> QED
        BY <1>2, <2>2, <3>3, <4>1, Records DEF AtRest
  <2> QED
    BY <1>1, <1>2, <2>1, <2>2 DEF RestOK
<1> QED
  BY <1>4, <1>7, <1>8, <1>9, <1>10 DEF IInv

\* A script that goes to another place is otherwise the same.
LEMMA Going ==
    ASSUME NEW t \in Threads, script[t] \in ScriptStates, NEW place \in Places, Go(t, place)
    PROVE  \E e \in ScriptStates : /\ script' = [script EXCEPT ![t] = e] /\ e.at = place
                                  /\ e.id = script[t].id /\ e.step = script[t].step
                                  /\ e.awaited = script[t].awaited /\ e.home = script[t].home
<1> DEFINE e == [script[t] EXCEPT !.at = place]
<1>1. script' = [script EXCEPT ![t] = e]
  BY DEF Go
<1>2. /\ e \in ScriptStates /\ e.at = place /\ e.id = script[t].id /\ e.step = script[t].step
      /\ e.awaited = script[t].awaited /\ e.home = script[t].home
  BY DEF ScriptStates, Places
<1> QED
  BY <1>1, <1>2

\* A step is counted.
LEMMA Counting ==
    ASSUME NEW s \in ScriptStates
    PROVE  LET n == [s EXCEPT !.at = "await", !.step = @ + 1]
           IN  n \in ScriptStates /\ n.at = "await" /\ n.id = s.id /\ n.step = s.step + 1 /\ n.home = s.home
<1>1. s.step \in Nat
  BY DEF ScriptStates
<1>2. s.step + 1 \in Nat
  BY <1>1
<1>3. ASSUME NEW k \in Nat
      PROVE  LET n == [s EXCEPT !.at = "await", !.step = k]
             IN  n \in ScriptStates /\ n.at = "await" /\ n.id = s.id /\ n.step = k /\ n.home = s.home
  BY DEF ScriptStates, Places
<1> QED
  BY <1>2, <1>3

\* A step that still waits for something, or is done.
LEMMA Continuing ==
    ASSUME NEW t \in Threads, script[t] \in ScriptStates, NEW ms \in Seq(Answers), After(t, ms)
    PROVE  \E e \in ScriptStates :
               /\ script' = [script EXCEPT ![t] = e] /\ e.awaited = ms
               /\ e.id = script[t].id /\ e.step = script[t].step /\ e.home = script[t].home
               /\ e.at = IF ms # <<>> THEN "wait"
                         ELSE IF script[t].step < Len(Script[script[t].id]) THEN "check" ELSE "end"
<1> DEFINE at == IF ms # <<>> THEN "wait"
                 ELSE IF script[t].step < Len(Script[script[t].id]) THEN "check" ELSE "end"
           e == [script[t] EXCEPT !.awaited = ms, !.at = at]
<1>1. script' = [script EXCEPT ![t] = e]
  BY DEF After
<1>2. at \in Places
  BY DEF Places
<1> HIDE DEF at
<1>3. /\ e \in ScriptStates /\ e.awaited = ms /\ e.at = at
      /\ e.id = script[t].id /\ e.step = script[t].step /\ e.home = script[t].home
  BY <1>2 DEF ScriptStates
<1>4. \E x \in ScriptStates :
          /\ script' = [script EXCEPT ![t] = x] /\ x.awaited = ms /\ x.at = at
          /\ x.id = script[t].id /\ x.step = script[t].step /\ x.home = script[t].home
  BY <1>1, <1>3
<1> QED
  BY <1>4 DEF at

-----------------------------------------------------------------------------
(* Scenario threads.                                                       *)

\* A thread that is cancelled keeps the inductive invariant.
LEMMA CancelledIInv ==
    ASSUME IInv, OneClick, NEW t \in Threads, Lives(t), cancel, Cancelled(t), Waited,
           UNCHANGED <<controls, status, clicked>>
    PROVE  IInv'
<1>1. script' = [script EXCEPT ![t] = Dead]
  BY DEF Cancelled
<1> QED
  BY <1>1, ThreadStep, Records DEF controls, IInv, TypeOK

\* The step Check preserves the inductive invariant.
LEMMA CheckIInv == ASSUME IInv, OneClick, NEW t \in Threads, Check(t) PROVE IInv'
<1>1. Lives(t) /\ script[t].at = "check"
  BY DEF Check, At, Lives
<1>2. script[t] \in ScriptStates /\ Progress(script[t])
  BY <1>1, Alone
<1>3. CASE cancel
  BY <1>1, <1>3, CancelledIInv DEF Check
<1>4. CASE ~cancel
  <2>1. Go(t, "clear") /\ UNCHANGED <<cancel, advance, status, clicked>> /\ Waited
    BY <1>4 DEF Check, controls
  <2>2. PICK e \in ScriptStates : /\ script' = [script EXCEPT ![t] = e] /\ e.at = "clear"
                                  /\ e.id = script[t].id /\ e.step = script[t].step
                                  /\ e.awaited = script[t].awaited /\ e.home = script[t].home
    BY <1>2, <2>1, Going DEF Places
  <2>3. Progress(e)' /\ Woken(e)'
    BY <1>1, <1>2, <2>1, <2>2 DEF Progress, Woken, Active
  <2> QED
    BY <1>1, <2>1, <2>2, <2>3, ThreadStep DEF IInv, TypeOK
<1> QED
  BY <1>3, <1>4

\* The step Clear preserves the inductive invariant.
LEMMA ClearIInv == ASSUME IInv, OneClick, NEW t \in Threads, Clear(t) PROVE IInv'
<1>1. Lives(t) /\ script[t].at = "clear"
  BY DEF Clear, At, Lives
<1>2. script[t] \in ScriptStates /\ Progress(script[t])
  BY <1>1, Alone
<1>3. Go(t, "show") /\ UNCHANGED <<cancel, status, clicked>> /\ advance' = FALSE /\ Waited
  BY DEF Clear
<1>4. PICK e \in ScriptStates : /\ script' = [script EXCEPT ![t] = e] /\ e.at = "show"
                                /\ e.id = script[t].id /\ e.step = script[t].step
                                /\ e.awaited = script[t].awaited /\ e.home = script[t].home
  BY <1>2, <1>3, Going DEF Places
<1>5. Progress(e)' /\ Woken(e)'
  BY <1>1, <1>2, <1>3, <1>4 DEF Progress, Woken, Active
<1>6. advance' \in BOOLEAN
  BY <1>3
<1> QED
  BY <1>1, <1>3, <1>4, <1>5, <1>6, ThreadStep DEF IInv, TypeOK

\* The step Show preserves the inductive invariant.
LEMMA ShowIInv == ASSUME IInv, OneClick, NEW t \in Threads, Show(t) PROVE IInv'
<1>1. Lives(t) /\ script[t].at = "show"
  BY DEF Show, At, Lives
<1>2. script[t] \in ScriptStates /\ Progress(script[t]) /\ Woken(script[t])
  BY <1>1, Alone
<1>3. /\ UNCHANGED <<cancel, advance>> /\ clicked' = FALSE /\ Waited
      /\ status' = [status EXCEPT !.state = "waiting_for_advance", !.step = @ + 1]
  BY DEF Show, controls
<1>4. PICK e \in ScriptStates : /\ script' = [script EXCEPT ![t] = e] /\ e.at = "await"
                                /\ e.id = script[t].id /\ e.step = script[t].step + 1
                                /\ e.home = script[t].home
  <2> DEFINE n == [script[t] EXCEPT !.at = "await", !.step = @ + 1]
  <2>1. script' = [script EXCEPT ![t] = n]
    BY DEF Show
  <2>2. /\ n \in ScriptStates /\ n.at = "await" /\ n.id = script[t].id /\ n.step = script[t].step + 1
        /\ n.home = script[t].home
    BY <1>2, Counting
  <2> QED
    BY <2>1, <2>2
<1>5. status \in [state : States, step : Nat, total : Nat]
  BY DEF IInv, TypeOK
<1>6. /\ status' \in [state : States, step : Nat, total : Nat] /\ status'.state = "waiting_for_advance"
      /\ status'.step = status.step + 1 /\ status'.total = status.total
  <2>1. status' = [state |-> "waiting_for_advance", step |-> status.step + 1, total |-> status.total]
    BY <1>3, <1>5
  <2>2. status.step + 1 \in Nat /\ status.total \in Nat
    BY <1>5
  <2> QED
    BY <2>1, <2>2 DEF States
<1>7. Progress(e)'
  <2>1. Len(Script[e.id]) \in Nat /\ script[t].step \in Nat
    BY <1>2, <1>4, Scripts DEF Progress, ScriptStates
  <2> QED
    BY <1>1, <1>2, <1>4, <1>6, <2>1 DEF Progress, Active
<1>8. Woken(e)'
  BY <1>1, <1>2, <1>3, <1>4 DEF Woken
<1>9. clicked' \in BOOLEAN
  BY <1>3
<1> QED
  BY <1>1, <1>3, <1>4, <1>6, <1>7, <1>8, <1>9, ThreadStep DEF IInv, TypeOK

\* The step Await preserves the inductive invariant.
LEMMA AwaitIInv == ASSUME IInv, OneClick, NEW t \in Threads, Await(t) PROVE IInv'
<1>1. Lives(t) /\ script[t].at = "await"
  BY DEF Await, At, Lives
<1>2. script[t] \in ScriptStates /\ Progress(script[t]) /\ Woken(script[t])
  BY <1>1, Alone
<1>3. CASE ~advance
  BY <1>1, <1>3, CancelledIInv DEF Await
<1>4. CASE advance
  <2>1. Go(t, "recheck") /\ UNCHANGED <<cancel, advance, status, clicked>> /\ Waited
    BY <1>4 DEF Await, controls
  <2>2. PICK e \in ScriptStates : /\ script' = [script EXCEPT ![t] = e] /\ e.at = "recheck"
                                  /\ e.id = script[t].id /\ e.step = script[t].step
                                  /\ e.awaited = script[t].awaited /\ e.home = script[t].home
    BY <1>2, <2>1, Going DEF Places
  <2>3. Progress(e)' /\ Woken(e)'
    BY <1>1, <1>2, <1>4, <2>1, <2>2 DEF Progress, Woken, Active
  <2> QED
    BY <1>1, <2>1, <2>2, <2>3, ThreadStep DEF IInv, TypeOK
<1> QED
  BY <1>3, <1>4

\* The step Recheck preserves the inductive invariant.
LEMMA RecheckIInv == ASSUME IInv, OneClick, NEW t \in Threads, Recheck(t) PROVE IInv'
<1>1. Lives(t) /\ script[t].at = "recheck"
  BY DEF Recheck, At, Lives
<1>2. script[t] \in ScriptStates /\ Progress(script[t])
  BY <1>1, Alone
<1>3. CASE cancel
  BY <1>1, <1>3, CancelledIInv DEF Recheck
<1>4. CASE ~cancel
  <2>1. Go(t, "apply") /\ UNCHANGED <<cancel, advance, status, clicked>> /\ Waited
    BY <1>4 DEF Recheck, controls
  <2>2. PICK e \in ScriptStates : /\ script' = [script EXCEPT ![t] = e] /\ e.at = "apply"
                                  /\ e.id = script[t].id /\ e.step = script[t].step
                                  /\ e.awaited = script[t].awaited /\ e.home = script[t].home
    BY <1>2, <2>1, Going DEF Places
  <2>3. Progress(e)' /\ Woken(e)'
    BY <1>1, <1>2, <2>1, <2>2 DEF Progress, Woken, Active
  <2> QED
    BY <1>1, <2>1, <2>2, <2>3, ThreadStep DEF IInv, TypeOK
<1> QED
  BY <1>3, <1>4

\* The step Apply preserves the inductive invariant.
LEMMA ApplyIInv == ASSUME IInv, OneClick, NEW t \in Threads, Apply(t) PROVE IInv'
<1>1. Lives(t) /\ script[t].at = "apply"
  BY DEF Apply, At, Lives
<1>2. script[t] \in ScriptStates /\ Progress(script[t])
  BY <1>1, Alone
<1>3. /\ Go(t, "sense") /\ UNCHANGED <<cancel, advance, clicked>> /\ Waited
      /\ status' = [status EXCEPT !.state = "running"]
  BY DEF Apply, controls
<1>4. PICK e \in ScriptStates : /\ script' = [script EXCEPT ![t] = e] /\ e.at = "sense"
                                /\ e.id = script[t].id /\ e.step = script[t].step
                                /\ e.awaited = script[t].awaited /\ e.home = script[t].home
  BY <1>2, <1>3, Going DEF Places
<1>5. status \in [state : States, step : Nat, total : Nat]
  BY DEF IInv, TypeOK
<1>6. /\ status' \in [state : States, step : Nat, total : Nat] /\ status'.state = "running"
      /\ status'.step = status.step /\ status'.total = status.total
  BY <1>3, <1>5 DEF States
<1>7. Progress(e)'
  BY <1>1, <1>2, <1>4, <1>6 DEF Progress, Active
<1>8. Woken(e)'
  BY <1>4 DEF Woken
<1> QED
  BY <1>1, <1>3, <1>4, <1>6, <1>7, <1>8, ThreadStep DEF IInv, TypeOK

\* A script that goes on with its step or with the next one keeps the inductive invariant.
LEMMA AfterIInv ==
    ASSUME IInv, OneClick, NEW t \in Threads, script[t].at \in {"sense", "wait"}, Waited,
           NEW ms \in Seq(Answers), After(t, ms), UNCHANGED <<controls, status, clicked>>
    PROVE  IInv'
<1>1. Lives(t)
  BY DEF Lives
<1>2. script[t] \in ScriptStates /\ Progress(script[t])
  BY <1>1, Alone
<1>3. PICK e \in ScriptStates :
          /\ script' = [script EXCEPT ![t] = e] /\ e.awaited = ms
          /\ e.id = script[t].id /\ e.step = script[t].step /\ e.home = script[t].home
          /\ e.at = IF ms # <<>> THEN "wait"
                    ELSE IF script[t].step < Len(Script[script[t].id]) THEN "check" ELSE "end"
  BY <1>2, Continuing
<1>4. e.step \in Nat /\ Len(Script[e.id]) \in Nat
  BY <1>2, <1>3, Scripts DEF Progress, ScriptStates
<1>5. Progress(e)' /\ Woken(e)'
  BY <1>2, <1>3, <1>4 DEF Progress, Woken, Active, controls
<1> QED
  BY <1>1, <1>3, <1>5, ThreadStep DEF IInv, TypeOK, controls

\* The step Sense preserves the inductive invariant.
LEMMA SenseIInv == ASSUME IInv, OneClick, NEW t \in Threads, Sense(t) PROVE IInv'
<1>1. Lives(t) /\ script[t].at = "sense"
  BY DEF Sense, At, Lives
<1>2. script[t] \in ScriptStates /\ Progress(script[t])
  BY <1>1, Alone
<1>3. Script[script[t].id][script[t].step] \in Seq(Answers)
  <2>1. /\ Script[script[t].id] \in Seq(Seq(Answers)) /\ Len(Script[script[t].id]) \in Nat
        /\ script[t].step \in Nat
    BY <1>2, Scripts DEF Progress, ScriptStates
  <2>2. script[t].step \in 1..Len(Script[script[t].id])
    BY <1>1, <1>2, <2>1 DEF Progress
  <2> QED
    BY <2>1, <2>2, ElementOfSeq
<1> QED
  BY <1>1, <1>3, AfterIInv DEF Sense

\* The step Wait preserves the inductive invariant.
LEMMA WaitIInv == ASSUME IInv, OneClick, NEW t \in Threads, Wait(t) PROVE IInv'
<1>1. Lives(t) /\ script[t].at = "wait" /\ UNCHANGED <<cancel, advance, status, clicked>> /\ Waited
  BY DEF Wait, At, Lives, controls
<1>2. script[t] \in ScriptStates /\ Progress(script[t])
  BY <1>1, Alone
<1>3. CASE cancel /\ Cancelled(t)
  BY <1>1, <1>3, CancelledIInv DEF controls
<1>4. CASE After(t, Tail(script[t].awaited))
  <2>1. script[t].awaited \in Seq(Answers) /\ script[t].awaited # <<>>
    BY <1>1, <1>2 DEF Progress, ScriptStates
  <2>2. Tail(script[t].awaited) \in Seq(Answers)
    BY <2>1, HeadTailProperties
  <2> QED
    BY <1>1, <1>4, <2>2, AfterIInv DEF controls
<1>5. CASE Go(t, "fail")
  <2>1. PICK e \in ScriptStates : /\ script' = [script EXCEPT ![t] = e] /\ e.at = "fail"
                                  /\ e.id = script[t].id /\ e.step = script[t].step
                                  /\ e.awaited = script[t].awaited /\ e.home = script[t].home
    BY <1>2, <1>5, Going DEF Places
  <2>2. Progress(e)' /\ Woken(e)'
    BY <1>1, <1>2, <2>1 DEF Progress, Woken, Active
  <2> QED
    BY <1>1, <2>1, <2>2, ThreadStep DEF IInv, TypeOK
<1> QED
  BY <1>3, <1>4, <1>5 DEF Wait

\* The step End preserves the inductive invariant.
LEMMA EndIInv == ASSUME IInv, OneClick, NEW t \in Threads, End(t) PROVE IInv'
<1>1. Lives(t) /\ script' = [script EXCEPT ![t] = Dead] /\ UNCHANGED <<cancel, advance, clicked>> /\ Waited
  BY DEF End, At, Lives, Cancelled, controls
<1>2. status \in [state : States, step : Nat, total : Nat]
  BY DEF IInv, TypeOK
<1>3. status' \in [state : States, step : Nat, total : Nat] /\ status'.state \in {"completed", "failed"}
  <2>1. CASE status' = [status EXCEPT !.state = "completed", !.step = status.total]
    BY <1>2, <2>1 DEF States
  <2>2. CASE status' = [status EXCEPT !.state = "failed"]
    BY <1>2, <2>2 DEF States
  <2> QED
    BY <2>1, <2>2 DEF End
<1>4. ~Active'
  BY <1>3 DEF Active
<1> QED
  BY <1>1, <1>3, <1>4, ThreadStep, Records DEF IInv, TypeOK

-----------------------------------------------------------------------------
(* Clicks.                                                                 *)

\* What every step of a click's handling has in common: nothing changes under a living
\* script but that it is told to end.
LEMMA RequestStep ==
    ASSUME IInv, OneClick, NEW r \in Requests, NEW q \in RequestStates,
           request' = [request EXCEPT ![r] = q], Stage(q)', UNCHANGED <<script, clicked>>,
           cancel' \in BOOLEAN, advance' \in BOOLEAN, closed' \in BOOLEAN,
           thread' \in Threads \cup {None}, status' \in [state : States, step : Nat, total : Nat],
           system' \in Systems, shown' \in Systems, running' \in SUBSET Systems,
           \A t \in Threads : Lives(t) =>
               /\ UNCHANGED <<thread, status, system, running>>
               /\ cancel' => q.at \in {"wake", "join"}
               /\ cancel => cancel'
               /\ advance' => advance \/ cancel',
           closed' => q = Free /\ running' = {} /\ thread' = None,
           q = Free /\ (\A t \in Threads : ~Lives(t)) /\ Active' => running' = {}
    PROVE  IInv'
<1>1. Requests = {r}
  BY DEF OneClick
<1>2. request' \in [Requests -> RequestStates] /\ request'[r] = q
  BY DEF IInv, TypeOK
<1>3. TypeOK'
  BY <1>2 DEF IInv, TypeOK
<1>4. ThreadOK'
  <2>1. \A t \in Threads : Lives(t)' = Lives(t)
    BY DEF Lives
  <2> QED
    BY <1>1, <1>2, <2>1 DEF IInv, ThreadOK
<1>5. ProgressOK'
  <2> SUFFICES ASSUME NEW t \in Threads, Lives(t) PROVE Progress(script[t])' /\ Woken(script[t])'
    BY DEF ProgressOK, Lives
  <2>1. Progress(script[t]) /\ Woken(script[t])
    BY DEF IInv, ProgressOK
  <2>2. Progress(script[t])'
    BY <2>1 DEF Progress, Active
  <2>3. Woken(script[t])'
    BY <2>1 DEF Woken
  <2> QED
    BY <2>2, <2>3
<1>6. RequestOK'
  BY <1>1, <1>2 DEF RequestOK, Stage, Lives
<1>7. RestOK'
  <2>1. ASSUME AtRest', ~Alive(thread)', Active' PROVE running' = {}
    <3>1. q = Free
      BY <1>1, <1>2, <2>1 DEF AtRest
    <3>2. ASSUME NEW t \in Threads, Lives(t) PROVE FALSE
      BY <2>1, <3>2, Alone DEF Alive
    <3> QED
      BY <2>1, <3>1, <3>2
  <2>2. closed' => AtRest'
    BY <1>1, <1>2 DEF AtRest
  <2> QED
    BY <2>1, <2>2 DEF RestOK
<1> QED
  BY <1>3, <1>4, <1>5, <1>6, <1>7 DEF IInv

\* A request that has come a step further is otherwise the same.
LEMMA Proceeding ==
    ASSUME NEW r \in Requests, request[r] \in RequestStates, NEW place \in Stages, Then(r, place)
    PROVE  \E q \in RequestStates :
               /\ request' = [request EXCEPT ![r] = q] /\ q.at = place /\ q.goal = request[r].goal
               /\ q.id = request[r].id /\ q.joined = request[r].joined /\ q.new = request[r].new
<1> DEFINE q == [request[r] EXCEPT !.at = place]
<1>1. request' = [request EXCEPT ![r] = q]
  BY DEF Then
<1>2. /\ q \in RequestStates /\ q.at = place /\ q.goal = request[r].goal
      /\ q.id = request[r].id /\ q.joined = request[r].joined /\ q.new = request[r].new
  BY DEF RequestStates, Stages
<1> QED
  BY <1>1, <1>2

\* The step Advance preserves the inductive invariant.
LEMMA AdvanceIInv == ASSUME IInv, OneClick, Advance PROVE IInv'
<1>1. /\ advance' = TRUE /\ clicked' = TRUE
      /\ UNCHANGED <<cancel, thread, status, system, shown, running, script, request, closed>>
  BY DEF Advance, systems
<1>2. advance' \in BOOLEAN /\ clicked' \in BOOLEAN
  BY ONLY <1>1
<1>3. TypeOK'
  BY <1>1, <1>2 DEF IInv, TypeOK
<1>4. ThreadOK' /\ RequestOK'
  BY <1>1 DEF IInv, ThreadOK, RequestOK, Stage, Lives
<1>5. ProgressOK'
  <2> SUFFICES ASSUME NEW t \in Threads, Lives(t) PROVE Progress(script[t])' /\ Woken(script[t])'
    BY <1>1 DEF ProgressOK, Lives
  <2>1. Progress(script[t]) /\ status.state = "waiting_for_advance"
    BY DEF IInv, ProgressOK, Advance
  <2>2. Progress(script[t])'
    BY <1>1, <2>1 DEF Progress, Active
  <2>3. Woken(script[t])'
    BY <1>1, <2>1 DEF Woken, Progress
  <2> QED
    BY <2>2, <2>3
<1>6. RestOK'
  BY <1>1 DEF IInv, RestOK, AtRest, Alive, Active
<1> QED
  BY <1>3, <1>4, <1>5, <1>6 DEF IInv

\* The step Begin preserves the inductive invariant.
LEMMA BeginIInv == ASSUME IInv, OneClick, NEW r \in Requests, Begin(r) PROVE IInv'
<1>1. request[r].at = "free" /\ ~closed /\ Stage(request[r])
  BY DEF Begin, Handling, IInv, RequestOK
<1>2. UNCHANGED <<cancel, advance, thread, status, system, shown, running, script, clicked, closed>>
  BY DEF Begin, controls, systems
<1>3. PICK q \in RequestStates : /\ request' = [request EXCEPT ![r] = q] /\ q.at = "cancel"
                                 /\ q.goal = "start" => q.id \in Scenarios /\ ~Alive(thread)
  <2>1. PICK goal \in {"start", "reset", "close"}, id \in Scenarios \cup {""} :
            /\ request' = [request EXCEPT ![r] = [Free EXCEPT !.at = "cancel", !.goal = goal, !.id = id,
                                                             !.again = (goal = "reset")]]
            /\ goal = "start" => id \in Scenarios /\ ~Alive(thread)
    BY DEF Begin, Scenarios
  <2> DEFINE n == [Free EXCEPT !.at = "cancel", !.goal = goal, !.id = id, !.again = (goal = "reset")]
  <2>2. (goal = "reset") \in BOOLEAN
    BY ONLY TRUE
  <2>3. n \in RequestStates /\ n.at = "cancel" /\ n.goal = goal /\ n.id = id
    BY <2>2 DEF Free, RequestStates, Stages
  <2> QED
    BY <2>1, <2>3
<1>4. Stage(q)'
  BY <1>1, <1>2, <1>3 DEF Stage
<1>5. \A t \in Threads : Lives(t) => ~cancel
  BY <1>1 DEF IInv, ThreadOK
<1> QED
  BY <1>1, <1>2, <1>3, <1>4, <1>5, Records, RequestStep DEF IInv, TypeOK

\* The step Cancel preserves the inductive invariant.
LEMMA CancelIInv == ASSUME IInv, OneClick, NEW r \in Requests, Cancel(r) PROVE IInv'
<1>1. request[r].at = "cancel" /\ request[r] \in RequestStates /\ Stage(request[r])
  BY DEF Cancel, Handling, IInv, TypeOK, RequestOK
<1>2. /\ UNCHANGED <<advance, thread, status, system, shown, running, script, clicked, closed>>
      /\ cancel' = TRUE /\ Then(r, "wake")
  BY DEF Cancel, systems
<1>3. PICK q \in RequestStates :
               /\ request' = [request EXCEPT ![r] = q] /\ q.at = "wake" /\ q.goal = request[r].goal
               /\ q.id = request[r].id /\ q.joined = request[r].joined /\ q.new = request[r].new
  BY <1>1, <1>2, Proceeding DEF Stages
<1>4. Stage(q)'
  BY <1>1, <1>2, <1>3 DEF Stage
<1>5. ~closed
  BY <1>1, Records DEF IInv, RestOK, AtRest
<1>6. cancel' \in BOOLEAN
  BY <1>2
<1> QED
  BY <1>2, <1>3, <1>4, <1>5, <1>6, Records, RequestStep DEF IInv, TypeOK

\* The step Wake preserves the inductive invariant.
LEMMA WakeIInv == ASSUME IInv, OneClick, NEW r \in Requests, Wake(r) PROVE IInv'
<1>1. request[r].at = "wake" /\ request[r] \in RequestStates /\ Stage(request[r])
  BY DEF Wake, Handling, IInv, TypeOK, RequestOK
<1>2. /\ UNCHANGED <<cancel, thread, status, system, shown, running, script, clicked, closed>>
      /\ advance' = TRUE
  BY DEF Wake, systems
<1>3. PICK q \in RequestStates : /\ request' = [request EXCEPT ![r] = q] /\ q.at = "join"
                                 /\ q.goal = request[r].goal /\ q.id = request[r].id /\ q.joined = thread
  <2> DEFINE n == [request[r] EXCEPT !.at = "join", !.joined = thread]
  <2>1. request' = [request EXCEPT ![r] = n]
    BY DEF Wake
  <2>2. n \in RequestStates /\ n.at = "join" /\ n.goal = request[r].goal /\ n.id = request[r].id
        /\ n.joined = thread
    BY <1>1 DEF IInv, TypeOK, RequestStates, Stages
  <2> QED
    BY <2>1, <2>2
<1>4. Stage(q)'
  BY <1>1, <1>2, <1>3 DEF Stage
<1>5. ~closed /\ cancel
  BY <1>1, Records DEF IInv, RestOK, AtRest, Stage
<1>6. advance' \in BOOLEAN
  BY <1>2
<1> QED
  BY <1>2, <1>3, <1>4, <1>5, <1>6, Records, RequestStep DEF IInv, TypeOK

\* The step Join preserves the inductive invariant.
LEMMA JoinIInv == ASSUME IInv, OneClick, NEW r \in Requests, Join(r) PROVE IInv'
<1>1. request[r].at = "join" /\ request[r] \in RequestStates /\ Stage(request[r])
  BY DEF Join, Handling, IInv, TypeOK, RequestOK
<1>2. UNCHANGED <<cancel, advance, status, system, shown, running, script, clicked, closed>> /\ thread' = None
  BY DEF Join, controls, systems
<1>3. \A t \in Threads : ~Lives(t)
  BY <1>1, Alone DEF Join, Stage, Alive
<1>4. PICK q \in RequestStates : /\ request' = [request EXCEPT ![r] = q] /\ q.at \in {"cancel", "stop"}
                                 /\ q.goal = request[r].goal /\ q.id = request[r].id
  <2> DEFINE place == IF request[r].again THEN "cancel" ELSE "stop"
             n == [request[r] EXCEPT !.at = place, !.again = FALSE, !.joined = None]
  <2>1. request' = [request EXCEPT ![r] = n]
    BY DEF Join
  <2>2. place \in {"cancel", "stop"}
    OBVIOUS
  <2> HIDE DEF place
  <2>3. n \in RequestStates /\ n.at = place /\ n.goal = request[r].goal /\ n.id = request[r].id
    BY <1>1, <2>2 DEF RequestStates, Stages
  <2> QED
    BY <2>1, <2>2, <2>3
<1>5. Stage(q)'
  BY <1>1, <1>2, <1>3, <1>4 DEF Stage, Lives
<1>6. ~closed
  BY <1>1, Records DEF IInv, RestOK, AtRest
<1> QED
  BY <1>2, <1>3, <1>4, <1>5, <1>6, Records, RequestStep DEF IInv, TypeOK

\* The step Stop preserves the inductive invariant.
LEMMA StopIInv == ASSUME IInv, OneClick, NEW r \in Requests, Stop(r) PROVE IInv'
<1>1. request[r].at = "stop" /\ request[r] \in RequestStates /\ Stage(request[r])
  BY DEF Stop, Handling, IInv, TypeOK, RequestOK
<1>2. /\ UNCHANGED <<cancel, advance, thread, status, system, shown, script, clicked>>
      /\ running' = running \ {system}
  BY DEF Stop, controls
<1>3. thread = None /\ (\A t \in Threads : ~Lives(t)) /\ running' = {} /\ shown = system
  BY <1>1, <1>2 DEF Stage
<1>4. ~closed
  BY <1>1, Records DEF IInv, RestOK, AtRest
<1>5. CASE request[r].goal = "close"
  <2>1. request' = [request EXCEPT ![r] = Free] /\ closed' = TRUE
    BY <1>5 DEF Stop, Done
  <2>2. Stage(Free)'
    BY <1>2, <1>3, Records DEF Stage
  <2>3. closed' \in BOOLEAN
    BY <2>1
  <2> QED
    BY <1>2, <1>3, <2>1, <2>2, <2>3, Records, RequestStep DEF IInv, TypeOK
<1>6. CASE request[r].goal # "close"
  <2>1. Then(r, "create") /\ closed' = closed
    BY <1>6 DEF Stop
  <2>2. PICK q \in RequestStates :
               /\ request' = [request EXCEPT ![r] = q] /\ q.at = "create" /\ q.goal = request[r].goal
               /\ q.id = request[r].id /\ q.joined = request[r].joined /\ q.new = request[r].new
    BY <1>1, <2>1, Proceeding DEF Stages
  <2>3. Stage(q)'
    BY <1>1, <1>2, <1>3, <2>2 DEF Stage, Lives
  <2> QED
    BY <1>2, <1>3, <1>4, <2>1, <2>2, <2>3, Records, RequestStep DEF IInv, TypeOK
<1> QED
  BY <1>5, <1>6

\* The step Create preserves the inductive invariant.
LEMMA CreateIInv == ASSUME IInv, OneClick, NEW r \in Requests, Create(r) PROVE IInv'
<1>1. request[r].at = "create" /\ request[r] \in RequestStates /\ Stage(request[r])
  BY DEF Create, Handling, IInv, TypeOK, RequestOK
<1>2. UNCHANGED <<cancel, advance, thread, status, system, shown, script, clicked, closed>>
  BY DEF Create, controls
<1>3. thread = None /\ (\A t \in Threads : ~Lives(t)) /\ running = {} /\ shown = system
  BY <1>1 DEF Stage
<1>4. ~closed
  BY <1>1, Records DEF IInv, RestOK, AtRest
<1>5. CASE Done(r) /\ UNCHANGED running
  <2>1. request' = [request EXCEPT ![r] = Free]
    BY <1>5 DEF Done
  <2>2. Stage(Free)'
    BY <1>2, <1>3, <1>5, Records DEF Stage
  <2> QED
    BY <1>2, <1>3, <1>4, <1>5, <2>1, <2>2, Records, RequestStep DEF IInv, TypeOK
<1>6. ASSUME NEW y \in Systems, running' = running \cup {y},
             request' = [request EXCEPT ![r].at = "swap", ![r].new = y]
      PROVE  IInv'
  <2>1. PICK q \in RequestStates : /\ request' = [request EXCEPT ![r] = q] /\ q.at = "swap"
                                   /\ q.goal = request[r].goal /\ q.id = request[r].id /\ q.new = y
    <3> DEFINE n == [request[r] EXCEPT !.at = "swap", !.new = y]
    <3>1. request' = [request EXCEPT ![r] = n]
      BY <1>6
    <3>2. n \in RequestStates /\ n.at = "swap" /\ n.goal = request[r].goal /\ n.id = request[r].id
          /\ n.new = y
      BY <1>1 DEF RequestStates, Stages
    <3> QED
      BY <3>1, <3>2
  <2>2. running' = {y}
    BY <1>3, <1>6
  <2>3. Stage(q)'
    BY <1>1, <1>2, <1>3, <2>1, <2>2 DEF Stage, Lives
  <2> QED
    BY <1>2, <1>3, <1>4, <2>1, <2>2, <2>3, Records, RequestStep DEF IInv, TypeOK
<1> QED
  BY <1>5, <1>6 DEF Create

\* The step Swap preserves the inductive invariant.
LEMMA SwapIInv == ASSUME IInv, OneClick, NEW r \in Requests, Swap(r) PROVE IInv'
<1>1. request[r].at = "swap" /\ request[r] \in RequestStates /\ Stage(request[r])
  BY DEF Swap, Handling, IInv, TypeOK, RequestOK
<1>2. /\ UNCHANGED <<cancel, advance, thread, status, shown, running, script, clicked, closed>>
      /\ system' = request[r].new /\ Then(r, "replace")
  BY DEF Swap, controls
<1>3. thread = None /\ (\A t \in Threads : ~Lives(t)) /\ system' \in Systems /\ running = {system'}
  BY <1>1, <1>2 DEF Stage
<1>4. ~closed
  BY <1>1, Records DEF IInv, RestOK, AtRest
<1>5. PICK q \in RequestStates :
               /\ request' = [request EXCEPT ![r] = q] /\ q.at = "replace" /\ q.goal = request[r].goal
               /\ q.id = request[r].id /\ q.joined = request[r].joined /\ q.new = request[r].new
  BY <1>1, <1>2, Proceeding DEF Stages
<1>6. Stage(q)'
  BY <1>1, <1>2, <1>3, <1>5 DEF Stage, Lives
<1> QED
  BY <1>2, <1>3, <1>4, <1>5, <1>6, Records, RequestStep DEF IInv, TypeOK

\* The step Replace preserves the inductive invariant.
LEMMA ReplaceIInv == ASSUME IInv, OneClick, NEW r \in Requests, Replace(r) PROVE IInv'
<1> DEFINE place == IF request[r].goal = "start" THEN "uncancel" ELSE "idle"
<1>1. request[r].at = "replace" /\ request[r] \in RequestStates /\ Stage(request[r])
  BY DEF Replace, Handling, IInv, TypeOK, RequestOK
<1>2. /\ UNCHANGED <<cancel, advance, thread, status, system, running, script, clicked, closed>>
      /\ shown' = request[r].new /\ Then(r, place)
  BY DEF Replace, controls
<1>3. thread = None /\ (\A t \in Threads : ~Lives(t)) /\ shown' = system /\ running = {system}
  BY <1>1, <1>2 DEF Stage
<1>4. ~closed
  BY <1>1, Records DEF IInv, RestOK, AtRest
<1>5. place \in Stages
  BY DEF Stages
<1>6. PICK q \in RequestStates :
               /\ request' = [request EXCEPT ![r] = q] /\ q.at = place /\ q.goal = request[r].goal
               /\ q.id = request[r].id /\ q.joined = request[r].joined /\ q.new = request[r].new
  BY <1>1, <1>2, <1>5, Proceeding
<1>7. q.at = "idle" \/ (q.at = "uncancel" /\ q.goal = "start")
  <2>1. CASE request[r].goal = "start"
    BY <1>6, <2>1
  <2>2. CASE request[r].goal # "start"
    BY <1>6, <2>2
  <2> QED
    BY <2>1, <2>2
<1>8. Stage(q)'
  BY <1>1, <1>2, <1>3, <1>6, <1>7 DEF Stage, Lives
<1> QED
  BY <1>2, <1>3, <1>4, <1>6, <1>7, <1>8, Records, RequestStep DEF IInv, TypeOK

\* The step Uncancel preserves the inductive invariant.
LEMMA UncancelIInv == ASSUME IInv, OneClick, NEW r \in Requests, Uncancel(r) PROVE IInv'
<1>1. request[r].at \in {"uncancel", "unadvance"} /\ request[r] \in RequestStates /\ Stage(request[r])
  BY DEF Uncancel, Handling, IInv, TypeOK, RequestOK
<1>2. UNCHANGED <<thread, status, system, shown, running, script, clicked, closed>>
  BY DEF Uncancel, systems
<1>3. thread = None /\ (\A t \in Threads : ~Lives(t)) /\ shown = system /\ running = {system}
  BY <1>1 DEF Stage
<1>4. ~closed
  BY <1>1, Records DEF IInv, RestOK, AtRest
<1>5. PICK place \in {"unadvance", "launch"} : Then(r, place)
  BY DEF Uncancel
<1>6. cancel' = FALSE /\ (advance' = advance \/ advance' = FALSE)
  BY <1>1 DEF Uncancel, Handling, Stage, IInv, TypeOK
<1>7. cancel' \in BOOLEAN /\ advance' \in BOOLEAN
  BY <1>6 DEF IInv, TypeOK
<1>8. PICK q \in RequestStates :
               /\ request' = [request EXCEPT ![r] = q] /\ q.at = place /\ q.goal = request[r].goal
               /\ q.id = request[r].id /\ q.joined = request[r].joined /\ q.new = request[r].new
  BY <1>1, <1>5, Proceeding DEF Stages
<1>9. Stage(q)'
  BY <1>1, <1>2, <1>3, <1>5, <1>6, <1>8 DEF Stage, Lives
<1> QED
  BY <1>2, <1>3, <1>4, <1>5, <1>7, <1>8, <1>9, Records, RequestStep DEF IInv, TypeOK

\* The step Idle preserves the inductive invariant.
LEMMA IdleIInv == ASSUME IInv, OneClick, NEW r \in Requests, Idle(r) PROVE IInv'
<1>1. request[r].at = "idle" /\ Stage(request[r])
  BY DEF Idle, Handling, IInv, RequestOK
<1>2. /\ UNCHANGED <<cancel, advance, thread, system, shown, running, script, clicked, closed>>
      /\ status' = [state |-> "idle", step |-> 0, total |-> 0] /\ request' = [request EXCEPT ![r] = Free]
  BY DEF Idle, controls, systems, Done
<1>3. thread = None /\ (\A t \in Threads : ~Lives(t)) /\ shown = system /\ running = {system}
  BY <1>1 DEF Stage
<1>4. ~closed
  BY <1>1, Records DEF IInv, RestOK, AtRest
<1>5. status' \in [state : States, step : Nat, total : Nat] /\ ~Active'
  BY <1>2 DEF States, Active
<1>6. Stage(Free)'
  BY <1>2, <1>3, Records DEF Stage
<1> QED
  BY <1>2, <1>3, <1>4, <1>5, <1>6, Records, RequestStep DEF IInv, TypeOK

\* The step Launch preserves the inductive invariant.
LEMMA LaunchIInv == ASSUME IInv, OneClick, NEW r \in Requests, Launch(r) PROVE IInv'
<1>1. request[r].at = "launch" /\ request[r] \in RequestStates /\ Stage(request[r])
  BY DEF Launch, Handling, IInv, TypeOK, RequestOK
<1>2. thread = None /\ (\A u \in Threads : ~Lives(u)) /\ shown = system /\ running = {system} /\ ~cancel
      /\ request[r].id \in Scenarios
  BY <1>1 DEF Stage
<1>3. ~closed
  BY <1>1, Records DEF IInv, RestOK, AtRest
<1>4. /\ UNCHANGED <<cancel, advance, system, shown, running, clicked, closed>>
      /\ status' = [state |-> "running", step |-> 0, total |-> TotalSteps[request[r].id]]
      /\ request' = [request EXCEPT ![r] = Free]
  BY DEF Launch, controls, systems, Done
<1>5. PICK t \in Threads :
          /\ thread' = t
          /\ script' = [script EXCEPT ![t] = [Dead EXCEPT !.at = "check", !.id = request[r].id, !.home = system]]
  BY DEF Launch
<1>6. PICK e \in ScriptStates : /\ script' = [script EXCEPT ![t] = e] /\ e.at = "check" /\ e.step = 0
                                /\ e.id = request[r].id /\ e.home = system
  <2> DEFINE n == [Dead EXCEPT !.at = "check", !.id = request[r].id, !.home = system]
  <2>1. <<>> \in Seq(Answers)
    OBVIOUS
  <2>2. n \in ScriptStates /\ n.at = "check" /\ n.step = 0 /\ n.id = request[r].id /\ n.home = system
    BY <1>2, <2>1 DEF Dead, ScriptStates, Places, IInv, TypeOK
  <2> QED
    BY <1>5, <2>2
<1>7. Requests = {r} /\ t # None
  BY GuidedAssumption DEF OneClick
<1>8. /\ script' \in [Threads -> ScriptStates] /\ script'[t] = e /\ script' = [script EXCEPT ![t] = e]
      /\ \A u \in Threads \ {t} : script'[u] = Dead
      /\ request' \in [Requests -> RequestStates] /\ request'[r] = Free
  BY <1>2, <1>4, <1>6, Records DEF IInv, TypeOK, ThreadOK
<1>9. /\ Len(Script[e.id]) \in Nat /\ Len(Script[e.id]) > 0 /\ TotalSteps[request[r].id] = Len(Script[e.id])
      /\ e.id \in Scenarios
  BY <1>2, <1>6, Scripts
<1>10. status' \in [state : States, step : Nat, total : Nat]
  BY <1>4, <1>6, <1>9 DEF States
<1>11. TypeOK'
  BY <1>4, <1>5, <1>8, <1>10 DEF IInv, TypeOK
<1>12. Lives(t)' /\ \A u \in Threads : Lives(u)' => u = t
  BY <1>6, <1>8, Records DEF Lives
<1>13. ThreadOK'
  BY <1>2, <1>4, <1>5, <1>6, <1>8, <1>12 DEF ThreadOK, Lives
<1>14. ProgressOK'
  <2>1. Progress(e)'
    BY <1>4, <1>6, <1>9 DEF Progress, Active
  <2>2. Woken(e)'
    BY <1>6 DEF Woken
  <2> QED
    BY <1>8, <1>12, <2>1, <2>2 DEF ProgressOK, Progress, Woken, Active
<1>15. RequestOK'
  <2>1. Stage(Free)'
    BY <1>2, <1>4, Records DEF Stage
  <2> QED
    BY <1>7, <1>8, <2>1, Records DEF RequestOK, Stage, Lives
<1>16. RestOK'
  <2>1. Alive(thread)'
    BY <1>5, <1>6, <1>7, <1>8, Records DEF Alive
  <2> QED
    BY <1>3, <1>4, <2>1 DEF RestOK
<1> QED
  BY <1>11, <1>13, <1>14, <1>15, <1>16 DEF IInv

-----------------------------------------------------------------------------
\* A demo just started satisfies the inductive invariant.
LEMMA InitIInv == ASSUME Init PROVE IInv
<1>1. /\ cancel = FALSE /\ advance = FALSE /\ clicked = FALSE /\ closed = FALSE /\ thread = None
      /\ status = [state |-> "idle", step |-> 0, total |-> 0]
      /\ system \in Systems /\ shown = system /\ running = {system}
      /\ script = [t \in Threads |-> Dead] /\ request = [r \in Requests |-> Free]
  BY DEF Init
<1>2. cancel \in BOOLEAN /\ advance \in BOOLEAN /\ clicked \in BOOLEAN /\ closed \in BOOLEAN
  BY ONLY <1>1
<1>3. TypeOK
  BY <1>1, <1>2, Records DEF TypeOK, States
<1>4. ThreadOK /\ ProgressOK
  BY <1>1, Records DEF ThreadOK, ProgressOK, Lives
<1>5. RequestOK
  <2>1. Stage(Free)
    BY <1>1, Records DEF Stage
  <2> QED
    BY <1>1, <2>1 DEF RequestOK
<1>6. RestOK
  BY <1>1 DEF RestOK, Active
<1> QED
  BY <1>3, <1>4, <1>5, <1>6 DEF IInv

\* Types, the lonely script, its place and the status, and the stages of a click are
\* invariants of the demo.
LEMMA NextIInv == ASSUME IInv, OneClick, [Next]_vars PROVE IInv'
<1>1. CASE Advance
  BY <1>1, AdvanceIInv
<1>2. ASSUME NEW r \in Requests, Begin(r) PROVE IInv'
  BY <1>2, BeginIInv
<1>3. ASSUME NEW r \in Requests, Handle(r) PROVE IInv'
  BY <1>3, CancelIInv, WakeIInv, JoinIInv, StopIInv, CreateIInv, SwapIInv, ReplaceIInv, UncancelIInv,
     LaunchIInv, IdleIInv DEF Handle
<1>4. ASSUME NEW t \in Threads, Run(t) PROVE IInv'
  BY <1>4, CheckIInv, ClearIInv, ShowIInv, AwaitIInv, RecheckIInv, ApplyIInv, SenseIInv, WaitIInv, EndIInv
     DEF Run
<1>5. CASE UNCHANGED vars
  <2>1. /\ UNCHANGED <<cancel, advance, thread, status, system, shown, running, script, request, clicked, closed>>
    BY <1>5 DEF vars, controls, systems
  <2> QED
    BY <2>1 DEF IInv, TypeOK, ThreadOK, ProgressOK, Progress, Woken, RequestOK, Stage, RestOK, Lives,
                AtRest, Alive, Active
<1> QED
  BY <1>1, <1>2, <1>3, <1>4, <1>5 DEF Next

\* While one click is handled at a time, what holds of threads, events, systems and the click in
\* progress together, at every statement in between.
THEOREM InductiveInvariant == ASSUME OneClick PROVE Spec => []IInv
<1>1. Init => IInv
  BY InitIInv
<1>2. IInv /\ [Next]_vars => IInv'
  BY NextIInv
<1> QED
  BY <1>1, <1>2, PTL DEF Spec

\* A script only ever talks to the system it was started with, and that one is running.
THEOREM RuntimeIsKept == ASSUME OneClick PROVE Spec => []RuntimeKept
<1>1. IInv => RuntimeKept
  BY DEF IInv, ThreadOK, RuntimeKept, Lives
<1> QED
  BY <1>1, InductiveInvariant, PTL

\* Between clicks one system and one script are connected, and after close none.
THEOREM RuntimeIsOne == ASSUME OneClick PROVE Spec => []OneRuntime
<1>1. IInv => OneRuntime
  <2> SUFFICES ASSUME IInv, AtRest
               PROVE  /\ running \subseteq {system} /\ shown = system
                      /\ \A t \in Threads : Alive(t) => t = thread
                      /\ closed => running = {} /\ thread = None
    BY DEF OneRuntime
  <2>1. PICK r \in Requests : request[r] = Free
    BY DEF OneClick, AtRest
  <2>2. running \subseteq {system} /\ shown = system
    BY <2>1, Records DEF IInv, RequestOK, Stage
  <2> QED
    BY <2>2 DEF IInv, ThreadOK, RestOK, Alive, Lives
<1> QED
  BY <1>1, InductiveInvariant, PTL

\* The status is that of the living script and counts its steps; "completed" is the last one.
THEOREM StatusIsTrue == ASSUME OneClick PROVE Spec => []StatusTrue
<1>1. IInv => StatusTrue
  <2> SUFFICES ASSUME IInv PROVE StatusTrue
    OBVIOUS
  <2>1. \A t \in Threads : At(t, "end") => status.step = status.total
    BY DEF At, IInv, ProgressOK, Progress, Lives
  <2>2. ASSUME Alive(thread) PROVE Active /\ status.step = script[thread].step
    <3>1. thread \in Threads /\ Lives(thread)
      BY <2>2 DEF Alive, IInv, TypeOK, ThreadOK
    <3> QED
      BY <3>1 DEF IInv, ProgressOK, Progress
  <2>3. AtRest /\ ~Alive(thread) /\ Active => running = {}
    BY DEF IInv, RestOK
  <2> QED
    BY <2>1, <2>2, <2>3 DEF StatusTrue
<1> QED
  BY <1>1, InductiveInvariant, PTL

\* A step is carried out only after a click made while it was being shown.
THEOREM StepsAreClicked == ASSUME OneClick PROVE Spec => StepsClicked
<1> DEFINE Carried(t) == At(t, "recheck") /\ script'[t].at = "apply"
<1>1. ASSUME IInv, Next, NEW t \in Threads, Carried(t) PROVE clicked
  <2>1. Lives(t) /\ (clicked \/ cancel) /\ script[t].at = "recheck"
    BY <1>1 DEF At, Lives, IInv, ProgressOK, Woken
  <2>2. t = thread /\ script[t] \in ScriptStates /\ script \in [Threads -> ScriptStates]
    BY <2>1, Alone, <1>1 DEF IInv, TypeOK
  <2>3. script' # script
    BY <1>1, <2>1
  <2>4. PICK u \in Threads : Run(u) \/ \E r \in Requests : Launch(r)
    BY <1>1, <2>3 DEF Next, Advance, Begin, Handle, Cancel, Wake, Join, Stop, Create, Swap, Replace,
                      Uncancel, Idle
  <2>5. ~ \E r \in Requests : Launch(r)
    BY <1>1, <2>1 DEF Launch, Handling, IInv, RequestOK, Stage
  <2>6. script[u].at # "dead"
    BY <2>4, <2>5 DEF Run, Check, Clear, Show, Await, Recheck, Apply, Sense, Wait, End, At
  <2>7. u = t
    BY <1>1, <2>2, <2>6 DEF IInv, ThreadOK, Lives
  <2>8. Recheck(t)
    BY <2>1, <2>4, <2>5, <2>7 DEF Run, Check, Clear, Show, Await, Apply, Sense, Wait, End, At
  <2>9. cancel => script'[t] = Dead
    BY <2>2, <2>8 DEF Recheck, Cancelled
  <2> QED
    BY <1>1, <2>1, <2>9, Records
<1>2. IInv /\ [Next]_vars => [\A t \in Threads : Carried(t) => clicked]_vars
  BY <1>1
<1> QED
  BY <1>2, InductiveInvariant, PTL DEF Spec, StepsClicked

\* One scenario at a time.
THEOREM ScenarioIsOne == ASSUME OneClick PROVE Spec => []OneScenario
<1>1. IInv => OneScenario
  <2> SUFFICES ASSUME IInv PROVE Cardinality({t \in Threads : Alive(t)}) <= 1
    BY DEF OneScenario
  <2>1. {t \in Threads : Alive(t)} \subseteq {thread}
    BY DEF IInv, ThreadOK, Alive, Lives
  <2>2. IsFiniteSet({thread}) /\ Cardinality({thread}) = 1
    BY FS_Singleton
  <2>3. /\ IsFiniteSet({t \in Threads : Alive(t)})
        /\ Cardinality({t \in Threads : Alive(t)}) <= Cardinality({thread})
    BY <2>1, <2>2, FS_Subset
  <2> QED
    BY <2>2, <2>3
<1> QED
  BY <1>1, InductiveInvariant, PTL
=============================================================================
