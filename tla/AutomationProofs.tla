-------------------------- MODULE AutomationProofs --------------------------
(***************************************************************************)
(* No order without a verdict, no order without a trace, and no record of  *)
(* success that is untrue, for any number of calls and runs and any number *)
(* of crashes.                                                             *)
(*                                                                         *)
(* The argument: past the steps that answer for the signal and for the     *)
(* risk, a call has either obtained the answer itself or restored the step *)
(* from a checkpoint; in the second case it stumbles over the restored     *)
(* object before it can submit.  The order step is saved before its        *)
(* function runs, and only a replay, which is then at a run of its own,    *)
(* takes a saved step out again.  A record is written once, by the call    *)
(* that has drawn the run id: retries and replays begin at a record.       *)
(***************************************************************************)
EXTENDS AutomationFlow, TLAPS

---------------------------------------------------------------------------
(* The steps that the argument names, by their place.                      *)

LEMMA Places ==
    /\ Len(Pipeline) = 12
    /\ \A i \in 1..12 :
           /\ Pipeline[i] \in Steps
           /\ Pipeline[i] = "order" <=> i = 12
           /\ Pipeline[i] = "risk_check" <=> i = 9
           /\ Pipeline[i] = "strategy_signal" <=> i = 6
    /\ "order" \in Steps
<1>1. Len(Pipeline) = 12
  BY DEF Pipeline
<1>2. \A i \in 1..12 : Pipeline[i] = "order" <=> i = 12
  BY DEF Pipeline
<1>3. \A i \in 1..12 : Pipeline[i] = "risk_check" <=> i = 9
  BY DEF Pipeline
<1>4. \A i \in 1..12 : Pipeline[i] = "strategy_signal" <=> i = 6
  BY DEF Pipeline
<1>5. \A i \in 1..12 : Pipeline[i] \in Steps
  BY <1>1 DEF Steps
<1>6. QED
  BY <1>1, <1>2, <1>3, <1>4, <1>5

---------------------------------------------------------------------------
(* Types.                                                                  *)

Preparing == {"entered", "loading", "resolving"}
Working == {"step", "work", "holding", "save", "failing", "case", "record"}

\* A call that has not come to its steps is at the first; one that may still write to
\* the database for its run has a run.
StageOK ==
    \A c \in Calls :
        /\ stage[c] \in Preparing \cup {"idle"} => pc[c] = 1
        /\ stage[c] = "idle" => kind[c] = "run"
        /\ stage[c] \in {"loading", "resolving"} \cup Working => run[c] \in Runs
        /\ stage[c] = "entered" /\ mode[c] # "live_auto" => run[c] \in Runs

TypeInv == TypeOK /\ StageOK

LEMMA InitTypeInv == Init => TypeInv
  BY AutomationAssumption, Places
  DEF Init, TypeInv, TypeOK, StageOK, NoLog, Stage, Ended, Preparing, Working

LEMMA FreshRun == Fresh # {} => NewRun \in Runs /\ logged[NewRun] = NoLog
  BY DEF Fresh, NewRun

LEMMA NextTypeInv == TypeInv /\ [Next]_vars => TypeInv'
<1> SUFFICES ASSUME TypeInv, [Next]_vars PROVE TypeInv'
  OBVIOUS
<1> USE AutomationAssumption
    DEF TypeInv, Goto, Stage, Ended, Preparing, Working, db, call, answers
<1>0. \A c \in Calls : /\ pc[c] \in 1..Len(Pipeline) /\ At(c) \in Steps
                       /\ At(c) # "order" => pc[c] + 1 \in 1..Len(Pipeline)
  BY Places DEF TypeOK, At
<1>1. ASSUME NEW c \in Calls, NEW m \in Modes, StartRun(c, m) PROVE TypeInv'
  BY <1>1, FreshRun DEF StartRun, Begin, TypeOK, StageOK
<1>2. ASSUME NEW c \in Calls, NEW r \in Runs, NEW k \in {"retry", "replay"}, Recall(c, k, r)
      PROVE  TypeInv'
  BY <1>2 DEF Recall, Begin, TypeOK, StageOK
<1>3. ASSUME NEW c \in Calls, RefuseLive(c) PROVE TypeInv'
  BY <1>3, FreshRun DEF RefuseLive, TypeOK, StageOK
<1>4. ASSUME NEW c \in Calls, Clear(c) PROVE TypeInv'
  BY <1>4 DEF Clear, TypeOK, StageOK
<1>5. ASSUME NEW c \in Calls, LoadCheckpoints(c) PROVE TypeInv'
  BY <1>5 DEF LoadCheckpoints, TypeOK, StageOK
<1>6. ASSUME NEW c \in Calls,
             \/ Resolve(c) \/ Stumble(c) \/ NoProfile(c) \/ SkipOrder(c) \/ UpdateHolding(c)
             \/ WorkRaises(c) \/ SubmitOrder(c) \/ CreateCase(c) \/ Kill(c)
      PROVE  TypeInv'
  <2>1. \E s \in Stage : stage' = [stage EXCEPT ![c] = s] /\ stage[c] # "idle"
                         /\ (s \in Working => stage[c] \in {"resolving"} \cup Working)
                         /\ s \notin Preparing \cup {"idle"}
    BY <1>6
    DEF Resolve, Stumble, NoProfile, SkipOrder, UpdateHolding, WorkRaises, SubmitOrder,
        CreateCase, Kill
  <2>2. broken' \in [Calls -> BOOLEAN] /\ kills' \in 0..MaxKills
    <3>1. /\ broken' = broken \/ broken' = [broken EXCEPT ![c] = TRUE]
          /\ kills' = kills \/ (kills < MaxKills /\ kills' = kills + 1)
      BY <1>6
      DEF Resolve, Stumble, NoProfile, SkipOrder, UpdateHolding, WorkRaises, SubmitOrder,
          CreateCase, Kill, Breaks
    <3>2. broken' \in [Calls -> BOOLEAN]
      BY <3>1 DEF TypeOK
    <3>3. kills' \in 0..MaxKills
      BY <3>1 DEF TypeOK
    <3>4. QED
      BY <3>2, <3>3
  <2>3. orders' \subseteq Calls /\ cases' \subseteq Calls \X {"research", "automation"}
    BY <1>6
    DEF Resolve, Stumble, NoProfile, SkipOrder, UpdateHolding, WorkRaises, SubmitOrder,
        CreateCase, Kill, TypeOK
  <2>4. UNCHANGED <<checkpoints, logged, pc, kind, run, mode, cached, signal, level>>
    BY <1>6
    DEF Resolve, Stumble, NoProfile, SkipOrder, UpdateHolding, WorkRaises, SubmitOrder,
        CreateCase, Kill
  <2>5. stage' \in [Calls -> Stage]
    BY <2>1 DEF TypeOK
  <2>6. TypeOK'
    BY <2>2, <2>3, <2>4, <2>5 DEF TypeOK
  <2>7. StageOK'
    BY <2>1, <2>4 DEF TypeOK, StageOK
  <2>8. QED
    BY <2>6, <2>7
<1>7. ASSUME NEW c \in Calls, Restore(c) PROVE TypeInv'
  BY <1>0, <1>7 DEF Restore, NextStep, TypeOK, StageOK
<1>8. ASSUME NEW c \in Calls, SaveRunning(c) \/ SaveFailed(c) \/ SaveCompleted(c) PROVE TypeInv'
  <2>1. PICK status \in {"running", "failed", "completed"} : Save(c, status)
    BY <1>8 DEF SaveRunning, SaveFailed, SaveCompleted
  <2>2. checkpoints' \in [Runs -> [Steps -> {"none", "running", "completed", "failed"}]]
    BY <1>0, <2>1 DEF Save, TypeOK
  <2>3. \E s \in Stage : stage' = [stage EXCEPT ![c] = s] /\ stage[c] \in Working
                         /\ s \notin Preparing \cup {"idle"}
    BY <1>8 DEF SaveRunning, SaveFailed, SaveCompleted, NextStep
  <2>4. pc' \in [Calls -> 1..Len(Pipeline)] /\ \A d \in Calls \ {c} : pc'[d] = pc[d]
    BY <1>0, <1>8 DEF SaveRunning, SaveFailed, SaveCompleted, NextStep, TypeOK
  <2>5. UNCHANGED <<logged, orders, cases, kind, run, mode, cached, signal, level, broken, kills>>
    BY <1>8 DEF SaveRunning, SaveFailed, SaveCompleted
  <2>6. stage' \in [Calls -> Stage]
    BY <2>3 DEF TypeOK
  <2>7. TypeOK'
    BY <2>2, <2>4, <2>5, <2>6 DEF TypeOK
  <2>8. StageOK'
    BY <2>3, <2>4, <2>5 DEF TypeOK, StageOK
  <2>9. QED
    BY <2>7, <2>8
<1>9. ASSUME NEW c \in Calls, Work(c) PROVE TypeInv'
  <2>1. signal' \in [Calls -> {"none", "BUY", "SELL", "HOLD"}]
    BY <1>9 DEF Work, TypeOK
  <2>2. level' \in [Calls -> {"none", "LOW", "HIGH"}]
    BY <1>9 DEF Work, TypeOK
  <2>3. cases' \subseteq Calls \X {"research", "automation"}
    BY <1>9 DEF Work, TypeOK
  <2>4. TypeOK'
    BY <1>9, <2>1, <2>2, <2>3 DEF Work, TypeOK
  <2>5. StageOK'
    BY <1>9 DEF Work, TypeOK, StageOK
  <2>6. QED
    BY <2>4, <2>5
<1>10. ASSUME NEW c \in Calls, Record(c) PROVE TypeInv'
  <2>1. Submits(c) \in BOOLEAN
    BY DEF Submits
  <2>2. logged' \in [Runs -> [status : {"none", "success", "failed"},
                              mode : {"manual", "paper_auto", "live_auto"},
                              executed : BOOLEAN]]
    BY <1>10, <2>1 DEF Record, TypeOK
  <2>3. \E s \in Ended : stage' = [stage EXCEPT ![c] = s]
    BY <1>10 DEF Record
  <2>4. UNCHANGED <<checkpoints, orders, cases, pc, kind, run, mode, cached, signal, level,
                    broken, kills>>
    BY <1>10 DEF Record
  <2>5. stage' \in [Calls -> Stage] /\ StageOK'
    BY <2>3, <2>4 DEF TypeOK, StageOK
  <2>6. QED
    BY <2>2, <2>4, <2>5 DEF TypeOK
<1>11. CASE UNCHANGED vars
  BY <1>11 DEF vars, TypeOK, StageOK
<1>12. QED
  BY <1>1, <1>2, <1>3, <1>4, <1>5, <1>6, <1>7, <1>8, <1>9, <1>10, <1>11 DEF Next, Advance

---------------------------------------------------------------------------
(* What a call knows on its way to the order.                              *)

\* Ready to submit: the guard of OrderIsApproved.
Ready(c) ==
    /\ mode[c] = "paper_auto"
    /\ signal[c] \in {"BUY", "SELL"}
    /\ level[c] = "LOW"

\* The call is past step i, or has its function's result in hand.
Past(c, i) == pc[c] > i \/ (pc[c] = i /\ stage[c] = "save")

Ordering(c) == stage[c] = "work" /\ pc[c] = 12

KnowsInv ==
    \A c \in Calls :
        /\ Past(c, 6) => signal[c] # "none" \/ "strategy_signal" \in cached[c]
        /\ Past(c, 9) => level[c] # "none" \/ "risk_check" \in cached[c]
        /\ pc[c] > 9 \/ (pc[c] = 9 /\ stage[c] \in {"work", "save"}) =>
               "strategy_signal" \notin cached[c]
        /\ Ordering(c) => Ready(c)
        /\ stage[c] = "holding" => pc[c] = 12
        /\ c \in orders =>
               /\ Ready(c)
               /\ pc[c] = 12
               /\ stage[c] \in {"holding", "save", "failing", "case", "record"} \cup Ended

Inv == TypeInv /\ KnowsInv

LEMMA InitKnows == Init => KnowsInv
  BY DEF Init, KnowsInv, Past, Ordering, Ended

\* A call that is about to save the order as running is ready to submit it.
LEMMA SubmitsReady ==
    ASSUME Inv, NEW c \in Calls, stage[c] = "step", pc[c] = 12, ~Unreadable(c), Submits(c)
    PROVE  Ready(c)
<1>1. At(c) = "order"
  BY Places DEF At
<1>2. mode[c] = "paper_auto" /\ level[c] # "HIGH" /\ signal[c] # "HOLD"
  BY DEF Submits, Approved, OrderRequest
<1>3. "risk_check" \notin cached[c]
  BY <1>1, <1>2 DEF Unreadable
<1>4. signal[c] # "none" /\ level[c] # "none"
  BY <1>3 DEF Inv, KnowsInv, Past
<1>5. QED
  BY <1>2, <1>4 DEF Inv, TypeInv, TypeOK, Ready

\* What one call does.
StepOf(c) ==
    \/ \E m \in Modes : StartRun(c, m)
    \/ \E r \in Runs, k \in {"retry", "replay"} : Recall(c, k, r)
    \/ Advance(c)
    \/ Kill(c)

LEMMA OthersStay ==
    ASSUME NEW c \in Calls, NEW d \in Calls \ {c}, Inv, StepOf(c)
    PROVE  /\ UNCHANGED <<stage[d], pc[d], kind[d], run[d], mode[d], cached[d]>>
           /\ UNCHANGED <<signal[d], level[d]>>
           /\ (d \in orders)' = (d \in orders)
<1>1. CASE \E m \in Modes : StartRun(c, m)
  BY <1>1 DEF StartRun, Begin, Goto, Inv, TypeInv, TypeOK, db, answers
<1>2. CASE \E r \in Runs, k \in {"retry", "replay"} : Recall(c, k, r)
  BY <1>2 DEF Recall, Begin, Goto, Inv, TypeInv, TypeOK, db, answers
<1>3. CASE RefuseLive(c) \/ Clear(c) \/ LoadCheckpoints(c) \/ Resolve(c) \/ Kill(c)
  BY <1>3
  DEF RefuseLive, Clear, LoadCheckpoints, Resolve, Kill, Goto, Inv, TypeInv, TypeOK,
      db, call, answers
<1>4. CASE Stumble(c) \/ NoProfile(c) \/ Restore(c) \/ SaveRunning(c) \/ SkipOrder(c)
  BY <1>4
  DEF Stumble, NoProfile, Restore, SaveRunning, SkipOrder, NextStep, Goto,
      Inv, TypeInv, TypeOK, db, call, answers
<1>5. CASE Work(c)
  BY <1>5 DEF Work, Goto, Inv, TypeInv, TypeOK, db, call, answers
<1>6. CASE WorkRaises(c) \/ SubmitOrder(c) \/ UpdateHolding(c)
  BY <1>6
  DEF WorkRaises, SubmitOrder, UpdateHolding, Goto, Inv, TypeInv, TypeOK, db, call, answers
<1>7. CASE SaveCompleted(c) \/ SaveFailed(c) \/ CreateCase(c) \/ Record(c)
  BY <1>7
  DEF SaveCompleted, SaveFailed, CreateCase, Record, NextStep, Goto, Inv, TypeInv, TypeOK,
      db, call, answers
<1>8. QED
  BY <1>1, <1>2, <1>3, <1>4, <1>5, <1>6, <1>7 DEF StepOf, Advance

LEMMA NextKnows == Inv /\ [Next]_vars => KnowsInv'
<1> SUFFICES ASSUME Inv, [Next]_vars PROVE KnowsInv'
  OBVIOUS
<1> USE DEF Goto, Ended, db, call, answers
<1> DEFINE Same(c) == UNCHANGED <<stage[c], pc[c], mode[c], cached[c], signal[c], level[c],
                                  c \in orders>>
           Part(c) ==
               /\ Past(c, 6) => signal[c] # "none" \/ "strategy_signal" \in cached[c]
               /\ Past(c, 9) => level[c] # "none" \/ "risk_check" \in cached[c]
               /\ pc[c] > 9 \/ (pc[c] = 9 /\ stage[c] \in {"work", "save"}) =>
                      "strategy_signal" \notin cached[c]
               /\ Ordering(c) => Ready(c)
               /\ stage[c] = "holding" => pc[c] = 12
               /\ c \in orders =>
                      /\ Ready(c)
                      /\ pc[c] = 12
                      /\ stage[c] \in {"holding", "save", "failing", "case", "record"}
                                      \cup Ended
<1>0. ASSUME NEW c \in Calls
      PROVE  /\ Part(c)
             /\ pc[c] \in 1..12
             /\ At(c) = "order" <=> pc[c] = 12
             /\ At(c) = "risk_check" <=> pc[c] = 9
             /\ At(c) = "strategy_signal" <=> pc[c] = 6
             /\ stage[c] \in {"idle", "entered", "loading", "resolving"} => pc[c] = 1
  BY Places DEF Inv, KnowsInv, TypeInv, TypeOK, StageOK, Preparing, At
<1> USE DEF Inv, TypeInv, TypeOK
<1>1. ASSUME NEW c \in Calls, Same(c) PROVE Part(c)'
  BY <1>0, <1>1 DEF Past, Ordering, Ready
\* A call that is not at its steps yet knows nothing and has nothing to know.
<1>2. ASSUME NEW c \in Calls,
             stage[c] \in {"idle", "entered", "loading", "resolving"},
             stage'[c] \notin {"work", "holding", "save"}, pc' = pc, orders' = orders
      PROVE  Part(c)'
  BY <1>0, <1>2 DEF Past, Ordering
\* Going anywhere but to a function, a save or a new step changes nothing of this.
<1>3. ASSUME NEW c \in Calls, NEW s \in Stage \ {"work", "save"},
             stage[c] \in Working, stage' = [stage EXCEPT ![c] = s],
             s \in {"holding", "failing", "case", "record"} \cup Ended,
             s = "holding" => Ordering(c),
             UNCHANGED <<pc, mode, cached, signal, level>>,
             orders' = orders \/ (Ordering(c) /\ orders' = orders \cup {c})
      PROVE  Part(c)'
  BY <1>0, <1>3 DEF Past, Ordering, Ready
<1>4. ASSUME NEW c \in Calls, Restore(c) PROVE Part(c)'
  <2>1. /\ stage[c] = "step" /\ At(c) # "order"
        /\ At(c) \in cached[c] /\ ~Unreadable(c)
        /\ stage'[c] = "step" /\ pc'[c] = pc[c] + 1
        /\ UNCHANGED <<mode, cached, signal, level, orders>>
    BY <1>4 DEF Restore, NextStep
  <2>2. pc[c] = 9 => "strategy_signal" \notin cached[c]
    BY <1>0, <2>1 DEF Unreadable, ReadBefore
  <2>3. QED
    BY <1>0, <2>1, <2>2 DEF Past, Ordering, Ready
<1>5. ASSUME NEW c \in Calls, SaveRunning(c) PROVE Part(c)'
  <2>1. /\ stage[c] = "step" /\ ~Unreadable(c) /\ (pc[c] = 12 => Submits(c))
        /\ stage'[c] = "work"
        /\ UNCHANGED <<pc, mode, cached, signal, level, orders>>
    BY <1>0, <1>5 DEF SaveRunning
  <2>2. pc[c] = 9 => "strategy_signal" \notin cached[c]
    BY <1>0, <2>1 DEF Unreadable, ReadBefore
  <2>3. pc[c] = 12 => Ready(c)
    BY <2>1, SubmitsReady
  <2>4. QED
    BY <1>0, <2>1, <2>2, <2>3 DEF Past, Ordering, Ready
<1>6. ASSUME NEW c \in Calls, Work(c) PROVE Part(c)'
  <2>1. /\ stage[c] = "work" /\ pc[c] # 12 /\ stage'[c] = "save"
        /\ UNCHANGED <<pc, mode, cached, orders>>
    BY <1>0, <1>6 DEF Work
  <2>2. IF pc[c] = 6 THEN signal'[c] \in {"BUY", "SELL", "HOLD"} ELSE signal'[c] = signal[c]
    <3>1. CASE pc[c] = 6
      <4>1. \E s \in Signals : signal' = [signal EXCEPT ![c] = s]
        BY <1>0, <1>6, <3>1 DEF Work
      <4>2. QED
        BY <3>1, <4>1, AutomationAssumption
    <3>2. CASE pc[c] # 6
      BY <1>0, <1>6, <3>2 DEF Work
    <3>3. QED
      BY <3>1, <3>2
  <2>3. IF pc[c] = 9 THEN level'[c] \in {"LOW", "HIGH"} ELSE level'[c] = level[c]
    BY <1>0, <1>6 DEF Work
  <2>4. QED
    BY <1>0, <2>1, <2>2, <2>3 DEF Past, Ordering, Ready
<1>7. ASSUME NEW c \in Calls, UpdateHolding(c) PROVE Part(c)'
  <2>1. /\ stage[c] = "holding" /\ stage'[c] \in {"save", "failing"}
        /\ UNCHANGED <<pc, mode, cached, signal, level, orders>>
    BY <1>7 DEF UpdateHolding
  <2>2. QED
    BY <1>0, <2>1 DEF Past, Ordering, Ready
<1>8. ASSUME NEW c \in Calls, SaveCompleted(c) PROVE Part(c)'
  <2>1. /\ stage[c] = "save"
        /\ IF pc[c] = 12 THEN stage'[c] = "case" /\ pc'[c] = pc[c]
           ELSE stage'[c] = "step" /\ pc'[c] = pc[c] + 1
        /\ UNCHANGED <<mode, cached, signal, level, orders>>
    BY <1>0, <1>8 DEF SaveCompleted, NextStep
  <2>2. QED
    BY <1>0, <2>1 DEF Past, Ordering, Ready
<1>9. ASSUME NEW c \in Calls, StepOf(c) PROVE Part(c)'
  <2>1. CASE (\E m \in Modes : StartRun(c, m))
             \/ (\E r \in Runs, k \in {"retry", "replay"} : Recall(c, k, r))
    <3>1. stage[c] = "idle" /\ stage'[c] = "entered" /\ pc' = pc /\ orders' = orders
      BY <2>1 DEF StartRun, Recall, Begin
    <3>2. QED
      BY <1>2, <3>1
  <2>2. CASE RefuseLive(c) \/ Clear(c) \/ LoadCheckpoints(c) \/ Resolve(c)
    <3>1. /\ stage[c] \in Preparing
          /\ stage'[c] \in {"raised", "loading", "resolving", "step"}
          /\ pc' = pc /\ orders' = orders
      BY <2>2 DEF RefuseLive, Clear, LoadCheckpoints, Resolve, Preparing
    <3>2. QED
      BY <1>2, <3>1 DEF Preparing
  <2>3. CASE Kill(c)
    <3>1. /\ stage' = [stage EXCEPT ![c] = "dead"] /\ stage[c] \in Preparing \cup Working
          /\ UNCHANGED <<pc, mode, cached, signal, level, orders>>
      BY <2>3 DEF Kill, Preparing, Working, Stage
    <3>2. "dead" \in Stage \ {"work", "save"}
      BY DEF Stage
    <3>3. stage'[c] = "dead"
      BY <3>1
    <3>4. QED
      BY <1>2, <1>3, <3>1, <3>2, <3>3 DEF Preparing
  <2>4. CASE SubmitOrder(c)
    <3>1. Ordering(c) /\ stage' = [stage EXCEPT ![c] = "holding"]
      BY <1>0, <2>4 DEF SubmitOrder, Ordering
    <3>2. /\ stage[c] \in Working /\ "holding" \in Stage \ {"work", "save"}
          /\ UNCHANGED <<pc, mode, cached, signal, level>>
          /\ orders' = orders \cup {c}
      BY <2>4, <3>1 DEF SubmitOrder, Ordering, Working, Stage
    <3>3. QED
      BY <1>3, <3>1, <3>2
  <2>5. CASE Stumble(c) \/ NoProfile(c) \/ SkipOrder(c) \/ WorkRaises(c)
             \/ SaveFailed(c) \/ CreateCase(c) \/ Record(c)
    <3>1. \E s \in {"failing", "case", "record", "returned", "raised"} :
              stage' = [stage EXCEPT ![c] = s]
      BY <2>5 DEF Stumble, NoProfile, SkipOrder, WorkRaises, SaveFailed, CreateCase, Record
    <3>2. stage[c] \in Working /\ UNCHANGED <<pc, mode, cached, signal, level, orders>>
      BY <2>5
      DEF Stumble, NoProfile, SkipOrder, WorkRaises, SaveFailed, CreateCase, Record, Working
    <3>3. {"failing", "case", "record", "returned", "raised"} \subseteq Stage \ {"work", "save"}
      BY DEF Stage
    <3>4. QED
      BY <1>3, <3>1, <3>2, <3>3
  <2>6. QED
    BY <1>4, <1>5, <1>6, <1>7, <1>8, <1>9, <2>1, <2>2, <2>3, <2>4, <2>5 DEF StepOf, Advance
<1>10. \A c \in Calls : Part(c)'
  <2>1. ASSUME NEW c \in Calls, NEW d \in Calls, StepOf(d), c # d PROVE Part(c)'
    <3>1. Same(c)
      BY <2>1, OthersStay
    <3>2. QED
      BY <1>1, <3>1
  <2>2. CASE UNCHANGED vars
    BY <1>1, <2>2 DEF vars
  <2> HIDE DEF Part
  <2>3. QED
    BY <1>9, <2>1, <2>2 DEF Next, StepOf
<1>11. QED
  BY <1>10 DEF KnowsInv

---------------------------------------------------------------------------
(* What an order leaves behind.                                            *)

Traced(c) ==
    \/ checkpoints[run[c]]["order"] # "none"
    \/ \E d \in Calls \ {c} : run[d] = run[c] /\ kind[d] = "replay"

TraceInv ==
    \A c \in Calls :
        Ordering(c) \/ stage[c] = "holding" \/ c \in orders => run[c] \in Runs /\ Traced(c)

LEMMA InitTrace == Init => TraceInv
  BY DEF Init, TraceInv, Ordering

\* A step keeps the trace of every other call's order step, and of its own once begun.
LEMMA TraceStays ==
    ASSUME Inv, NEW c \in Calls, NEW d \in Calls, StepOf(d), run[c] \in Runs, Traced(c),
           stage[c] \notin {"idle", "entered"}
    PROVE  run'[c] = run[c] /\ Traced(c)'
<1> USE DEF Inv, TypeInv, TypeOK, db, call, answers
<1>1. CASE (\E m \in Modes : StartRun(d, m))
           \/ (\E r \in Runs, k \in {"retry", "replay"} : Recall(d, k, r))
  <2>1. /\ stage[d] = "idle" /\ d # c /\ checkpoints' = checkpoints
        /\ \A x \in Calls \ {d} : run'[x] = run[x] /\ kind'[x] = kind[x]
    BY <1>1 DEF StartRun, Recall, Begin
  <2>2. kind[d] = "run"
    BY <2>1 DEF StageOK
  <2>3. QED
    BY <2>1, <2>2 DEF Traced
<1>2. CASE Clear(d)
  <2>1. /\ d # c /\ UNCHANGED <<run, kind>>
        /\ checkpoints' = checkpoints
           \/ (kind[d] = "replay" /\ \A r \in Runs \ {run[d]} : checkpoints'[r] = checkpoints[r])
    BY <1>2 DEF Clear
  <2>2. QED
    BY <2>1 DEF Traced
<1>3. CASE SaveRunning(d) \/ SaveCompleted(d) \/ SaveFailed(d)
  <2>1. UNCHANGED <<run, kind>>
        /\ \E status \in {"running", "completed", "failed"} : Save(d, status)
    BY <1>3 DEF SaveRunning, SaveCompleted, SaveFailed
  <2>2. At(d) \in Steps
    BY Places DEF At
  <2>3. checkpoints[run[c]]["order"] # "none" => checkpoints'[run[c]]["order"] # "none"
    BY <2>1, <2>2, Places DEF Save
  <2>4. QED
    BY <2>1, <2>3 DEF Traced
<1>4. ASSUME UNCHANGED <<checkpoints, run, kind>> PROVE run'[c] = run[c] /\ Traced(c)'
  BY <1>4 DEF Traced
<1>5. QED
  BY <1>1, <1>2, <1>3, <1>4
  DEF StepOf, Advance, RefuseLive, LoadCheckpoints, Resolve, Stumble, NoProfile, Restore,
      SkipOrder, Work, WorkRaises, SubmitOrder, UpdateHolding, CreateCase, Record, Kill

LEMMA NextTrace == Inv /\ TraceInv /\ [Next]_vars => TraceInv'
<1> SUFFICES ASSUME Inv, TraceInv, [Next]_vars PROVE TraceInv'
  OBVIOUS
<1> DEFINE Due(c) == Ordering(c) \/ stage[c] = "holding" \/ c \in orders
<1>1. ASSUME NEW c \in Calls, NEW d \in Calls, StepOf(d), Due(c)
      PROVE  run'[c] \in Runs /\ Traced(c)'
  <2>1. run[c] \in Runs /\ Traced(c)
    BY <1>1 DEF TraceInv
  <2>2. stage[c] \notin {"idle", "entered"}
    BY <1>1 DEF Ordering, Inv, KnowsInv, Ended
  <2>3. QED
    BY <1>1, <2>1, <2>2, TraceStays
\* An order step that comes due has just been saved.
<1>2. ASSUME NEW c \in Calls, NEW d \in Calls, StepOf(d), ~Due(c), Due(c)'
      PROVE  c = d /\ SaveRunning(c) /\ pc[c] = 12
  <2>1. c = d
    BY <1>2, OthersStay DEF Ordering
  <2>2. CASE (\E m \in Modes : StartRun(c, m))
             \/ (\E r \in Runs, k \in {"retry", "replay"} : Recall(c, k, r))
    BY <1>2, <2>2 DEF StartRun, Recall, Begin, Goto, Ordering, Inv, TypeInv, TypeOK, db
  <2>3. CASE RefuseLive(c) \/ Clear(c) \/ LoadCheckpoints(c) \/ Resolve(c) \/ Kill(c)
    BY <1>2, <2>3
    DEF RefuseLive, Clear, LoadCheckpoints, Resolve, Kill, Goto, Ordering, Inv, TypeInv,
        TypeOK, db
  <2>4. CASE Stumble(c) \/ NoProfile(c) \/ Restore(c) \/ SkipOrder(c) \/ Work(c)
             \/ WorkRaises(c) \/ UpdateHolding(c)
    BY <1>2, <2>4
    DEF Stumble, NoProfile, Restore, SkipOrder, Work, WorkRaises, UpdateHolding, NextStep,
        Goto, Ordering, Inv, TypeInv, TypeOK, db
  <2>5. CASE SubmitOrder(c)
    <3>1. Ordering(c)
      BY <2>5, Places DEF SubmitOrder, At, Ordering, Inv, TypeInv, TypeOK
    <3>2. QED
      BY <1>2, <3>1
  <2>6. CASE SaveCompleted(c) \/ SaveFailed(c) \/ CreateCase(c) \/ Record(c)
    BY <1>2, <2>6
    DEF SaveCompleted, SaveFailed, CreateCase, Record, NextStep, Goto, Ordering, Inv,
        TypeInv, TypeOK, db
  <2>7. CASE SaveRunning(c)
    BY <1>2, <2>1, <2>7 DEF SaveRunning, Goto, Ordering, Inv, TypeInv, TypeOK, db
  <2>8. QED
    BY <1>2, <2>1, <2>2, <2>3, <2>4, <2>5, <2>6, <2>7 DEF StepOf, Advance
<1>3. ASSUME NEW c \in Calls, SaveRunning(c), pc[c] = 12
      PROVE  run'[c] \in Runs /\ Traced(c)'
  <2>1. run[c] \in Runs /\ run' = run /\ At(c) = "order"
    BY <1>3, Places DEF SaveRunning, Inv, TypeInv, StageOK, Working, At, call
  <2>2. checkpoints'[run[c]]["order"] = "running"
    BY <1>3, <2>1, Places DEF SaveRunning, Save, Inv, TypeInv, TypeOK
  <2>3. QED
    BY <2>1, <2>2 DEF Traced
<1>4. CASE UNCHANGED vars
  BY <1>4 DEF vars, db, call, TraceInv, Traced, Ordering
<1>5. CASE \E d \in Calls : StepOf(d)
  <2>1. ASSUME NEW c \in Calls, Due(c)' PROVE run'[c] \in Runs /\ Traced(c)'
    BY <1>1, <1>2, <1>3, <1>5, <2>1
  <2>2. QED
    BY <2>1 DEF TraceInv
<1>6. QED
  BY <1>4, <1>5 DEF Next, StepOf

---------------------------------------------------------------------------
(* What the record of a run says.                                          *)

\* A retry and a replay are of a run that has its record; a call that comes to its case
\* has stored its order if it had one to submit.
Recording(c) ==
    /\ kind[c] # "run" => run[c] \in Runs /\ logged[run[c]] # NoLog
    /\ stage[c] = "holding" \/ (stage[c] = "save" /\ pc[c] = 12) => c \in orders
    /\ stage[c] \in {"case", "record"} /\ Submits(c) => c \in orders
    /\ stage[c] = "record" => <<c, "automation">> \in cases

Vouches(c, r) ==
    /\ run[c] = r /\ kind[c] = "run" /\ stage[c] = "returned"
    /\ logged[r].executed <=> c \in orders
    /\ <<c, "automation">> \in cases

LogInv ==
    /\ \A c \in Calls : Recording(c)
    /\ \A r \in Runs : logged[r].status = "success" => \E c \in Calls : Vouches(c, r)

LEMMA InitLog == Init => LogInv
  BY DEF Init, LogInv, Recording, NoLog

\* The steps that write no record, and those that file no case.
LEMMA FewRecord ==
    ASSUME NEW c \in Calls, StepOf(c), ~RefuseLive(c), ~Record(c)
    PROVE  UNCHANGED logged
  BY DEF StepOf, Begin, StartRun, Recall, Advance, Clear, LoadCheckpoints, Resolve, Stumble,
         NoProfile, Restore, SaveRunning, SkipOrder, Work, WorkRaises, SubmitOrder,
         UpdateHolding, SaveCompleted, SaveFailed, CreateCase, Kill, db

LEMMA CasesGrow ==
    ASSUME NEW c \in Calls, StepOf(c)
    PROVE  cases \subseteq cases'
  BY DEF StepOf, Begin, StartRun, Recall, Advance, Clear, LoadCheckpoints, Resolve, Stumble,
         NoProfile, Restore, SaveRunning, SkipOrder, Work, WorkRaises, SubmitOrder,
         UpdateHolding, SaveCompleted, SaveFailed, CreateCase, Kill, RefuseLive, Record, db

\* A record is never written over.
LEMMA LoggedStays ==
    ASSUME Inv, NEW c \in Calls, StepOf(c), NEW r \in Runs, logged[r] # NoLog
    PROVE  logged'[r] = logged[r]
<1> USE DEF Inv, TypeInv, TypeOK
<1>1. CASE RefuseLive(c)
  BY <1>1, FreshRun DEF RefuseLive
<1>2. CASE Record(c)
  BY <1>2 DEF Record
<1> QED
  BY <1>1, <1>2, FewRecord

LEMMA OrderedSubmits == ASSUME Inv, NEW c \in orders PROVE Submits(c)
  BY DEF Inv, TypeInv, TypeOK, KnowsInv, Ready, Submits, Approved, OrderRequest

LEMMA OwnRecording ==
    ASSUME Inv, LogInv, NEW c \in Calls, StepOf(c)
    PROVE  Recording(c)'
<1> USE DEF Goto, Ended, db, call, answers
<1>0. /\ Recording(c) /\ pc[c] \in 1..12 /\ (At(c) = "order" <=> pc[c] = 12)
      /\ c \in orders => pc[c] = 12
  BY Places DEF LogInv, Inv, TypeInv, TypeOK, KnowsInv, At
<1> USE DEF Inv, TypeInv, TypeOK
<1>1. CASE \E r \in Runs, k \in {"retry", "replay"} : Recall(c, k, r)
  BY <1>1 DEF Recall, Begin, Recording
<1>2. CASE \E m \in Modes : StartRun(c, m)
  BY <1>2 DEF StartRun, Begin, Recording
\* The other steps keep the run, and it keeps its record.
<1>3. ASSUME UNCHANGED <<kind, run>>,
             \/ stage'[c] \notin {"holding", "save", "case", "record"}
             \/ stage'[c] = "holding" /\ c \in orders'
             \/ stage'[c] = "save" /\ (pc'[c] # 12 \/ c \in orders')
             \/ stage'[c] = "case" /\ (Submits(c)' => c \in orders')
             \/ /\ stage'[c] = "record" /\ (Submits(c)' => c \in orders')
                /\ <<c, "automation">> \in cases'
      PROVE  Recording(c)'
  <2>1. kind'[c] # "run" => run'[c] \in Runs /\ logged'[run[c]] # NoLog
    BY <1>0, <1>3, LoggedStays DEF Recording
  <2> QED BY <1>3, <2>1 DEF Recording
<1>4. CASE Work(c)
  <2>1. stage'[c] = "save" /\ pc'[c] # 12 /\ UNCHANGED <<kind, run>>
    BY <1>0, <1>4 DEF Work
  <2> QED BY <1>3, <2>1
<1>5. CASE SubmitOrder(c)
  BY <1>3, <1>5 DEF SubmitOrder
<1>6. CASE UpdateHolding(c)
  <2>1. /\ stage[c] = "holding" /\ stage'[c] \in {"save", "failing"}
        /\ UNCHANGED <<kind, run, orders>>
    BY <1>6 DEF UpdateHolding
  <2> QED BY <1>0, <1>3, <2>1 DEF Recording
<1>7. CASE SkipOrder(c) \/ CreateCase(c)
  <2>1. Submits(c)' = Submits(c)
    BY <1>7 DEF SkipOrder, CreateCase, Submits, Approved, OrderRequest
  <2> QED BY <1>0, <1>3, <1>7, <2>1 DEF SkipOrder, CreateCase, Recording
<1>8. CASE SaveCompleted(c)
  <2>1. /\ stage[c] = "save"
        /\ stage'[c] = "step" \/ (pc[c] = 12 /\ stage'[c] = "case")
        /\ UNCHANGED <<kind, run, orders>>
    BY <1>0, <1>8 DEF SaveCompleted, NextStep
  <2> QED BY <1>0, <1>3, <2>1 DEF Recording
<1>9. CASE RefuseLive(c) \/ Clear(c) \/ LoadCheckpoints(c) \/ Resolve(c) \/ Stumble(c)
           \/ NoProfile(c) \/ Restore(c) \/ SaveRunning(c) \/ WorkRaises(c) \/ SaveFailed(c)
           \/ Record(c) \/ Kill(c)
  <2>1. stage'[c] \notin {"holding", "save", "case", "record"} /\ UNCHANGED <<kind, run>>
    BY <1>9
    DEF RefuseLive, Clear, LoadCheckpoints, Resolve, Stumble, NoProfile, Restore, SaveRunning,
        WorkRaises, SaveFailed, Record, Kill, NextStep
  <2> QED BY <1>3, <2>1
<1> QED
  BY <1>1, <1>2, <1>4, <1>5, <1>6, <1>7, <1>8, <1>9 DEF StepOf, Advance

LEMMA NextLog == Inv /\ LogInv /\ [Next]_vars => LogInv'
<1> SUFFICES ASSUME Inv, LogInv, [Next]_vars PROVE LogInv'
  OBVIOUS
<1>1. CASE UNCHANGED vars
  BY <1>1
  DEF vars, db, call, answers, LogInv, Recording, Vouches, Submits, Approved, OrderRequest
<1>2. ASSUME NEW d \in Calls, StepOf(d) PROVE LogInv'
  <2>1. ASSUME NEW c \in Calls \ {d} PROVE Recording(c)'
    <3>1. /\ UNCHANGED <<stage[c], pc[c], kind[c], run[c], mode[c], signal[c], level[c]>>
          /\ (c \in orders)' = (c \in orders)
      BY <1>2, OthersStay
    <3>2. Submits(c)' = Submits(c)
      BY <3>1 DEF Submits, Approved, OrderRequest
    <3>3. Recording(c) /\ cases \subseteq cases'
      BY <1>2, CasesGrow DEF LogInv
    <3>4. kind'[c] # "run" => run'[c] \in Runs /\ logged'[run[c]] # NoLog
      BY <1>2, <3>1, <3>3, LoggedStays DEF Recording
    <3> QED BY <3>1, <3>2, <3>3, <3>4 DEF Recording
  <2>2. Recording(d)'
    BY <1>2, OwnRecording
  \* A call that has returned vouches for good.
  <2>3. ASSUME NEW r \in Runs, NEW c \in Calls, Vouches(c, r), logged[r] # NoLog
        PROVE  Vouches(c, r)'
    <3>1. c # d
      BY <1>2, <2>3
      DEF Vouches, StepOf, Begin, StartRun, Recall, Advance, Clear, LoadCheckpoints, Resolve,
          Stumble, NoProfile, Restore, SaveRunning, SkipOrder, Work, WorkRaises, SubmitOrder,
          UpdateHolding, SaveCompleted, SaveFailed, CreateCase, Kill, RefuseLive, Record, Ended
    <3>2. /\ UNCHANGED <<stage[c], kind[c], run[c]>>
          /\ (c \in orders)' = (c \in orders)
          /\ logged'[r] = logged[r] /\ cases \subseteq cases'
      BY <1>2, <2>3, <3>1, OthersStay, LoggedStays, CasesGrow
    <3> QED BY <2>3, <3>2 DEF Vouches
  <2>4. ASSUME NEW r \in Runs, logged'[r] # logged[r], logged'[r].status = "success"
        PROVE  Vouches(d, r)'
    <3> USE DEF Goto, call, Inv, TypeInv, TypeOK
    <3>1. CASE RefuseLive(d)
      BY <2>4, <3>1, FreshRun DEF RefuseLive
    <3>2. CASE Record(d)
      <4>1. /\ stage[d] = "record" /\ run[d] = r /\ logged[r] = NoLog /\ stage'[d] = "returned"
            /\ logged'[r].executed = Submits(d)
            /\ UNCHANGED <<run, kind, orders, cases>>
        BY <2>4, <3>2 DEF Record
      <4>2. Submits(d) <=> d \in orders
        BY <4>1, OrderedSubmits DEF LogInv, Recording
      <4>3. kind[d] = "run" /\ <<d, "automation">> \in cases
        BY <4>1 DEF LogInv, Recording
      <4> QED BY <4>1, <4>2, <4>3 DEF Vouches
    <3> QED BY <1>2, <2>4, <3>1, <3>2, FewRecord
  <2>5. ASSUME NEW r \in Runs, logged'[r].status = "success"
        PROVE  \E c \in Calls : Vouches(c, r)'
    <3>1. CASE logged'[r] = logged[r]
      <4>1. logged[r] # NoLog
        BY <2>5, <3>1 DEF NoLog
      <4> QED BY <2>3, <2>5, <3>1, <4>1 DEF LogInv
    <3> QED BY <2>4, <2>5, <3>1
  <2> QED BY <2>1, <2>2, <2>5 DEF LogInv
<1> QED BY <1>1, <1>2 DEF Next, StepOf

---------------------------------------------------------------------------
\* However runs are resumed, replayed and cut off, an order is stored only by a call that
\* obtained its signal and passed its risk check itself.
THEOREM OrdersAreApproved == Spec => []OrderIsApproved
<1>1. Init => Inv
  BY InitTypeInv, InitKnows DEF Inv
<1>2. Inv /\ [Next]_vars => Inv'
  BY NextTypeInv, NextKnows DEF Inv
<1>3. Inv => OrderIsApproved
  BY DEF Inv, TypeInv, TypeOK, KnowsInv, Ready, OrderIsApproved
<1>4. QED
  BY <1>1, <1>2, <1>3, PTL DEF Spec

\* No stored order is without a checkpoint of its step, but for a run that is replayed.
THEOREM OrdersLeaveTraces == Spec => []OrderLeavesTrace
<1>1. Init => Inv /\ TraceInv
  BY InitTypeInv, InitKnows, InitTrace DEF Inv
<1>2. Inv /\ TraceInv /\ [Next]_vars => (Inv /\ TraceInv)'
  BY NextTypeInv, NextKnows, NextTrace DEF Inv
<1>3. Inv /\ TraceInv => OrderLeavesTrace
  BY DEF Inv, TypeInv, TypeOK, TraceInv, Traced, OrderLeavesTrace
<1>4. QED
  BY <1>1, <1>2, <1>3, PTL DEF Spec
\* The tables and what each call has in hand keep their types.
THEOREM TypeCorrect == Spec => []TypeOK
<1>1. TypeInv => TypeOK
  BY DEF TypeInv
<1> QED BY InitTypeInv, NextTypeInv, <1>1, PTL DEF Spec

\* A record of success in agent_runs says executed exactly if the order of its run is
\* stored, and its investment case is there: a retry or a replay never writes one for a
\* run that has its record.
THEOREM RecordsAreTruthful == Spec => []LogIsTruthful
<1>1. Init => Inv /\ LogInv
  BY InitTypeInv, InitKnows, InitLog DEF Inv
<1>2. Inv /\ LogInv /\ [Next]_vars => (Inv /\ LogInv)'
  BY NextTypeInv, NextKnows, NextLog DEF Inv
<1>3. Inv /\ LogInv => LogIsTruthful
  BY DEF LogInv, Vouches, LogIsTruthful
<1> QED BY <1>1, <1>2, <1>3, PTL DEF Spec
=============================================================================
