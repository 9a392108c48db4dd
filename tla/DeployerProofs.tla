--------------------------- MODULE DeployerProofs ---------------------------
(* Theorems about Deployer: types, one deployment per path, what a record  *)
(* of success means, and that the loop forgets no path in silence.         *)
EXTENDS Deployer, TLAPS

LEMMA EmptyIsSeq == ASSUME NEW S PROVE <<>> \in Seq(S)
  OBVIOUS

LEMMA SingletonIsSeq == ASSUME NEW S, NEW e \in S PROVE <<e>> \in Seq(S)
  OBVIOUS

LEMMA AppendIsSeq == ASSUME NEW S, NEW s \in Seq(S), NEW e \in S PROVE Append(s, e) \in Seq(S)
  OBVIOUS

LEMMA HeadTail ==
  ASSUME NEW S, NEW s \in Seq(S), s # <<>>
  PROVE  Head(s) \in S /\ Tail(s) \in Seq(S)
  OBVIOUS

LEMMA InitTypeOK == Init => TypeOK
  BY PathsAssumption, BoundsAssumption, EmptyIsSeq
  DEF Init, TypeOK, Workers, Commits, Outcomes, Places

LEMMA TargetIsPath == ASSUME TypeOK, NEW w \in Workers PROVE Target(w) \in Paths
  BY DEF TypeOK, Target, Workers

LEMMA WorkersNames == Poll \in Workers /\ \A p \in Paths : p \in Workers /\ p # Poll
  BY PathsAssumption DEF Workers

-----------------------------------------------------------------------------
(* Type correctness, action by action. *)

LEMMA AllPlaces ==
  /\ "idle" \in Places /\ "loaded" \in Places /\ "fetched" \in Places /\ "claimed" \in Places /\ "next" \in Places
  /\ "render" \in Places /\ "wait" \in Places /\ "record" \in Places
  BY DEF Places

LEMMA AllOutcomes == "pending" \in Outcomes /\ "success" \in Outcomes /\ "failed" \in Outcomes
  BY DEF Outcomes

LEMMA PollTypes ==
  ASSUME TypeOK,
         PollLoad \/ PollFetch \/ PollCompare \/ PollDone \/ \E p \in Paths : PollNext(p)
  PROVE  TypeOK'
<1>0. head \in Commits /\ 0 \in Commits /\ commit[Poll] \in Commits
  BY BoundsAssumption DEF TypeOK, Commits, Workers
<1>1. CASE PollLoad
  BY <1>1, AllPlaces DEF PollLoad, TypeOK, repo, config, bounds, history
<1>4. CASE PollFetch
  <2>1. /\ loaded' \subseteq Paths
        /\ faults' \in Nat
    BY <1>4 DEF PollFetch, Works, Fails, TypeOK
  <2>2. pc' \in [Workers -> Places] /\ commit' \in [Workers -> Commits]
    BY <1>0, <1>4, AllPlaces DEF PollFetch, TypeOK
  <2> QED BY <1>4, <2>1, <2>2 DEF PollFetch, TypeOK, repo, config, history
<1>5. CASE PollCompare
  <2>1. PICK paths \in SUBSET Paths :
          /\ Affected(paths)
          /\ todo' = paths
          /\ IF paths = {}
             THEN /\ last' = commit[Poll]
                  /\ pc' = [pc EXCEPT ![Poll] = "idle"]
                  /\ commit' = [commit EXCEPT ![Poll] = 0]
             ELSE /\ pc' = [pc EXCEPT ![Poll] = "next"]
                  /\ UNCHANGED <<last, commit>>
    BY <1>5 DEF PollCompare
  <2>2. faults' \in Nat
    BY <2>1 DEF Affected, Works, Fails, TypeOK
  <2>3. /\ last' \in Commits
        /\ pc' \in [Workers -> Places]
        /\ commit' \in [Workers -> Commits]
    BY <1>0, <2>1, AllPlaces DEF TypeOK
  <2>4. forgotten' \subseteq Paths /\ loaded' \subseteq Paths
    BY <1>5 DEF PollCompare, Behind, TypeOK
  <2> QED BY <1>5, <2>1, <2>2, <2>3, <2>4 DEF PollCompare, TypeOK, repo, config
<1>2. CASE PollDone
  BY <1>0, <1>2, AllPlaces DEF PollDone, TypeOK, repo, config, bounds, history
<1>3. ASSUME NEW p \in Paths, PollNext(p) PROVE TypeOK'
  <2>1. forgotten' \subseteq Paths
    BY <1>3 DEF PollNext, Behind, TypeOK
  <2>2. deploying' \subseteq Paths /\ todo' \subseteq Paths /\ pollPath' \in Paths
    BY <1>3 DEF PollNext, TypeOK, work
  <2>3. /\ stamps' \in Nat
        /\ stamp' \in [Workers -> Nat]
        /\ pc' \in [Workers -> Places]
        /\ UNCHANGED <<commit, outcome>>
    <3>1. CASE p \in deploying
      BY <1>3, <3>1 DEF PollNext, TypeOK, work
    <3>2. CASE p \notin deploying
      <4>1. /\ stamps' = stamps + 1
            /\ stamp' = [stamp EXCEPT ![Poll] = stamps + 1]
            /\ pc' = [pc EXCEPT ![Poll] = "render"]
            /\ UNCHANGED <<commit, outcome>>
        BY <1>3, <3>2 DEF PollNext, Begin
      <4>2. stamps + 1 \in Nat
        BY DEF TypeOK
      <4> QED BY <4>1, <4>2, AllPlaces DEF TypeOK
    <3> QED BY <3>1, <3>2
  <2> QED BY <1>3, <2>1, <2>2, <2>3 DEF PollNext, TypeOK, repo, config, bounds
<1> QED BY <1>1, <1>2, <1>3, <1>4, <1>5

LEMMA SyncTypes ==
  ASSUME TypeOK, NEW p \in Paths, SyncClaim(p) \/ SyncFetch(p) \/ SyncRefuse(p)
  PROVE  TypeOK'
<1>1. CASE SyncClaim(p)
  BY <1>1, AllPlaces, WorkersNames DEF SyncClaim, Request, TypeOK, repo, config, loop, history
<1>2. CASE SyncFetch(p)
  <2>1. stamps + 1 \in Nat /\ head \in Commits
    BY BoundsAssumption DEF TypeOK, Commits
  <2>2. /\ commit' \in [Workers -> Commits]
        /\ pc' \in [Workers -> Places]
        /\ stamp' \in [Workers -> Nat]
        /\ stamps' \in Nat
    BY <1>2, <2>1, AllPlaces DEF SyncFetch, Begin, TypeOK
  <2> QED
    BY <1>2, <2>2 DEF SyncFetch, TypeOK, repo, config, loop, bounds, history
<1>3. CASE SyncRefuse(p)
  BY <1>3, AllPlaces, WorkersNames DEF SyncRefuse, Fails, TypeOK, repo, config, loop, history
<1> QED BY <1>1, <1>2, <1>3

LEMMA DeployTypes ==
  ASSUME TypeOK, NEW w \in Workers, Render(w) \/ Timeout(w) \/ Record(w)
  PROVE  TypeOK'
<1>0. Target(w) \in Paths
  BY TargetIsPath
<1>1. CASE Render(w)
  <2>1. [path |-> Target(w), commit |-> commit[w], stamp |-> stamp[w], by |-> w] \in Commands
    BY <1>0 DEF TypeOK, Commands
  <2>2. queue' \in Seq(Commands)
    <3>1. queue \in Seq(Commands)
      BY DEF TypeOK
    <3>2. \/ queue' = queue
          \/ queue' = Append(queue, [path |-> Target(w), commit |-> commit[w],
                                     stamp |-> stamp[w], by |-> w])
      BY <1>1 DEF Render
    <3> QED BY <2>1, <3>1, <3>2, AppendIsSeq
  <2>3. /\ faults' \in Nat
        /\ outcome' \in [Workers -> Outcomes]
        /\ pc' \in [Workers -> Places]
    <3>1. /\ faults' = faults \/ faults' = faults + 1
          /\ outcome' = outcome \/ outcome' = [outcome EXCEPT ![w] = "failed"]
          /\ \/ pc' = [pc EXCEPT ![w] = "wait"]
             \/ pc' = [pc EXCEPT ![w] = "record"]
      BY <1>1 DEF Render, Works, Fails
    <3>2. faults' \in Nat
      BY <3>1 DEF TypeOK
    <3>3. outcome' \in [Workers -> Outcomes]
      BY <3>1, AllOutcomes DEF TypeOK
    <3>4. pc' \in [Workers -> Places]
      BY <3>1, AllPlaces DEF TypeOK
    <3> QED BY <3>2, <3>3, <3>4
  <2> QED BY <1>1, <2>2, <2>3 DEF Render, TypeOK, repo, config, loop, history
<1>2. CASE Timeout(w)
  BY <1>2, AllPlaces DEF Timeout, TypeOK, repo, config, loop, bounds, history
<1>3. CASE Record(w)
  <2> DEFINE p == Target(w)
  <2>1. latest' \in [Paths -> [commit : Commits, status : Outcomes, at : Nat]]
    <3> DEFINE R == [commit : Commits, status : Outcomes, at : Nat]
               new == [commit |-> commit[w], status |-> outcome[w], at |-> stamp[w]]
    <3>1. new \in R
      BY DEF TypeOK
    <3>2. latest \in [Paths -> R]
      BY DEF TypeOK
    <3>3. \/ latest' = latest
          \/ latest' = [latest EXCEPT ![p] = new]
          \/ latest' = [latest EXCEPT ![p] = latest[p]]
      BY <1>3 DEF Record
    <3> HIDE DEF R, new
    <3>4. latest[p] \in R
      BY <1>0, <3>2
    <3> QED BY <3>1, <3>2, <3>3, <3>4 DEF R
  <2>2. faults' \in Nat
    BY <1>3 DEF Record, Works, Fails, TypeOK
  <2>3. deploying' \subseteq Paths /\ forgotten' \subseteq Paths
    BY <1>0, <1>3 DEF Record, TypeOK
  <2>4. /\ pc' \in [Workers -> Places]
        /\ commit' \in [Workers -> Commits]
    BY <1>3, AllPlaces, BoundsAssumption DEF Record, TypeOK, Commits
  <2>5. /\ stamp' \in [Workers -> Nat]
        /\ outcome' \in [Workers -> Outcomes]
    BY <1>0, <1>3, AllOutcomes DEF Record, TypeOK
  <2> QED BY <1>3, <2>1, <2>2, <2>3, <2>4, <2>5 DEF Record, TypeOK, repo, config, loop
<1> QED BY <1>1, <1>2, <1>3

LEMMA AgentTypes ==
  ASSUME TypeOK, AgentApply \/ AgentFail \/ AgentLose
  PROVE  TypeOK'
<1>1. queue # <<>>
  BY DEF AgentApply, AgentFail, AgentLose
<1>2. Head(queue) \in Commands /\ Tail(queue) \in Seq(Commands)
  BY <1>1, HeadTail DEF TypeOK
<1>3. /\ pc' \in [Workers -> Places]
      /\ outcome' \in [Workers -> Outcomes]
  BY AllPlaces, AllOutcomes DEF AgentApply, AgentFail, AgentLose, Answer, TypeOK, work
<1>4. Applied(Head(queue)) \in [Paths -> Commits]
  BY <1>2 DEF Applied, TypeOK, Commands
<1>5. faults' \in Nat
  BY DEF AgentApply, AgentFail, AgentLose, Works, Fails, TypeOK
<1>6. CASE AgentApply
  <2>1. Head(queue).stamp \in Nat
    BY <1>2 DEF Commands
  <2>2. took' \subseteq Nat /\ whole' \subseteq Nat
    BY <1>6, <2>1 DEF AgentApply, TypeOK
  <2> QED BY <1>2, <1>3, <1>4, <1>5, <1>6, <2>2 DEF AgentApply, TypeOK, repo, config, loop
<1>7. CASE AgentFail
  BY <1>2, <1>3, <1>5, <1>7 DEF AgentFail, TypeOK, repo, config, loop, history
<1>8. CASE AgentLose
  BY <1>2, <1>3, <1>4, <1>5, <1>8 DEF AgentLose, TypeOK, repo, config, loop, work, history
<1> QED BY <1>6, <1>7, <1>8

LEMMA WorldTypes ==
  ASSUME TypeOK,
         \/ \E paths \in SUBSET Paths : Push(paths) \/ \E on \in BOOLEAN : SaveConfig(paths, on)
         \/ Restart
  PROVE  TypeOK'
<1>1. ASSUME NEW paths \in SUBSET Paths, Push(paths) PROVE TypeOK'
  <2>1. head' \in 1..MaxCommits
    BY <1>1, BoundsAssumption DEF Push, TypeOK
  <2> QED
    BY <1>1, <2>1 DEF Push, TypeOK, config, loop, work, bounds, history
<1>2. ASSUME NEW paths \in SUBSET Paths, NEW on \in BOOLEAN, SaveConfig(paths, on) PROVE TypeOK'
  BY <1>2 DEF SaveConfig, Request, Behind, TypeOK, repo, loop, work
<1>3. CASE Restart
  <2>1. Held \subseteq Commands
    BY HeadTail DEF Held, TypeOK
  <2>2. last' \in Commits /\ forgotten' \subseteq Paths
    BY <1>3, <2>1 DEF Restart, Behind, Commands, TypeOK
  <2>4. queue' \in Seq(Commands)
    BY <1>3, <2>1, EmptyIsSeq, SingletonIsSeq DEF Restart
  <2>5. /\ pc' \in [Workers -> Places]
        /\ commit' \in [Workers -> Commits]
        /\ stamp' \in [Workers -> Nat]
        /\ outcome' \in [Workers -> Outcomes]
    BY <1>3, AllPlaces, AllOutcomes, BoundsAssumption DEF Restart, Commits
  <2> QED BY <1>3, <2>2, <2>4, <2>5 DEF Restart, Fails, TypeOK, repo, config
<1> QED BY <1>1, <1>2, <1>3

LEMMA NextTypeOK == TypeOK /\ [Next]_vars => TypeOK'
<1> SUFFICES ASSUME TypeOK, [Next]_vars PROVE TypeOK'
  OBVIOUS
<1>1. CASE UNCHANGED vars
  BY <1>1 DEF vars, repo, config, loop, work, bounds, history, TypeOK
<1>2. CASE Next
  BY <1>2, PollTypes, SyncTypes, DeployTypes, AgentTypes, WorldTypes DEF Next
<1> QED BY <1>1, <1>2

(* Every variable of the deployer keeps its type, for any paths and bounds. *)
THEOREM TypeCorrect == Spec => []TypeOK
  BY InitTypeOK, NextTypeOK, PTL DEF Spec

-----------------------------------------------------------------------------
(* One deployment per path. *)

LEMMA InitExclusive == Init => OneDeployPerPath
  BY DEF Init, OneDeployPerPath, Busy

\* What keeps the workers apart when none of them moves.
LEMMA SameExclusive ==
  ASSUME OneDeployPerPath, UNCHANGED <<deploying, pollPath>>,
         \A w \in Workers : Busy(w)' = Busy(w)
  PROVE  OneDeployPerPath'
  BY DEF OneDeployPerPath, Target

LEMMA ClaimExclusive ==
  ASSUME TypeOK, OneDeployPerPath, NEW v \in Workers, NEW p \in Paths,
         p \notin deploying, ~Busy(v), Busy(v)', Target(v)' = p,
         deploying' = deploying \cup {p},
         \A w \in Workers \ {v} : Busy(w)' = Busy(w) /\ Target(w)' = Target(w)
  PROVE  OneDeployPerPath'
<1>1. \A w \in Workers : Busy(w) => Target(w) # p
  BY DEF OneDeployPerPath
<1>2. \A w, u \in Workers : Busy(w)' /\ Busy(u)' /\ Target(w)' = Target(u)' => w = u
  BY <1>1 DEF OneDeployPerPath
<1>3. deploying' = {Target(w)' : w \in {u \in Workers : Busy(u)'}}
  <2>1. deploying = {Target(w) : w \in {u \in Workers : Busy(u)}}
    BY DEF OneDeployPerPath
  <2>2. \A q : q \in deploying' => q \in {Target(w)' : w \in {u \in Workers : Busy(u)'}}
    BY <2>1
  <2>3. \A w \in Workers : Busy(w)' => Target(w)' \in deploying'
    BY <2>1
  <2> QED BY <2>2, <2>3
<1> QED BY <1>2, <1>3 DEF OneDeployPerPath

LEMMA ReleaseExclusive ==
  ASSUME TypeOK, OneDeployPerPath, NEW v \in Workers,
         Busy(v), ~Busy(v)', UNCHANGED pollPath,
         deploying' = deploying \ {Target(v)},
         \A w \in Workers \ {v} : Busy(w)' = Busy(w)
  PROVE  OneDeployPerPath'
<1>1. \A w \in Workers : Target(w)' = Target(w)
  BY DEF Target
<1>2. \A w \in Workers \ {v} : Busy(w) => Target(w) # Target(v)
  BY DEF OneDeployPerPath
<1>3. \A w, u \in Workers : Busy(w)' /\ Busy(u)' /\ Target(w)' = Target(u)' => w = u
  BY <1>1 DEF OneDeployPerPath
<1>4. deploying' = {Target(w)' : w \in {u \in Workers : Busy(u)'}}
  <2>1. deploying = {Target(w) : w \in {u \in Workers : Busy(u)}}
    BY DEF OneDeployPerPath
  <2>2. \A q : q \in deploying' => q \in {Target(w)' : w \in {u \in Workers : Busy(u)'}}
    BY <1>1, <2>1
  <2>3. \A w \in Workers : Busy(w)' => Target(w)' \in deploying'
    BY <1>1, <1>2, <2>1
  <2> QED BY <2>2, <2>3
<1> QED BY <1>3, <1>4 DEF OneDeployPerPath

LEMMA NextExclusive == TypeOK /\ OneDeployPerPath /\ [Next]_vars => OneDeployPerPath'
<1> SUFFICES ASSUME TypeOK, OneDeployPerPath, [Next]_vars PROVE OneDeployPerPath'
  OBVIOUS
<1>0. \A w \in Workers : pc[w] \in Places
  BY DEF TypeOK
<1>1. CASE PollLoad \/ PollFetch \/ PollCompare
  <2>1. UNCHANGED <<deploying, pollPath>>
    BY <1>1 DEF PollLoad, PollFetch, PollCompare
  <2>2. \A w \in Workers : Busy(w)' = Busy(w)
    BY <1>1 DEF PollLoad, PollFetch, PollCompare, Busy, TypeOK
  <2> QED BY <2>1, <2>2, SameExclusive
<1>2. CASE PollDone
  <2>1. \A w \in Workers : Busy(w)' = Busy(w)
    BY <1>2 DEF PollDone, Busy, TypeOK
  <2> QED BY <1>2, <2>1, SameExclusive DEF PollDone
<1>3. ASSUME NEW p \in Paths, PollNext(p) PROVE OneDeployPerPath'
  <2>1. CASE p \in deploying
    BY <1>3, <2>1, SameExclusive DEF PollNext, Busy, work
  <2>2. CASE p \notin deploying
    <3>1. /\ pc[Poll] = "next"
          /\ deploying' = deploying \cup {p}
          /\ pollPath' = p
          /\ pc' = [pc EXCEPT ![Poll] = "render"]
      BY <1>3, <2>2 DEF PollNext
    <3>2. ~Busy(Poll) /\ Busy(Poll)' /\ Target(Poll)' = p
      BY <3>1, WorkersNames DEF Busy, Target, TypeOK
    <3>3. \A w \in Workers \ {Poll} : Busy(w)' = Busy(w) /\ Target(w)' = Target(w)
      BY <3>1 DEF Busy, Target, TypeOK
    <3> QED BY <2>2, <3>1, <3>2, <3>3, WorkersNames, ClaimExclusive
  <2> QED BY <2>1, <2>2
<1>4. ASSUME NEW p \in Paths, SyncClaim(p) PROVE OneDeployPerPath'
  <2>1. ~Busy(p) /\ Busy(p)' /\ Target(p)' = p
    BY <1>4, WorkersNames DEF SyncClaim, Busy, Target, TypeOK
  <2>2. \A w \in Workers \ {p} : Busy(w)' = Busy(w) /\ Target(w)' = Target(w)
    BY <1>4 DEF SyncClaim, Busy, Target, TypeOK
  <2>3. p \notin deploying /\ deploying' = deploying \cup {p}
    BY <1>4 DEF SyncClaim
  <2> QED BY <2>1, <2>2, <2>3, WorkersNames, ClaimExclusive
<1>5. ASSUME NEW p \in Paths, SyncFetch(p) PROVE OneDeployPerPath'
  <2>1. \A w \in Workers : Busy(w)' = Busy(w)
    BY <1>5, WorkersNames DEF SyncFetch, Busy, TypeOK
  <2> QED BY <1>5, <2>1, SameExclusive DEF SyncFetch
<1>6. ASSUME NEW p \in Paths, SyncRefuse(p) PROVE OneDeployPerPath'
  <2>1. Busy(p) /\ ~Busy(p)' /\ Target(p) = p
    BY <1>6, WorkersNames DEF SyncRefuse, Busy, Target, TypeOK
  <2>2. \A w \in Workers \ {p} : Busy(w)' = Busy(w)
    BY <1>6 DEF SyncRefuse, Busy, TypeOK
  <2>3. deploying' = deploying \ {p} /\ UNCHANGED pollPath
    BY <1>6 DEF SyncRefuse
  <2> QED BY <2>1, <2>2, <2>3, WorkersNames, ReleaseExclusive
<1>7. ASSUME NEW w \in Workers, Render(w) PROVE OneDeployPerPath'
  <2>1. \A u \in Workers : Busy(u)' = Busy(u)
    BY <1>7 DEF Render, Busy, TypeOK
  <2> QED BY <1>7, <2>1, SameExclusive DEF Render
<1>8. ASSUME NEW w \in Workers, Timeout(w) PROVE OneDeployPerPath'
  <2>1. \A u \in Workers : Busy(u)' = Busy(u)
    BY <1>8 DEF Timeout, Busy, TypeOK
  <2> QED BY <1>8, <2>1, SameExclusive DEF Timeout
<1>9. ASSUME NEW w \in Workers, Record(w) PROVE OneDeployPerPath'
  <2>1. pc[w] = "record" /\ pc' = [pc EXCEPT ![w] = IF w = Poll THEN "next" ELSE "idle"]
    BY <1>9 DEF Record
  <2>2. Busy(w) /\ ~Busy(w)'
    BY <2>1 DEF Busy, TypeOK
  <2>3. \A u \in Workers \ {w} : Busy(u)' = Busy(u)
    BY <2>1 DEF Busy, TypeOK
  <2>4. deploying' = deploying \ {Target(w)} /\ UNCHANGED pollPath
    BY <1>9 DEF Record
  <2> QED BY <2>2, <2>3, <2>4, ReleaseExclusive
<1>10. CASE AgentApply \/ AgentFail \/ AgentLose
  <2>1. UNCHANGED <<deploying, pollPath>>
    BY <1>10 DEF AgentApply, AgentFail, AgentLose, work
  <2>2. \A w \in Workers : pc'[w] = pc[w] \/ (pc[w] = "wait" /\ pc'[w] = "record")
    BY <1>10 DEF AgentApply, AgentFail, AgentLose, Answer, TypeOK, work
  <2> QED BY <2>1, <2>2, SameExclusive DEF Busy
<1>11. ASSUME NEW paths \in SUBSET Paths, Push(paths) PROVE OneDeployPerPath'
  BY <1>11, SameExclusive DEF Push, work, Busy
<1>12. ASSUME NEW paths \in SUBSET Paths, NEW on \in BOOLEAN, SaveConfig(paths, on)
       PROVE  OneDeployPerPath'
  BY <1>12, SameExclusive DEF SaveConfig, work, Busy
<1>13. CASE Restart
  <2>1. \A w \in Workers : ~Busy(w)'
    BY <1>13 DEF Restart, Busy
  <2>2. deploying' = {}
    BY <1>13 DEF Restart
  <2> QED BY <2>1, <2>2 DEF OneDeployPerPath
<1>14. CASE UNCHANGED vars
  BY <1>14, SameExclusive DEF vars, work, Busy
<1> QED
  BY <1>1, <1>2, <1>3, <1>4, <1>5, <1>6, <1>7, <1>8, <1>9, <1>10, <1>11, <1>12, <1>13, <1>14
  DEF Next

(* The loop and the goroutines of SyncNow never work on one path at once,  *)
(* and exactly the paths somebody works on are marked, for any paths.      *)
THEOREM Exclusive == Spec => []OneDeployPerPath
<1>1. Init => TypeOK /\ OneDeployPerPath
  BY InitTypeOK, InitExclusive
<1>2. (TypeOK /\ OneDeployPerPath) /\ [Next]_vars => (TypeOK /\ OneDeployPerPath)'
  BY NextTypeOK, NextExclusive
<1> QED BY <1>1, <1>2, PTL DEF Spec

-----------------------------------------------------------------------------
(* A record of success. *)

\* A worker that holds a success got it from the answer to its own command.
Honest ==
  /\ \A w \in Workers : outcome[w] = "success" => pc[w] = "record" /\ stamp[w] \in took
  /\ SuccessWasApplied

LEMMA InitHonest == Init => Honest
  BY DEF Init, Honest, SuccessWasApplied

\* Nothing that Honest speaks of is lost.
LEMMA KeepsHonest ==
  ASSUME TypeOK, Honest, UNCHANGED latest, took \subseteq took',
         \A w \in Workers :
           outcome'[w] = "success" =>
             /\ outcome[w] = "success"
             /\ pc'[w] = pc[w]
             /\ stamp'[w] = stamp[w]
  PROVE  Honest'
  BY DEF Honest, SuccessWasApplied

LEMMA AnswerHonest ==
  ASSUME TypeOK, Honest, NEW cmd \in Commands, UNCHANGED <<latest, stamp>>,
         took' = took \cup {cmd.stamp}, Answer(cmd, "success")
  PROVE  Honest'
<1>1. \A w \in Workers :
        outcome'[w] = "success" => pc'[w] = "record" /\ stamp'[w] \in took'
  BY DEF Answer, Honest
<1>2. SuccessWasApplied'
  BY DEF Honest, SuccessWasApplied
<1> QED BY <1>1, <1>2 DEF Honest

LEMMA NextHonest == TypeOK /\ Honest /\ [Next]_vars => Honest'
<1> SUFFICES ASSUME TypeOK, Honest, [Next]_vars PROVE Honest'
  OBVIOUS
<1>0. \A w \in Workers : outcome[w] = "success" => pc[w] = "record"
  BY DEF Honest
<1>1. CASE PollLoad \/ PollFetch \/ PollCompare
  <2>1. UNCHANGED <<latest, took, outcome, stamp>>
    BY <1>1 DEF PollLoad, PollFetch, PollCompare, history
  <2>2. outcome[Poll] # "success"
    BY <1>0, <1>1, WorkersNames DEF PollLoad, PollFetch, PollCompare
  <2>3. \A w \in Workers : w # Poll => pc'[w] = pc[w]
    BY <1>1 DEF PollLoad, PollFetch, PollCompare, TypeOK
  <2> QED BY <2>1, <2>2, <2>3, KeepsHonest
<1>2. CASE PollDone
  BY <1>0, <1>2, KeepsHonest DEF PollDone, history, TypeOK
<1>3. ASSUME NEW p \in Paths, PollNext(p) PROVE Honest'
  <2>1. UNCHANGED <<latest, took, outcome>>
    BY <1>3 DEF PollNext, work
  <2>2. outcome[Poll] # "success"
    BY <1>0, <1>3, WorkersNames DEF PollNext
  <2>3. \A w \in Workers : w # Poll => pc'[w] = pc[w] /\ stamp'[w] = stamp[w]
    BY <1>3 DEF PollNext, Begin, work, TypeOK
  <2> QED BY <2>1, <2>2, <2>3, KeepsHonest
<1>4. ASSUME NEW p \in Paths, SyncClaim(p) PROVE Honest'
  BY <1>0, <1>4, KeepsHonest DEF SyncClaim, history, TypeOK
<1>5. ASSUME NEW p \in Paths, SyncFetch(p) PROVE Honest'
  BY <1>0, <1>5, KeepsHonest DEF SyncFetch, Begin, history, TypeOK
<1>6. ASSUME NEW p \in Paths, SyncRefuse(p) PROVE Honest'
  BY <1>0, <1>6, KeepsHonest DEF SyncRefuse, history, TypeOK
<1>7. ASSUME NEW w \in Workers, Render(w) PROVE Honest'
  BY <1>0, <1>7, KeepsHonest DEF Render, history, TypeOK
<1>8. ASSUME NEW w \in Workers, Timeout(w) PROVE Honest'
  BY <1>0, <1>8, KeepsHonest DEF Timeout, history, TypeOK
<1>9. ASSUME NEW w \in Workers, Record(w) PROVE Honest'
  <2> DEFINE new == [commit |-> commit[w], status |-> outcome[w], at |-> stamp[w]]
  <2>1. \A u \in Workers : outcome'[u] = "success" => pc'[u] = "record" /\ stamp'[u] \in took'
    <3>1. outcome'[w] = "pending" /\ took' = took
      BY <1>9 DEF Record, TypeOK
    <3>2. \A u \in Workers : u # w =>
            outcome'[u] = outcome[u] /\ pc'[u] = pc[u] /\ stamp'[u] = stamp[u]
      BY <1>9 DEF Record, TypeOK
    <3> QED BY <3>1, <3>2 DEF Honest
  <2>2. \A p \in Paths : latest'[p] = latest[p] \/ latest'[p] = new
    BY <1>9 DEF Record, TypeOK
  <2>3. new.status = "success" => new.at \in took'
    BY <1>9 DEF Honest, Record
  <2>4. took' = took
    BY <1>9 DEF Record
  <2>5. SuccessWasApplied'
    <3> HIDE DEF new
    <3> QED BY <2>2, <2>3, <2>4 DEF Honest, SuccessWasApplied
  <2> QED BY <2>1, <2>5 DEF Honest
<1>10. CASE AgentApply
  <2>1. Head(queue) \in Commands
    BY <1>10, HeadTail DEF AgentApply, TypeOK
  <2> QED BY <1>10, <2>1, AnswerHonest DEF AgentApply
<1>11. CASE AgentFail \/ AgentLose
  BY <1>0, <1>11, KeepsHonest DEF AgentFail, AgentLose, Answer, history, work, TypeOK
<1>12. ASSUME NEW paths \in SUBSET Paths, Push(paths) PROVE Honest'
  BY <1>12, KeepsHonest DEF Push, work, history
<1>13. ASSUME NEW paths \in SUBSET Paths, NEW on \in BOOLEAN, SaveConfig(paths, on)
       PROVE  Honest'
  BY <1>13, KeepsHonest DEF SaveConfig, work
<1>14. CASE Restart
  BY <1>14, KeepsHonest DEF Restart
<1>15. CASE UNCHANGED vars
  BY <1>15, KeepsHonest DEF vars, work, history
<1> QED
  BY <1>1, <1>2, <1>3, <1>4, <1>5, <1>6, <1>7, <1>8, <1>9, <1>10, <1>11, <1>12, <1>13, <1>14,
     <1>15
  DEF Next

(* A record says success only of a deployment whose own command the Agent  *)
(* applied, for any paths, restarts, failures and late executions.         *)
THEOREM Successes == Spec => []SuccessWasApplied
<1>1. Init => TypeOK /\ Honest
  BY InitTypeOK, InitHonest
<1>2. (TypeOK /\ Honest) /\ [Next]_vars => (TypeOK /\ Honest)'
  BY NextTypeOK, NextHonest
<1>3. Honest => SuccessWasApplied
  BY DEF Honest
<1> QED BY <1>1, <1>2, <1>3, PTL DEF Spec

-----------------------------------------------------------------------------
(* The steps, by what they do to commands, records and deployments. *)

Deploying(w) == pc[w] \in {"render", "wait", "record"}

\* The worker goes on with what it had.
Still(w) ==
  /\ pc'[w] = pc[w] /\ stamp'[w] = stamp[w] /\ commit'[w] = commit[w]
  /\ outcome'[w] = outcome[w] /\ Target(w)' = Target(w)

\* No deployment takes part in the step.
Quiet ==
  /\ UNCHANGED <<queue, applied, latest, stamps, outcome>>
  /\ head <= head' /\ forgotten \subseteq forgotten'
  /\ \A w \in Workers : Deploying(w)' = Deploying(w) /\ (Deploying(w) => Still(w))

\* A deployment begins, that of a sync at the newest commit.
Begun(w) ==
  /\ UNCHANGED <<head, queue, applied, latest, forgotten, outcome>>
  /\ ~Deploying(w)
  /\ pc'[w] = "render"
  /\ stamps' = stamps + 1 /\ stamp'[w] = stamps + 1
  /\ w # Poll => commit'[w] = head
  /\ \A v \in Workers : v # w => Still(v)

\* A command is sent.
Sent(w) ==
  /\ pc[w] = "render"
  /\ pc' = [pc EXCEPT ![w] = "wait"]
  /\ queue' = Append(queue, [path |-> Target(w), commit |-> commit[w],
                              stamp |-> stamp[w], by |-> w])
  /\ UNCHANGED <<head, pollPath, commit, stamp, outcome, applied, latest, stamps, forgotten>>

\* A deployment ends without an answer of the Agent.
Ended(w) ==
  /\ pc[w] \in {"render", "wait"}
  /\ pc' = [pc EXCEPT ![w] = "record"]
  /\ outcome' = outcome \/ outcome' = [outcome EXCEPT ![w] = "failed"]
  /\ UNCHANGED <<head, queue, pollPath, commit, stamp, applied, latest, stamps, forgotten>>

\* The oldest command leaves the queue.
Taken ==
  /\ queue # <<>>
  /\ queue' = Tail(queue)
  /\ applied' = applied \/ applied' = Applied(Head(queue))
  /\ \A w \in Workers :
       \/ pc'[w] = pc[w] /\ outcome'[w] = outcome[w]
       \/ /\ pc[w] = "wait" /\ pc'[w] = "record" /\ stamp[w] = Head(queue).stamp
          /\ outcome'[w] = "success" => applied' = Applied(Head(queue))
  /\ UNCHANGED <<head, pollPath, commit, stamp, latest, stamps, forgotten>>

LEMMA NumbersOf ==
  ASSUME TypeOK
  PROVE  /\ head \in Nat /\ last \in Nat /\ stamps \in Nat
         /\ \A w \in Workers : commit[w] \in Nat /\ stamp[w] \in Nat
         /\ \A p \in Paths : /\ applied[p] \in Nat
                              /\ latest[p].commit \in Nat /\ latest[p].at \in Nat
  BY BoundsAssumption DEF TypeOK, Commits

LEMMA Kinds ==
  ASSUME TypeOK, [Next]_vars
  PROVE  \/ Quiet \/ Taken \/ Restart
         \/ \E w \in Workers : Begun(w) \/ Sent(w) \/ Ended(w) \/ Record(w)
<1> USE WorkersNames, NumbersOf
<1>1. CASE PollLoad \/ PollFetch \/ PollCompare \/ PollDone
  <2>1. /\ UNCHANGED <<queue, applied, latest, stamps, outcome, head, pollPath, stamp>>
        /\ forgotten \subseteq forgotten'
    BY <1>1 DEF PollLoad, PollFetch, PollCompare, PollDone, repo, history
  <2>2. \A w \in Workers : w # Poll => pc'[w] = pc[w] /\ commit'[w] = commit[w]
    BY <1>1 DEF PollLoad, PollFetch, PollCompare, PollDone, TypeOK
  <2>3. ~Deploying(Poll) /\ ~Deploying(Poll)'
    BY <1>1 DEF PollLoad, PollFetch, PollCompare, PollDone, TypeOK, Deploying
  <2>4. Quiet
    BY <2>1, <2>2, <2>3 DEF Quiet, Still, Deploying, Target
  <2> QED BY <2>4
<1>2. ASSUME NEW p \in Paths, PollNext(p) PROVE Quiet \/ Begun(Poll)
  <2>1. CASE p \in deploying
    <3>1. UNCHANGED <<queue, applied, latest, stamps, head, work>> /\ forgotten \subseteq forgotten'
      BY <1>2, <2>1 DEF PollNext, repo
    <3> QED BY <3>1 DEF Quiet, Still, Deploying, Target, work
  <2>2. CASE p \notin deploying
    <3>1. /\ UNCHANGED <<head, queue, applied, latest, forgotten, outcome, commit>>
          /\ pc[Poll] = "next"
          /\ pc' = [pc EXCEPT ![Poll] = "render"]
          /\ stamps' = stamps + 1
          /\ stamp' = [stamp EXCEPT ![Poll] = stamps + 1]
      BY <1>2, <2>2 DEF PollNext, Begin, repo
    <3> QED BY <3>1 DEF Begun, Still, Deploying, Target, TypeOK
  <2> QED BY <2>1, <2>2
<1>3. ASSUME NEW p \in Paths, SyncClaim(p) \/ SyncRefuse(p) PROVE Quiet
  <2>1. UNCHANGED <<queue, applied, latest, stamps, outcome, head, pollPath, commit, stamp, forgotten>>
    BY <1>3 DEF SyncClaim, SyncRefuse, repo, history
  <2>2. pc[p] \in {"idle", "claimed"} /\ pc'[p] \in {"idle", "claimed"}
    BY <1>3 DEF SyncClaim, SyncRefuse, TypeOK
  <2>3. \A w \in Workers : w # p => pc'[w] = pc[w]
    BY <1>3 DEF SyncClaim, SyncRefuse, TypeOK
  <2> QED BY <2>1, <2>2, <2>3 DEF Quiet, Still, Deploying, Target
<1>4. ASSUME NEW p \in Paths, SyncFetch(p) PROVE Begun(p)
  BY <1>4 DEF SyncFetch, Begin, Begun, Still, Deploying, Target, TypeOK, repo, history
<1>5. ASSUME NEW w \in Workers, Render(w) PROVE Sent(w) \/ Ended(w)
  <2>1. UNCHANGED <<head, pollPath, commit, stamp, applied, latest, stamps, forgotten>>
    BY <1>5 DEF Render, repo, history
  <2> QED BY <1>5, <2>1 DEF Render, Sent, Ended
<1>6. ASSUME NEW w \in Workers, Timeout(w) PROVE Ended(w)
  BY <1>6 DEF Timeout, Ended, repo, history
<1>7. CASE AgentApply \/ AgentFail \/ AgentLose
  <2>1. /\ queue # <<>> /\ queue' = Tail(queue)
        /\ applied' = applied \/ applied' = Applied(Head(queue))
        /\ UNCHANGED <<head, pollPath, commit, stamp, latest, stamps, forgotten>>
    BY <1>7 DEF AgentApply, AgentFail, AgentLose, repo, work, history
  <2>2. ASSUME NEW w \in Workers
        PROVE  \/ pc'[w] = pc[w] /\ outcome'[w] = outcome[w]
               \/ /\ pc[w] = "wait" /\ pc'[w] = "record" /\ stamp[w] = Head(queue).stamp
                  /\ outcome'[w] = "success" => applied' = Applied(Head(queue))
    BY <1>7 DEF AgentApply, AgentFail, AgentLose, Answer, work
  <2> QED BY <2>1, <2>2 DEF Taken
<1>8. ASSUME NEW paths \in SUBSET Paths, Push(paths) PROVE Quiet
  BY <1>8 DEF Push, Quiet, Still, Deploying, Target, work, history
<1>9. ASSUME NEW paths \in SUBSET Paths, NEW on \in BOOLEAN, SaveConfig(paths, on) PROVE Quiet
  BY <1>9 DEF SaveConfig, Quiet, Still, Deploying, Target, work, repo
<1>10. CASE UNCHANGED vars
  BY <1>10 DEF vars, Quiet, Still, Deploying, Target, work, repo, history
<1> QED BY <1>1, <1>2, <1>3, <1>4, <1>5, <1>6, <1>7, <1>8, <1>9, <1>10 DEF Next

-----------------------------------------------------------------------------
(* Rolling back. *)

\* Nothing is newer than the branch, and the loop looks with empty hands.
Fresh ==
  /\ pc[Poll] \in Looking => todo = {}
  /\ last <= head
  /\ \A w \in Workers : commit[w] <= head
  /\ \A p \in Paths : latest[p].commit <= head

LEMMA InitFresh == Init => Fresh
<1> SUFFICES ASSUME Init PROVE Fresh
  OBVIOUS
<1>1. head = 1 /\ last = 0 /\ todo = {}
  BY DEF Init
<1>2. \A w \in Workers : commit[w] = 0
  BY DEF Init
<1>3. \A p \in Paths : latest[p].commit = 0
  BY DEF Init
<1> QED BY <1>1, <1>2, <1>3 DEF Fresh

LEMMA NextFresh == TypeOK /\ Fresh /\ [Next]_vars => Fresh'
<1> SUFFICES ASSUME TypeOK, Fresh, [Next]_vars PROVE Fresh'
  OBVIOUS
<1> USE WorkersNames
<1>0. /\ head \in Nat /\ last \in Nat /\ last <= head
      /\ \A w \in Workers : commit[w] \in Nat /\ commit[w] <= head
      /\ \A p \in Paths : latest[p].commit \in Nat /\ latest[p].commit <= head
  BY NumbersOf DEF Fresh
<1>1. CASE PollLoad \/ PollFetch \/ PollCompare \/ PollDone
  <2>1. UNCHANGED <<head, latest>>
    BY <1>1 DEF PollLoad, PollFetch, PollCompare, PollDone, repo
  <2>2. last' = last \/ last' = commit[Poll]
    BY <1>1 DEF PollLoad, PollFetch, PollCompare, PollDone
  <2>3. \/ commit' = commit \/ commit' = [commit EXCEPT ![Poll] = 0]
        \/ commit' = [commit EXCEPT ![Poll] = head]
    BY <1>1 DEF PollLoad, PollFetch, PollCompare, PollDone
  <2>6. \A w \in Workers : commit'[w] = commit[w] \/ commit'[w] = 0 \/ commit'[w] = head
    BY <2>3 DEF TypeOK
  <2>4. \A w \in Workers : commit'[w] <= head
    BY <1>0, <2>6
  <2>5. pc'[Poll] \in Looking => todo' = {}
    BY <1>1 DEF PollLoad, PollFetch, PollCompare, PollDone, Fresh, Looking, TypeOK
  <2> QED BY <1>0, <2>1, <2>2, <2>4, <2>5 DEF Fresh
<1>2. ASSUME NEW p \in Paths, PollNext(p) PROVE Fresh'
  <2>1. UNCHANGED <<head, last, latest, commit>> /\ pc[Poll] = "next"
    BY <1>2 DEF PollNext, repo, work
  <2>2. pc' = pc \/ pc' = [pc EXCEPT ![Poll] = "render"]
    BY <1>2 DEF PollNext, work
  <2>3. pc'[Poll] \notin Looking
    BY <2>1, <2>2 DEF Looking, TypeOK
  <2> QED BY <2>1, <2>3 DEF Fresh
<1>3. ASSUME NEW p \in Paths, SyncClaim(p) PROVE Fresh'
  BY <1>3 DEF SyncClaim, Fresh, TypeOK, repo, loop
<1>4. ASSUME NEW p \in Paths, SyncFetch(p) PROVE Fresh'
  BY <1>0, <1>4 DEF SyncFetch, Fresh, TypeOK, repo, loop
<1>5. ASSUME NEW p \in Paths, SyncRefuse(p) PROVE Fresh'
  BY <1>5 DEF SyncRefuse, Fresh, TypeOK, repo, loop
<1>6. ASSUME NEW w \in Workers, Render(w) \/ Timeout(w) PROVE Fresh'
  <2>1. UNCHANGED <<head, last, todo, commit, latest>>
    BY <1>6 DEF Render, Timeout, repo, loop
  <2>2. pc'[Poll] \in Looking => pc[Poll] \in Looking
    BY <1>6 DEF Render, Timeout, Looking, TypeOK
  <2> QED BY <2>1, <2>2 DEF Fresh
<1>7. ASSUME NEW w \in Workers, Record(w) PROVE Fresh'
  <2>1. /\ UNCHANGED <<head, todo, last>>
        /\ pc' = [pc EXCEPT ![w] = IF w = Poll THEN "next" ELSE "idle"]
    BY <1>7 DEF Record, repo, loop
  <2>2. commit' = commit \/ commit' = [commit EXCEPT ![w] = 0]
    BY <1>7, Zenon DEF Record
  <2>3. \A u \in Workers : commit'[u] <= head
    <3>1. \A u \in Workers : commit'[u] = commit[u] \/ commit'[u] = 0
      BY <2>2 DEF TypeOK
    <3> QED BY <1>0, <3>1
  <2>4. \A p \in Paths : latest'[p].commit = commit[w] \/ latest'[p] = latest[p]
    BY <1>7 DEF Record, TypeOK
  <2>5. pc'[Poll] \in Looking => pc[Poll] \in Looking
    BY <2>1 DEF Looking, TypeOK
  <2> QED BY <1>0, <2>1, <2>3, <2>4, <2>5 DEF Fresh
<1>8. CASE AgentApply \/ AgentFail \/ AgentLose
  <2>1. UNCHANGED <<head, last, todo, commit, latest>>
    BY <1>8 DEF AgentApply, AgentFail, AgentLose, repo, loop, work
  <2>2. pc'[Poll] = pc[Poll] \/ pc'[Poll] = "record"
    BY <1>8 DEF AgentApply, AgentFail, AgentLose, Answer, work
  <2> QED BY <2>1, <2>2 DEF Fresh, Looking
<1>9. ASSUME NEW paths \in SUBSET Paths, Push(paths) PROVE Fresh'
  <2>1. head' = head + 1 /\ UNCHANGED <<last, todo, pc, commit, latest>>
    BY <1>9 DEF Push, loop, work
  <2> QED BY <1>0, <2>1 DEF Fresh
<1>10. ASSUME NEW paths \in SUBSET Paths, NEW on \in BOOLEAN, SaveConfig(paths, on)
       PROVE  Fresh'
  BY <1>10 DEF SaveConfig, Fresh, repo, loop, work
<1>11. CASE Restart
  <2>1. last' <= head
    BY <1>0, <1>11 DEF Restart, Restored, TypeOK
  <2> QED BY <1>0, <1>11, <2>1 DEF Restart, Fresh, repo
<1>12. CASE UNCHANGED vars
  BY <1>12 DEF vars, repo, loop, work, Fresh
<1> QED
  BY <1>1, <1>2, <1>3, <1>4, <1>5, <1>6, <1>7, <1>8, <1>9, <1>10, <1>11, <1>12 DEF Next

\* A command for path p, and what the cluster has of p, is no newer than c.
UpTo(p, c) ==
  /\ applied[p] <= c
  /\ \A i \in 1..Len(queue) : queue[i].path = p => queue[i].commit <= c

\* The command of a sync is no older than those before it; while a sync goes
\* on, no other deployment of its path is as new.
Ordered ==
  /\ \A p \in Paths : UpTo(p, head)
  /\ \A p \in Paths : Deploying(p) => UpTo(p, commit[p])
  /\ \A i \in 1..Len(queue) : queue[i].by # Poll =>
       /\ applied[queue[i].path] <= queue[i].commit
       /\ \A j \in 1..(i - 1) : queue[j].path = queue[i].path => queue[j].commit <= queue[i].commit

LEMMA TailAt ==
  ASSUME NEW S, NEW s \in Seq(S), s # <<>>
  PROVE  /\ Len(s) \in Nat /\ Len(s) > 0 /\ Head(s) = s[1] /\ 1 \in 1..Len(s)
         /\ Len(Tail(s)) = Len(s) - 1
         /\ \A i \in 1..Len(Tail(s)) : i + 1 \in 1..Len(s) /\ Tail(s)[i] = s[i + 1]
  OBVIOUS

LEMMA AppendAt ==
  ASSUME NEW S, NEW s \in Seq(S), NEW e \in S
  PROVE  /\ Len(s) \in Nat
         /\ Len(Append(s, e)) = Len(s) + 1
         /\ Append(s, e)[Len(s) + 1] = e
         /\ \A i \in 1..Len(s) : Append(s, e)[i] = s[i]
  OBVIOUS

LEMMA CommandAt ==
  ASSUME TypeOK, NEW i \in 1..Len(queue)
  PROVE  queue[i].path \in Paths /\ queue[i].commit \in Nat /\ queue[i].stamp \in Nat
<1>1. queue[i] \in Commands
  BY DEF TypeOK
<1> QED BY <1>1, BoundsAssumption DEF Commands, Commits

LEMMA InitOrdered == Init => Ordered
<1> SUFFICES ASSUME Init PROVE Ordered
  OBVIOUS
<1>1. queue = <<>> /\ head = 1 /\ \A p \in Paths : applied[p] = 0 /\ pc[p] = "idle"
  BY WorkersNames DEF Init
<1> QED BY <1>1 DEF Ordered, UpTo, Deploying

\* No command is sent or taken; a deployment goes on or reads the newest commit.
LEMMA SameOrdered ==
  ASSUME TypeOK, Ordered, UNCHANGED <<queue, applied>>, head' \in Nat, head <= head',
         \A p \in Paths : Deploying(p)' =>
           \/ Deploying(p) /\ commit'[p] = commit[p]
           \/ commit'[p] = head
  PROVE  Ordered'
<1> USE NumbersOf
<1>1. ASSUME NEW p \in Paths PROVE UpTo(p, head)'
  <2>1. UpTo(p, head)
    BY DEF Ordered
  <2>2. applied[p] <= head'
    BY <2>1 DEF UpTo
  <2>3. ASSUME NEW i \in 1..Len(queue), queue[i].path = p PROVE queue[i].commit <= head'
    BY <2>1, <2>3, CommandAt DEF UpTo
  <2> QED BY <2>2, <2>3 DEF UpTo
<1>2. ASSUME NEW p \in Paths, Deploying(p)' PROVE UpTo(p, commit[p])'
  <2>1. CASE commit'[p] = commit[p] /\ UpTo(p, commit[p])
    BY <2>1 DEF UpTo
  <2>2. CASE commit'[p] = head /\ UpTo(p, head)
    BY <2>2 DEF UpTo
  <2> QED BY <1>2, <2>1, <2>2 DEF Ordered
<1>3. \A i \in 1..Len(queue') : queue'[i].by # Poll =>
        /\ applied'[queue'[i].path] <= queue'[i].commit
        /\ \A j \in 1..(i - 1) :
             queue'[j].path = queue'[i].path => queue'[j].commit <= queue'[i].commit
  BY DEF Ordered
<1> QED BY <1>1, <1>2, <1>3 DEF Ordered

\* The command sent, and where it stands.
LEMMA SentAt ==
  ASSUME TypeOK, NEW w \in Workers, Sent(w)
  PROVE  LET n == Len(queue) + 1 IN
         /\ Len(queue) \in Nat /\ Len(queue') = n
         /\ queue'[n].path = Target(w) /\ queue'[n].commit = commit[w]
         /\ queue'[n].stamp = stamp[w] /\ queue'[n].by = w
         /\ \A i \in 1..Len(queue) : queue'[i] = queue[i]
         /\ \A i \in 1..n : i \in 1..Len(queue) \/ i = n
<1> DEFINE cmd == [path |-> Target(w), commit |-> commit[w], stamp |-> stamp[w], by |-> w]
<1>1. cmd \in Commands /\ queue \in Seq(Commands)
  BY TargetIsPath DEF TypeOK, Commands
<1>2. queue' = Append(queue, cmd)
  BY DEF Sent
<1>3. /\ cmd.path = Target(w) /\ cmd.commit = commit[w]
      /\ cmd.stamp = stamp[w] /\ cmd.by = w
  OBVIOUS
<1> HIDE DEF cmd
<1> QED BY <1>1, <1>2, <1>3, AppendAt

\* A worker sends its command: if it is a sync it has its path to itself.
LEMMA SentOrdered ==
  ASSUME TypeOK, OneDeployPerPath, Fresh, Ordered, NEW w \in Workers, Sent(w)
  PROVE  Ordered'
<1> DEFINE n == Len(queue) + 1
<1>1. /\ pc[w] = "render" /\ pc' = [pc EXCEPT ![w] = "wait"]
      /\ UNCHANGED <<head, commit, applied>>
  BY DEF Sent
<1>2. /\ Len(queue) \in Nat /\ Len(queue') = n
      /\ queue'[n].path = Target(w) /\ queue'[n].commit = commit[w] /\ queue'[n].by = w
      /\ \A i \in 1..Len(queue) : queue'[i] = queue[i]
      /\ \A i \in 1..n : i \in 1..Len(queue) \/ i = n
  BY SentAt
<1> HIDE DEF n
<1>4. ASSUME NEW p \in Paths PROVE UpTo(p, head)'
  <2>1. UpTo(p, head) /\ commit[w] <= head
    BY DEF Ordered, Fresh
  <2> QED BY <1>1, <1>2, <2>1 DEF UpTo
<1>5. ASSUME NEW p \in Paths, Deploying(p)' PROVE UpTo(p, commit[p])'
  <2>1. p \in Workers /\ Deploying(p)
    BY <1>1, <1>5, WorkersNames DEF TypeOK, Deploying
  <2>2. UpTo(p, commit[p])
    BY <2>1 DEF Ordered
  <2>3. CASE p = w
    BY <1>1, <1>2, <2>2, <2>3, NumbersOf, WorkersNames DEF UpTo
  <2>4. CASE p # w
    <3>1. Busy(p) /\ Busy(w) /\ Target(p) = p
      BY <1>1, <2>1, WorkersNames DEF Busy, Target, Deploying
    <3>2. Target(w) # p
      BY <2>1, <2>4, <3>1 DEF OneDeployPerPath
    <3> QED BY <1>1, <1>2, <2>2, <3>2 DEF UpTo
  <2> QED BY <2>3, <2>4
<1>6. ASSUME NEW i \in 1..n, queue'[i].by # Poll
      PROVE  /\ applied[queue'[i].path] <= queue'[i].commit
             /\ \A j \in 1..(i - 1) :
                  queue'[j].path = queue'[i].path => queue'[j].commit <= queue'[i].commit
  <2>1. CASE i \in 1..Len(queue)
    <3>1. \A j \in 1..(i - 1) : j \in 1..Len(queue)
      BY <1>2, <2>1
    <3> QED BY <1>2, <1>6, <2>1, <3>1 DEF Ordered
  <2>2. CASE i = n
    <3>1. w \in Paths /\ Target(w) = w
      BY <1>2, <1>6, <2>2 DEF Workers, Target
    <3>2. UpTo(w, commit[w])
      BY <1>1, <3>1 DEF Ordered, Deploying
    <3>3. \A j \in 1..(i - 1) : j \in 1..Len(queue)
      BY <1>2, <2>2 DEF n
    <3> QED BY <1>2, <2>2, <3>1, <3>2, <3>3 DEF UpTo
  <2> QED BY <1>2, <2>1, <2>2
<1> QED BY <1>1, <1>2, <1>4, <1>5, <1>6 DEF Ordered

\* The commands that are left when the oldest is taken.
LEMMA TakenAt ==
  ASSUME TypeOK, Taken
  PROVE  /\ Len(queue) \in Nat /\ 1 \in 1..Len(queue) /\ Head(queue) = queue[1]
         /\ queue[1] \in Commands
         /\ Len(queue') = Len(queue) - 1
         /\ \A i \in 1..Len(queue') : i + 1 \in 1..Len(queue) /\ queue'[i] = queue[i + 1]
         /\ \A p \in Paths :
              applied'[p] = applied[p] \/ (queue[1].path = p /\ applied'[p] = queue[1].commit)
         /\ applied' = Applied(Head(queue)) => applied'[queue[1].path] = queue[1].commit
<1>1. queue \in Seq(Commands) /\ queue # <<>> /\ queue' = Tail(queue)
  BY DEF TypeOK, Taken
<1>2. /\ Len(queue) \in Nat /\ 1 \in 1..Len(queue) /\ Head(queue) = queue[1]
      /\ Len(queue') = Len(queue) - 1
      /\ \A i \in 1..Len(queue') : i + 1 \in 1..Len(queue) /\ queue'[i] = queue[i + 1]
  BY <1>1, TailAt
<1>3. queue[1] \in Commands
  BY <1>1, <1>2
<1>4. queue[1].path \in Paths
  BY <1>3 DEF Commands
<1>5. applied' = applied \/ applied' = [applied EXCEPT ![queue[1].path] = queue[1].commit]
  BY <1>2 DEF Taken, Applied
<1>6. ASSUME NEW p \in Paths
      PROVE  applied'[p] = applied[p] \/ (queue[1].path = p /\ applied'[p] = queue[1].commit)
  <2>1. CASE applied' = applied
    BY <2>1
  <2>2. CASE applied' = [applied EXCEPT ![queue[1].path] = queue[1].commit]
    BY <1>4, <2>2 DEF TypeOK
  <2> QED BY <1>5, <2>1, <2>2
<1>7. applied' = Applied(Head(queue)) => applied'[queue[1].path] = queue[1].commit
  BY <1>2, <1>4 DEF Applied, TypeOK
<1> QED BY <1>2, <1>3, <1>6, <1>7

\* The Agent takes the oldest command and applies it, or does not.
LEMMA TakenOrdered ==
  ASSUME TypeOK, Ordered, Taken
  PROVE  Ordered'
<1> USE NumbersOf
<1>0. /\ UNCHANGED <<head, commit>>
      /\ \A p \in Paths : Deploying(p)' => Deploying(p)
  BY WorkersNames DEF Taken, Deploying
<1>1. /\ Len(queue) \in Nat /\ 1 \in 1..Len(queue) /\ Head(queue) = queue[1]
      /\ Len(queue') = Len(queue) - 1
      /\ \A i \in 1..Len(queue') : i + 1 \in 1..Len(queue) /\ queue'[i] = queue[i + 1]
      /\ \A p \in Paths : applied'[p] = applied[p] \/ (queue[1].path = p /\ applied'[p] = queue[1].commit)
  BY TakenAt
<1>3. ASSUME NEW p \in Paths, NEW c \in Nat, UpTo(p, c)
      PROVE  /\ applied'[p] <= c
             /\ \A i \in 1..Len(queue') : queue'[i].path = p => queue'[i].commit <= c
  BY <1>1, <1>3 DEF UpTo
<1>4. \A p \in Paths : UpTo(p, head)'
  BY <1>0, <1>3 DEF Ordered, UpTo
<1>5. \A p \in Paths : Deploying(p)' => UpTo(p, commit[p])'
  <2> SUFFICES ASSUME NEW p \in Paths, Deploying(p)' PROVE UpTo(p, commit[p])'
    OBVIOUS
  <2>1. UpTo(p, commit[p]) /\ commit[p] \in Nat
    BY <1>0, WorkersNames DEF Ordered
  <2> QED BY <1>0, <1>3, <2>1 DEF UpTo
<1>6. ASSUME NEW i \in 1..Len(queue'), queue'[i].by # Poll
      PROVE  /\ applied'[queue'[i].path] <= queue'[i].commit
             /\ \A j \in 1..(i - 1) :
                  queue'[j].path = queue'[i].path => queue'[j].commit <= queue'[i].commit
  <2>1. i + 1 \in 1..Len(queue) /\ queue'[i] = queue[i + 1]
    BY <1>1
  <2>2. /\ applied[queue[i + 1].path] <= queue[i + 1].commit
        /\ \A j \in 1..i : queue[j].path = queue[i + 1].path => queue[j].commit <= queue[i + 1].commit
    BY <1>6, <2>1 DEF Ordered
  <2>3. 1 \in 1..i /\ queue[i + 1].path \in Paths
    BY <2>1, CommandAt
  <2>4. applied'[queue[i + 1].path] <= queue[i + 1].commit
    BY <1>1, <2>2, <2>3
  <2>5. \A j \in 1..(i - 1) : j + 1 \in 1..i /\ queue'[j] = queue[j + 1]
    BY <1>1
  <2> QED BY <2>1, <2>2, <2>4, <2>5
<1> QED BY <1>4, <1>5, <1>6 DEF Ordered

\* After a restart the queue is empty or holds the command that was its first.
LEMMA RestartAt ==
  ASSUME TypeOK, Restart
  PROVE  \/ Len(queue') = 0
         \/ /\ Len(queue') = 1 /\ 1 \in 1..Len(queue) /\ queue'[1] = queue[1]
            /\ queue[1].path \in forgotten'
<1>1. CASE queue' = <<>>
  BY <1>1
<1>2. CASE \E cmd \in Held : queue' = <<cmd>> /\ cmd.path \in forgotten'
  <2>1. PICK cmd \in Held : queue' = <<cmd>> /\ cmd.path \in forgotten'
    BY <1>2
  <2>2. queue # <<>> /\ cmd = Head(queue)
    BY <2>1 DEF Held
  <2>3. 1 \in 1..Len(queue) /\ cmd = queue[1]
    BY <2>2, TailAt DEF TypeOK
  <2> QED BY <2>1, <2>3
<1> QED BY <1>1, <1>2 DEF Restart

LEMMA NextOrdered ==
  TypeOK /\ OneDeployPerPath /\ Fresh /\ Ordered /\ [Next]_vars => Ordered'
<1> SUFFICES ASSUME TypeOK, OneDeployPerPath, Fresh, Ordered, [Next]_vars PROVE Ordered'
  OBVIOUS
<1> USE WorkersNames, NumbersOf
<1>0. head' \in Nat
  <2>1. TypeOK'
    BY NextTypeOK
  <2> QED BY <2>1, BoundsAssumption DEF TypeOK
<1>1. CASE Quiet
  <2>1. \A p \in Paths : Deploying(p)' => Deploying(p) /\ commit'[p] = commit[p]
    BY <1>1 DEF Quiet, Still
  <2> QED BY <1>0, <1>1, <2>1, SameOrdered DEF Quiet
<1>2. ASSUME NEW w \in Workers, Begun(w) PROVE Ordered'
  <2>1. \A p \in Paths : p # w => Deploying(p)' = Deploying(p) /\ commit'[p] = commit[p]
    BY <1>2 DEF Begun, Still, Deploying
  <2>2. w \in Paths => commit'[w] = head
    BY <1>2 DEF Begun
  <2> QED BY <1>0, <1>2, <2>1, <2>2, SameOrdered DEF Begun
<1>3. ASSUME NEW w \in Workers, Sent(w) PROVE Ordered'
  BY <1>3, SentOrdered
<1>4. ASSUME NEW w \in Workers, Ended(w) PROVE Ordered'
  <2>1. \A p \in Paths : Deploying(p)' => Deploying(p) /\ commit'[p] = commit[p]
    BY <1>4 DEF Ended, Deploying, TypeOK
  <2> QED BY <1>0, <1>4, <2>1, SameOrdered DEF Ended
<1>5. ASSUME NEW w \in Workers, Record(w) PROVE Ordered'
  <2>1. /\ UNCHANGED <<queue, applied, head>>
        /\ pc' = [pc EXCEPT ![w] = IF w = Poll THEN "next" ELSE "idle"]
    BY <1>5 DEF Record, repo
  <2>2. commit' = commit \/ commit' = [commit EXCEPT ![w] = 0]
    BY <1>5, Zenon DEF Record
  <2>3. \A p \in Paths : Deploying(p)' => Deploying(p) /\ commit'[p] = commit[p]
    BY <2>1, <2>2 DEF TypeOK, Deploying
  <2> QED BY <1>0, <2>1, <2>3, SameOrdered
<1>6. CASE Taken
  BY <1>6, TakenOrdered
<1>7. CASE Restart
  <2>1. UNCHANGED <<head, applied>> /\ \A p \in Paths : ~Deploying(p)'
    BY <1>7 DEF Restart, repo, Deploying
  <2>2. CASE Len(queue') = 0
    BY <2>1, <2>2 DEF Ordered, UpTo
  <2>3. CASE Len(queue') = 1 /\ 1 \in 1..Len(queue) /\ queue'[1] = queue[1]
    BY <2>1, <2>3 DEF Ordered, UpTo
  <2> QED BY <1>7, <2>2, <2>3, RestartAt
<1> QED BY <1>1, <1>2, <1>3, <1>4, <1>5, <1>6, <1>7, Kinds

LEMMA AppliedStep ==
  ASSUME TypeOK, Ordered, [Next]_vars, NEW p \in Paths, applied'[p] < applied[p]
  PROVE  Head(queue).by = Poll
<1> USE NumbersOf
<1>1. CASE Taken
  <2>1. 1 \in 1..Len(queue) /\ Head(queue) = queue[1]
    BY <1>1, TakenAt
  <2>2. queue[1].path = p /\ applied'[p] = queue[1].commit
    BY <1>1, TakenAt
  <2>3. queue[1].by # Poll => applied[p] <= queue[1].commit
    BY <2>1, <2>2 DEF Ordered
  <2>4. queue[1].commit \in Nat
    BY <2>1, CommandAt
  <2> QED BY <2>1, <2>2, <2>3, <2>4
<1>2. CASE ~Taken
  <2>1. applied' = applied
    BY <1>2, Kinds DEF Quiet, Begun, Sent, Ended, Record, Restart
  <2> QED BY <2>1
<1> QED BY <1>1, <1>2

(* However late its command is executed, a manual sync never takes a path  *)
(* back to an older commit, for any paths, commits, restarts and failures: *)
(* it reads the commit when nobody else can send a command for its path,   *)
(* and the Agent executes commands in the order they were sent.            *)
THEOREM NoSyncRollsBack == Spec => SyncNeverRollsBack
<1> DEFINE IInv == TypeOK /\ OneDeployPerPath /\ Fresh /\ Ordered
<1>1. Init => IInv
  BY InitTypeOK, InitExclusive, InitFresh, InitOrdered
<1>2. IInv /\ [Next]_vars => IInv'
  BY NextTypeOK, NextExclusive, NextFresh, NextOrdered
<1>3. IInv /\ [Next]_vars => [\A p \in Paths : applied'[p] < applied[p] => Head(queue).by = Poll]_vars
  BY AppliedStep
<1> QED BY <1>1, <1>2, <1>3, PTL DEF Spec, SyncNeverRollsBack

-----------------------------------------------------------------------------
(* What a record shows. *)

\* Deployments are dated in the order they begin, and so are the records.
Dated ==
  /\ \A p \in Paths : latest[p].at <= stamps
  /\ \A w \in Workers : Deploying(w) => stamp[w] <= stamps /\ latest[Target(w)].at < stamp[w]
  /\ \A w, v \in Workers : Deploying(w) /\ Deploying(v) /\ stamp[w] = stamp[v] => w = v
  /\ \A i \in 1..Len(queue) :
       /\ queue[i].stamp <= stamps
       /\ \A w \in Workers : pc[w] = "render" => queue[i].stamp # stamp[w]

\* No command after the i-th is for the path.
LastOf(p, i) == \A j \in 1..Len(queue) : i < j => queue[j].path # p

\* The worker's command is the last one for its path, and one that was
\* answered as applied is what the cluster has.
Own ==
  /\ \A w \in Workers : \A i \in 1..Len(queue) :
       pc[w] \in {"wait", "record"} /\ queue[i].stamp = stamp[w] =>
         /\ queue[i].path = Target(w)
         /\ queue[i].commit = commit[w]
         /\ LastOf(Target(w), i)
  /\ \A w \in Workers : outcome[w] = "success" =>
       /\ pc[w] = "record"
       /\ applied[Target(w)] = commit[w]
       /\ \A i \in 1..Len(queue) : queue[i].path # Target(w)

\* The worker has sent the command and has not written its record.
Awaits(w, cmd) ==
  pc[w] \in {"wait", "record"} /\ Target(w) = cmd.path /\ stamp[w] = cmd.stamp

\* A command that may still change the cluster is awaited, or its path is not
\* shown as in sync.
Shown ==
  \A i \in 1..Len(queue) :
    \/ queue[i].path \in forgotten
    \/ latest[queue[i].path].status # "success"
    \/ \E w \in Workers : Awaits(w, queue[i])

LEMMA InitShown == Init => Dated /\ Own /\ Shown
<1> SUFFICES ASSUME Init PROVE Dated /\ Own /\ Shown
  OBVIOUS
<1>1. /\ queue = <<>> /\ stamps = 0
      /\ \A p \in Paths : latest[p].at = 0
      /\ \A w \in Workers : pc[w] = "idle" /\ outcome[w] = "pending"
  BY DEF Init
<1>2. Len(queue) = 0
  BY <1>1
<1> QED BY <1>1, <1>2 DEF Dated, Own, Shown, Deploying

LEMMA NextDated == TypeOK /\ OneDeployPerPath /\ Dated /\ [Next]_vars => Dated'
<1> SUFFICES ASSUME TypeOK, OneDeployPerPath, Dated, [Next]_vars PROVE Dated'
  OBVIOUS
<1> USE WorkersNames, NumbersOf
<1>0. /\ \A w \in Workers : Deploying(w) => Busy(w)
      /\ \A w \in Workers : Target(w) \in Paths
      /\ \A i \in 1..Len(queue) : queue[i].stamp \in Nat
  BY TargetIsPath, CommandAt DEF Deploying, Busy
<1>1. CASE Quiet
  <2>1. \A w \in Workers : Deploying(w)' => Deploying(w) /\ Still(w)
    BY <1>1 DEF Quiet
  <2>2. \A w \in Workers : pc'[w] = "render" => Deploying(w)'
    BY DEF Deploying
  <2>3. UNCHANGED <<queue, latest, stamps>>
    BY <1>1 DEF Quiet
  <2>4. \A w \in Workers : Deploying(w)' =>
          stamp'[w] <= stamps' /\ latest'[Target(w)'].at < stamp'[w]
    BY <2>1, <2>3 DEF Dated, Still
  <2>5. \A w, v \in Workers : Deploying(w)' /\ Deploying(v)' /\ stamp'[w] = stamp'[v] => w = v
    BY <2>1 DEF Dated, Still
  <2>6. \A i \in 1..Len(queue) : \A w \in Workers : pc'[w] = "render" => queue[i].stamp # stamp'[w]
    BY <2>1, <2>2 DEF Dated, Still
  <2> QED BY <2>3, <2>4, <2>5, <2>6 DEF Dated
<1>2. ASSUME NEW w \in Workers, Begun(w) PROVE Dated'
  <2>1. /\ UNCHANGED <<queue, latest>>
        /\ stamps' = stamps + 1 /\ stamp'[w] = stamps + 1
        /\ \A v \in Workers : v # w => Still(v)
    BY <1>2 DEF Begun
  <2>2. \A v \in Workers : v # w => Deploying(v)' = Deploying(v) /\ stamp'[v] = stamp[v]
    BY <2>1 DEF Still, Deploying
  <2>3. TypeOK'
    BY NextTypeOK
  <2>4. Target(w)' \in Paths
    BY <2>3 DEF TypeOK, Target, Workers
  <2>5. \A v \in Workers : Deploying(v)' =>
          stamp'[v] <= stamps' /\ latest'[Target(v)'].at < stamp'[v]
    BY <2>1, <2>2, <2>4 DEF Dated, Still
  <2>6. \A v, u \in Workers : Deploying(v)' /\ Deploying(u)' /\ stamp'[v] = stamp'[u] => v = u
    BY <2>1, <2>2 DEF Dated
  <2>7. ASSUME NEW i \in 1..Len(queue), NEW v \in Workers, pc'[v] = "render"
        PROVE  queue[i].stamp # stamp'[v]
    <3>1. CASE v = w
      BY <1>0, <2>1, <3>1 DEF Dated
    <3>2. CASE v # w
      BY <2>1, <2>7, <3>2 DEF Dated, Still
    <3> QED BY <3>1, <3>2
  <2>8. \A i \in 1..Len(queue) : queue[i].stamp <= stamps'
    BY <1>0, <2>1 DEF Dated
  <2>9. \A p \in Paths : latest'[p].at <= stamps'
    BY <2>1 DEF Dated
  <2> QED BY <2>1, <2>5, <2>6, <2>7, <2>8, <2>9 DEF Dated
<1>3. ASSUME NEW w \in Workers, Sent(w) PROVE Dated'
  <2>1. /\ pc[w] = "render" /\ pc' = [pc EXCEPT ![w] = "wait"]
        /\ UNCHANGED <<pollPath, stamp, latest, stamps>>
    BY <1>3 DEF Sent
  <2>2. \A v \in Workers : Deploying(v)' = Deploying(v) /\ Target(v)' = Target(v)
    BY <2>1 DEF Deploying, Target, TypeOK
  <2>3. \A v \in Workers : pc'[v] = "render" => pc[v] = "render" /\ v # w
    BY <2>1 DEF TypeOK
  <2>4. ASSUME NEW i \in 1..Len(queue')
        PROVE  /\ queue'[i].stamp <= stamps
               /\ \A v \in Workers : pc'[v] = "render" => queue'[i].stamp # stamp[v]
    <3>1. CASE i \in 1..Len(queue)
      BY <1>3, <2>3, <3>1, SentAt DEF Dated
    <3>2. CASE queue'[i].stamp = stamp[w]
      BY <2>1, <2>3, <3>2 DEF Dated, Deploying
    <3> QED BY <1>3, <3>1, <3>2, SentAt
  <2> QED BY <2>1, <2>2, <2>4 DEF Dated
<1>4. ASSUME NEW w \in Workers, Ended(w) PROVE Dated'
  <2>1. /\ pc[w] \in {"render", "wait"} /\ pc' = [pc EXCEPT ![w] = "record"]
        /\ UNCHANGED <<queue, pollPath, stamp, latest, stamps>>
    BY <1>4 DEF Ended
  <2>2. \A v \in Workers : Deploying(v)' = Deploying(v) /\ Target(v)' = Target(v)
    BY <2>1 DEF Deploying, Target, TypeOK
  <2>3. \A v \in Workers : pc'[v] = "render" => pc[v] = "render"
    BY <2>1 DEF TypeOK
  <2> QED BY <2>1, <2>2, <2>3 DEF Dated
<1>5. ASSUME NEW w \in Workers, Record(w) PROVE Dated'
  <2>1. /\ UNCHANGED <<queue, pollPath, stamps>>
        /\ pc[w] = "record"
        /\ pc' = [pc EXCEPT ![w] = IF w = Poll THEN "next" ELSE "idle"]
        /\ stamp' = [stamp EXCEPT ![w] = 0]
    BY <1>5 DEF Record
  <2>2. \A v \in Workers : Deploying(v)' =>
          Deploying(v) /\ v # w /\ pc'[v] = pc[v] /\ stamp'[v] = stamp[v] /\ Target(v)' = Target(v)
    BY <2>1 DEF Deploying, Target, TypeOK
  <2>3. \A p \in Paths : \/ latest'[p] = latest[p]
                         \/ p = Target(w) /\ latest'[p].at = stamp[w]
    <3>1. ASSUME NEW p \in Paths, NEW r, NEW t \in Paths, latest' = [latest EXCEPT ![t] = r]
          PROVE  latest'[p] = latest[p] \/ (p = t /\ latest'[p] = r)
      BY <3>1 DEF TypeOK
    <3> DEFINE new == [commit |-> commit[w], status |-> outcome[w], at |-> stamp[w]]
               t == Target(w)
    <3>2. t \in Paths /\ new.at = stamp[w]
      BY <1>0
    <3>3. \/ latest' = latest
          \/ latest' = [latest EXCEPT ![t] = new]
          \/ latest' = [latest EXCEPT ![t] = latest[t]]
      BY <1>5 DEF Record
    <3> HIDE DEF new, t
    <3>4. \A p \in Paths : latest'[p] = latest[p] \/ (p = t /\ latest'[p] = new)
      BY <3>1, <3>2, <3>3
    <3> QED BY <3>2, <3>4 DEF t
  <2>4. Deploying(w)
    BY <2>1 DEF Deploying
  <2>5. \A p \in Paths : latest'[p].at <= stamps
    BY <2>3, <2>4 DEF Dated
  <2>6. ASSUME NEW v \in Workers, Deploying(v)'
        PROVE  stamp'[v] <= stamps /\ latest'[Target(v)'].at < stamp'[v]
    <3>1. Target(v) # Target(w)
      BY <1>0, <2>2, <2>4, <2>6 DEF OneDeployPerPath
    <3>2. latest'[Target(v)] = latest[Target(v)]
      BY <1>0, <2>3, <3>1
    <3> QED BY <2>2, <2>6, <3>2 DEF Dated
  <2>7. \A v, u \in Workers : Deploying(v)' /\ Deploying(u)' /\ stamp'[v] = stamp'[u] => v = u
    BY <2>2 DEF Dated
  <2>8. \A i \in 1..Len(queue) : \A v \in Workers : pc'[v] = "render" => queue[i].stamp # stamp'[v]
    BY <2>2 DEF Dated, Deploying
  <2>9. \A i \in 1..Len(queue) : queue[i].stamp <= stamps
    BY DEF Dated
  <2> QED BY <2>1, <2>5, <2>6, <2>7, <2>8, <2>9 DEF Dated
<1>6. CASE Taken
  <2>1. UNCHANGED <<pollPath, stamp, latest, stamps>>
    BY <1>6 DEF Taken
  <2>2. \A w \in Workers : pc'[w] = pc[w] \/ (pc[w] = "wait" /\ pc'[w] = "record")
    BY <1>6 DEF Taken
  <2>3. \A w \in Workers : Deploying(w)' = Deploying(w) /\ Target(w)' = Target(w)
    BY <2>1, <2>2 DEF Deploying, Target
  <2>4. \A w \in Workers : pc'[w] = "render" => pc[w] = "render"
    BY <2>2
  <2>5. \A i \in 1..Len(queue') : i + 1 \in 1..Len(queue) /\ queue'[i] = queue[i + 1]
    BY <1>6, TakenAt
  <2>6. \A i \in 1..Len(queue') :
          /\ queue'[i].stamp <= stamps
          /\ \A w \in Workers : pc'[w] = "render" => queue'[i].stamp # stamp[w]
    BY <2>4, <2>5 DEF Dated
  <2> QED BY <2>1, <2>3, <2>6 DEF Dated
<1>7. CASE Restart
  <2>1. UNCHANGED <<latest, stamps>> /\ \A w \in Workers : ~Deploying(w)' /\ pc'[w] # "render"
    BY <1>7 DEF Restart, Deploying
  <2>2. \A i \in 1..Len(queue') : i \in 1..Len(queue) /\ queue'[i] = queue[i]
    BY <1>7, RestartAt
  <2> QED BY <2>1, <2>2 DEF Dated
<1> QED BY <1>1, <1>2, <1>3, <1>4, <1>5, <1>6, <1>7, Kinds

\* The commands stay, and so does whoever has sent or answered one.
LEMMA SameOwn ==
  ASSUME TypeOK, Own, UNCHANGED <<queue, applied>>,
         \A w \in Workers : pc'[w] \in {"wait", "record"} =>
           \/ pc[w] \in {"wait", "record"} /\ stamp'[w] = stamp[w]
              /\ commit'[w] = commit[w] /\ Target(w)' = Target(w)
           \/ \A i \in 1..Len(queue) : queue[i].stamp # stamp'[w],
         \A w \in Workers : outcome'[w] = "success" =>
           /\ outcome[w] = "success" /\ pc'[w] = pc[w]
           /\ commit'[w] = commit[w] /\ Target(w)' = Target(w)
  PROVE  Own'
<1>1. \A w \in Workers : \A i \in 1..Len(queue) :
        pc'[w] \in {"wait", "record"} /\ queue[i].stamp = stamp'[w] =>
          /\ queue[i].path = Target(w)'
          /\ queue[i].commit = commit'[w]
          /\ LastOf(Target(w), i)'
  BY DEF Own, LastOf
<1>2. \A w \in Workers : outcome'[w] = "success" =>
        /\ pc'[w] = "record"
        /\ applied[Target(w)'] = commit'[w]
        /\ \A i \in 1..Len(queue) : queue[i].path # Target(w)'
  BY DEF Own
<1> QED BY <1>1, <1>2 DEF Own

LEMMA NextOwn ==
  TypeOK /\ OneDeployPerPath /\ Dated /\ Own /\ [Next]_vars => Own'
<1> SUFFICES ASSUME TypeOK, OneDeployPerPath, Dated, Own, [Next]_vars PROVE Own'
  OBVIOUS
<1> USE WorkersNames, NumbersOf
<1>0. /\ \A w \in Workers : pc[w] \in {"render", "wait", "record"} => Deploying(w) /\ Busy(w)
      /\ \A w \in Workers : Target(w) \in Paths
      /\ \A w \in Workers : outcome[w] = "success" => pc[w] = "record"
  BY TargetIsPath DEF Deploying, Busy, Own
<1>1. CASE Quiet
  <2>1. \A w \in Workers : Deploying(w)' => Deploying(w) /\ Still(w)
    BY <1>1 DEF Quiet
  <2>2. \A w \in Workers : Deploying(w) => Still(w)
    BY <1>1 DEF Quiet
  <2>3. \A w \in Workers : pc'[w] \in {"wait", "record"} =>
           pc[w] \in {"wait", "record"} /\ stamp'[w] = stamp[w]
           /\ commit'[w] = commit[w] /\ Target(w)' = Target(w)
    BY <2>1 DEF Deploying, Still
  <2>4. \A w \in Workers : outcome'[w] = "success" =>
           outcome[w] = "success" /\ pc'[w] = pc[w]
           /\ commit'[w] = commit[w] /\ Target(w)' = Target(w)
    BY <1>0, <1>1, <2>2 DEF Quiet, Still
  <2> QED BY <1>1, <2>3, <2>4, SameOwn DEF Quiet
<1>2. ASSUME NEW w \in Workers, Begun(w) PROVE Own'
  <2>1. /\ UNCHANGED <<queue, applied, outcome>> /\ ~Deploying(w) /\ pc'[w] = "render"
        /\ \A v \in Workers : v # w => Still(v)
    BY <1>2 DEF Begun
  <2>2. \A v \in Workers : pc'[v] \in {"wait", "record"} =>
           pc[v] \in {"wait", "record"} /\ stamp'[v] = stamp[v]
           /\ commit'[v] = commit[v] /\ Target(v)' = Target(v)
    BY <2>1 DEF Still
  <2>3. outcome'[w] # "success"
    BY <1>0, <2>1
  <2>4. \A v \in Workers : outcome'[v] = "success" =>
           outcome[v] = "success" /\ pc'[v] = pc[v]
           /\ commit'[v] = commit[v] /\ Target(v)' = Target(v)
    BY <2>1, <2>3 DEF Still
  <2> QED BY <2>1, <2>2, <2>4, SameOwn
<1>3. ASSUME NEW w \in Workers, Sent(w) PROVE Own'
  <2> DEFINE n == Len(queue) + 1
  <2>1. /\ pc[w] = "render" /\ pc' = [pc EXCEPT ![w] = "wait"]
        /\ UNCHANGED <<pollPath, commit, stamp, outcome, applied>>
    BY <1>3 DEF Sent
  <2>2. /\ Len(queue) \in Nat /\ Len(queue') = n
        /\ queue'[n].path = Target(w) /\ queue'[n].commit = commit[w] /\ queue'[n].stamp = stamp[w]
        /\ \A i \in 1..Len(queue) : queue'[i] = queue[i]
        /\ \A i \in 1..n : i \in 1..Len(queue) \/ i = n
    BY <1>3, SentAt
  <2>3. \A v \in Workers : Target(v)' = Target(v)
    BY <2>1 DEF Target
  <2>4. \A v \in Workers : v # w /\ pc[v] \in {"wait", "record"} =>
          Target(v) # Target(w) /\ stamp[v] # stamp[w]
    BY <1>0, <2>1 DEF OneDeployPerPath, Dated
  <2>5. \A i \in 1..Len(queue) : queue[i].stamp # stamp[w]
    BY <2>1 DEF Dated
  <2>6. \A v \in Workers : v # w => pc'[v] = pc[v]
    BY <2>1 DEF TypeOK
  <2>7. n \in Nat /\ \A j \in 1..n : n < j => FALSE
    BY <2>2
  <2> HIDE DEF n
  <2>8. ASSUME NEW v \in Workers, NEW i \in 1..n,
               pc'[v] \in {"wait", "record"}, queue'[i].stamp = stamp[v]
        PROVE  queue'[i].path = Target(v) /\ queue'[i].commit = commit[v]
               /\ \A j \in 1..n : i < j => queue'[j].path # Target(v)
    <3>1. CASE v = w
      <4>1. i = n
        BY <2>2, <2>5, <2>8, <3>1
      <4> QED BY <2>2, <2>7, <3>1, <4>1
    <3>2. CASE v # w
      <4>1. pc[v] \in {"wait", "record"}
        BY <2>6, <2>8, <3>2
      <4>2. i \in 1..Len(queue)
        BY <2>2, <2>4, <2>8, <3>2, <4>1
      <4>3. queue[i].path = Target(v) /\ queue[i].commit = commit[v] /\ LastOf(Target(v), i)
        BY <2>2, <2>8, <4>1, <4>2 DEF Own
      <4>4. \A j \in 1..n : i < j => queue'[j].path # Target(v)
        BY <2>2, <2>4, <3>2, <4>1, <4>3 DEF LastOf
      <4> QED BY <2>2, <4>2, <4>3, <4>4
    <3> QED BY <3>1, <3>2
  <2>9. ASSUME NEW v \in Workers, outcome[v] = "success"
        PROVE  /\ pc'[v] = "record" /\ applied[Target(v)] = commit[v]
               /\ \A i \in 1..n : queue'[i].path # Target(v)
    <3>1. pc[v] = "record" /\ v # w
      BY <1>0, <2>1, <2>9
    <3> QED BY <2>2, <2>4, <2>6, <2>9, <3>1 DEF Own
  <2> QED BY <2>1, <2>2, <2>3, <2>8, <2>9 DEF Own, LastOf
<1>4. ASSUME NEW w \in Workers, Ended(w) PROVE Own'
  <2>1. /\ pc[w] \in {"render", "wait"} /\ pc' = [pc EXCEPT ![w] = "record"]
        /\ UNCHANGED <<queue, applied, pollPath, commit, stamp>>
        /\ outcome' = outcome \/ outcome' = [outcome EXCEPT ![w] = "failed"]
    BY <1>4 DEF Ended
  <2>2. /\ \A v \in Workers : Target(v)' = Target(v)
        /\ \A v \in Workers : v # w => pc'[v] = pc[v]
    BY <2>1 DEF Target, TypeOK
  <2>3. \A v \in Workers : pc'[v] \in {"wait", "record"} =>
           \/ pc[v] \in {"wait", "record"}
           \/ \A i \in 1..Len(queue) : queue[i].stamp # stamp[v]
    BY <2>1, <2>2 DEF Dated
  <2>4. \A v \in Workers : outcome'[v] = "success" => outcome[v] = "success" /\ v # w
    BY <1>0, <2>1 DEF TypeOK
  <2> QED BY <2>1, <2>2, <2>3, <2>4, SameOwn
<1>5. ASSUME NEW w \in Workers, Record(w) PROVE Own'
  <2>1. /\ UNCHANGED <<queue, applied, pollPath>>
        /\ pc' = [pc EXCEPT ![w] = IF w = Poll THEN "next" ELSE "idle"]
        /\ stamp' = [stamp EXCEPT ![w] = 0]
        /\ outcome' = [outcome EXCEPT ![w] = "pending"]
    BY <1>5 DEF Record
  <2>2. commit' = commit \/ commit' = [commit EXCEPT ![w] = 0]
    BY <1>5, Zenon DEF Record
  <2>3. \A v \in Workers : v # w =>
          pc'[v] = pc[v] /\ stamp'[v] = stamp[v] /\ outcome'[v] = outcome[v] /\ commit'[v] = commit[v]
    BY <2>1, <2>2 DEF TypeOK
  <2>4. \A v \in Workers : Target(v)' = Target(v)
    BY <2>1 DEF Target
  <2>5. pc'[w] \notin {"wait", "record"} /\ outcome'[w] # "success"
    BY <2>1 DEF TypeOK
  <2> QED BY <2>1, <2>3, <2>4, <2>5, SameOwn
<1>6. CASE Taken
  <2>1. UNCHANGED <<pollPath, commit, stamp>>
    BY <1>6 DEF Taken
  <2>2. /\ Len(queue) \in Nat /\ 1 \in 1..Len(queue) /\ Head(queue) = queue[1]
        /\ queue[1].path \in Paths
        /\ Len(queue') = Len(queue) - 1
        /\ \A i \in 1..Len(queue') : i + 1 \in 1..Len(queue) /\ queue'[i] = queue[i + 1]
        /\ \A p \in Paths :
             applied'[p] = applied[p] \/ (queue[1].path = p /\ applied'[p] = queue[1].commit)
        /\ applied' = Applied(Head(queue)) => applied'[queue[1].path] = queue[1].commit
    BY <1>6, TakenAt DEF Commands
  <2>3. \A w \in Workers : Target(w)' = Target(w)
    BY <2>1 DEF Target
  <2>4. \A w \in Workers : pc'[w] \in {"wait", "record"} => pc[w] \in {"wait", "record"}
    BY <1>6 DEF Taken
  <2>5. ASSUME NEW w \in Workers, NEW i \in 1..Len(queue'),
               pc'[w] \in {"wait", "record"}, queue'[i].stamp = stamp[w]
        PROVE  queue'[i].path = Target(w) /\ queue'[i].commit = commit[w] /\ LastOf(Target(w), i)'
    <3>1. i + 1 \in 1..Len(queue) /\ queue'[i] = queue[i + 1]
      BY <2>2
    <3>2. /\ queue[i + 1].path = Target(w) /\ queue[i + 1].commit = commit[w]
          /\ LastOf(Target(w), i + 1)
      BY <2>4, <2>5, <3>1 DEF Own
    <3>3. \A j \in 1..Len(queue') : i < j => j + 1 \in 1..Len(queue) /\ i + 1 < j + 1
      BY <2>2
    <3> QED BY <2>2, <2>3, <3>1, <3>2, <3>3 DEF LastOf
  <2>6. ASSUME NEW w \in Workers, outcome'[w] = "success"
        PROVE  /\ pc'[w] = "record" /\ applied'[Target(w)] = commit[w]
               /\ \A i \in 1..Len(queue') : queue'[i].path # Target(w)
    <3>1. CASE pc'[w] = pc[w] /\ outcome'[w] = outcome[w]
      <4>1. /\ pc[w] = "record" /\ applied[Target(w)] = commit[w]
            /\ \A i \in 1..Len(queue) : queue[i].path # Target(w)
        BY <2>6, <3>1 DEF Own
      <4> QED BY <1>0, <2>2, <3>1, <4>1
    <3>2. CASE /\ pc[w] = "wait" /\ pc'[w] = "record" /\ stamp[w] = Head(queue).stamp
               /\ outcome'[w] = "success" => applied' = Applied(Head(queue))
      <4>1. queue[1].path = Target(w) /\ queue[1].commit = commit[w] /\ LastOf(Target(w), 1)
        BY <2>2, <3>2 DEF Own
      <4>2. applied'[Target(w)] = commit[w]
        BY <2>2, <2>6, <3>2, <4>1
      <4>3. \A i \in 1..Len(queue') : 1 < i + 1
        BY <2>2
      <4> QED BY <2>2, <3>2, <4>1, <4>2, <4>3 DEF LastOf
    <3> QED BY <1>6, <3>1, <3>2 DEF Taken
  <2> QED BY <2>1, <2>3, <2>5, <2>6 DEF Own
<1>7. CASE Restart
  <2>1. \A w \in Workers : pc'[w] = "idle" /\ outcome'[w] = "pending"
    BY <1>7 DEF Restart
  <2> QED BY <2>1 DEF Own
<1> QED BY <1>1, <1>2, <1>3, <1>4, <1>5, <1>6, <1>7, Kinds

\* What Record(w) does to the record of its path.
LEMMA RecordAt ==
  ASSUME TypeOK, Dated, NEW w \in Workers, Record(w)
  PROVE  /\ \A p \in Paths : p # Target(w) =>
              latest'[p] = latest[p] /\ (p \in forgotten' <=> p \in forgotten)
         /\ \/ latest' = latest /\ Target(w) \in forgotten'
            \/ /\ latest'[Target(w)].status = outcome[w]
               /\ outcome[w] # "success" \/ Lags(Target(w), Seen, commit[w]) =>
                    forgotten' = forgotten
<1> DEFINE t == Target(w)
           new == [commit |-> commit[w], status |-> outcome[w], at |-> stamp[w]]
<1>1. t \in Paths
  BY TargetIsPath
<1>2. latest[t].at < stamp[w]
  <2>1. Deploying(w)
    BY DEF Record, Deploying
  <2> QED BY <2>1 DEF Dated
<1>3. \/ latest' = latest /\ forgotten' = forgotten \cup {t}
      \/ /\ latest' = [latest EXCEPT ![t] = new]
         /\ forgotten' = IF outcome[w] = "success" /\ ~Lags(t, Seen, commit[w])
                         THEN forgotten \ {t} ELSE forgotten
  BY <1>2 DEF Record
<1>4. new.status = outcome[w]
  OBVIOUS
<1> HIDE DEF t, new
<1>5. CASE latest' = latest /\ forgotten' = forgotten \cup {t}
  BY <1>5 DEF t
<1>6. CASE /\ latest' = [latest EXCEPT ![t] = new]
           /\ forgotten' = IF outcome[w] = "success" /\ ~Lags(t, Seen, commit[w])
                           THEN forgotten \ {t} ELSE forgotten
  <2>1. /\ latest'[t] = new
        /\ \A p \in Paths : p # t => latest'[p] = latest[p]
    BY <1>1, <1>6 DEF TypeOK
  <2>2. \A p \in Paths : p # t => (p \in forgotten' <=> p \in forgotten)
    BY <1>6
  <2>3. outcome[w] # "success" \/ Lags(t, Seen, commit[w]) => forgotten' = forgotten
    BY <1>6
  <2> QED BY <1>4, <2>1, <2>2, <2>3 DEF t
<1> QED BY <1>3, <1>5, <1>6

LEMMA NextShown ==
  TypeOK /\ OneDeployPerPath /\ Dated /\ Own /\ Shown /\ [Next]_vars => Shown'
<1> SUFFICES ASSUME TypeOK, OneDeployPerPath, Dated, Own, Shown, [Next]_vars PROVE Shown'
  OBVIOUS
<1> USE WorkersNames
<1>0. \A i \in 1..Len(queue) : queue[i].path \in Paths
  BY CommandAt
<1>1. ASSUME UNCHANGED <<queue, latest>>, forgotten \subseteq forgotten',
             \A w \in Workers : pc[w] \in {"wait", "record"} =>
               pc'[w] \in {"wait", "record"} /\ stamp'[w] = stamp[w] /\ Target(w)' = Target(w)
      PROVE  Shown'
  BY <1>1 DEF Shown, Awaits
<1>2. CASE Quiet
  <2>1. \A w \in Workers : pc[w] \in {"wait", "record"} => Still(w)
    BY <1>2 DEF Quiet, Deploying
  <2> QED BY <1>1, <1>2, <2>1 DEF Quiet, Still
<1>3. ASSUME NEW w \in Workers, Begun(w) PROVE Shown'
  BY <1>1, <1>3 DEF Begun, Still, Deploying
<1>4. ASSUME NEW w \in Workers, Sent(w) PROVE Shown'
  <2> DEFINE n == Len(queue) + 1
  <2>1. /\ pc[w] = "render" /\ pc' = [pc EXCEPT ![w] = "wait"]
        /\ UNCHANGED <<pollPath, stamp, latest, forgotten>>
    BY <1>4 DEF Sent
  <2>2. /\ Len(queue') = n
        /\ queue'[n].path = Target(w) /\ queue'[n].stamp = stamp[w]
        /\ \A i \in 1..Len(queue) : queue'[i] = queue[i]
        /\ \A i \in 1..n : i \in 1..Len(queue) \/ i = n
    BY <1>4, SentAt
  <2> HIDE DEF n
  <2>3. \A v \in Workers : pc[v] \in {"wait", "record"} => pc'[v] = pc[v]
    BY <2>1 DEF TypeOK
  <2>4. pc'[w] = "wait" /\ Target(w)' = queue'[n].path /\ stamp'[w] = queue'[n].stamp
    BY <2>1, <2>2 DEF Target, TypeOK
  <2>5. \A i \in 1..Len(queue) : \A v \in Workers : Awaits(v, queue[i]) => Awaits(v, queue[i])'
    BY <2>1, <2>2, <2>3 DEF Awaits, Target
  <2>6. ASSUME NEW i \in 1..n
        PROVE  \/ queue'[i].path \in forgotten
               \/ latest[queue'[i].path].status # "success"
               \/ \E v \in Workers : Awaits(v, queue[i])'
    <3>1. CASE i \in 1..Len(queue)
      BY <2>2, <2>5, <3>1 DEF Shown
    <3>2. CASE i = n
      BY <2>4, <3>2 DEF Awaits
    <3> QED BY <2>2, <3>1, <3>2
  <2> QED BY <2>1, <2>2, <2>6 DEF Shown
<1>5. ASSUME NEW w \in Workers, Ended(w) PROVE Shown'
  <2>1. /\ pc[w] \in {"render", "wait"} /\ pc' = [pc EXCEPT ![w] = "record"]
        /\ UNCHANGED <<queue, pollPath, stamp, latest, forgotten>>
    BY <1>5 DEF Ended
  <2>2. \A v \in Workers : pc[v] \in {"wait", "record"} => pc'[v] \in {"wait", "record"}
    BY <2>1 DEF TypeOK
  <2> QED BY <1>1, <2>1, <2>2 DEF Target
<1>6. ASSUME NEW w \in Workers, Record(w) PROVE Shown'
  <2> DEFINE t == Target(w)
  <2>1. /\ UNCHANGED <<queue, pollPath>> /\ pc[w] = "record"
        /\ pc' = [pc EXCEPT ![w] = IF w = Poll THEN "next" ELSE "idle"]
        /\ stamp' = [stamp EXCEPT ![w] = 0]
    BY <1>6 DEF Record
  <2>2. ASSUME NEW i \in 1..Len(queue)
        PROVE  \/ queue[i].path \in forgotten'
               \/ latest'[queue[i].path].status # "success"
               \/ \E v \in Workers : Awaits(v, queue[i])'
    <3>1. CASE queue[i].path # t
      <4>1. /\ latest'[queue[i].path] = latest[queue[i].path]
            /\ queue[i].path \in forgotten => queue[i].path \in forgotten'
        BY <1>0, <1>6, <3>1, RecordAt
      <4>2. \A v \in Workers : Awaits(v, queue[i]) => Awaits(v, queue[i])'
        BY <2>1, <3>1 DEF Awaits, Target, TypeOK
      <4> QED BY <4>1, <4>2 DEF Shown
    <3>2. CASE queue[i].path = t
      <4>1. outcome[w] # "success"
        BY <3>2 DEF Own
      <4> QED BY <1>6, <3>2, <4>1, RecordAt
    <3> QED BY <3>1, <3>2
  <2> QED BY <2>1, <2>2 DEF Shown
<1>7. CASE Taken
  <2>1. UNCHANGED <<pollPath, stamp, latest, forgotten>>
    BY <1>7 DEF Taken
  <2>2. \A i \in 1..Len(queue') : i + 1 \in 1..Len(queue) /\ queue'[i] = queue[i + 1]
    BY <1>7, TakenAt
  <2>3. \A w \in Workers : pc[w] \in {"wait", "record"} => pc'[w] \in {"wait", "record"}
    BY <1>7 DEF Taken
  <2>4. ASSUME NEW i \in 1..Len(queue')
        PROVE  \/ queue'[i].path \in forgotten
               \/ latest[queue'[i].path].status # "success"
               \/ \E w \in Workers : Awaits(w, queue[i])'
    <3>1. \A w \in Workers : Awaits(w, queue[i + 1]) => Awaits(w, queue[i])'
      BY <2>1, <2>2, <2>3 DEF Awaits, Target
    <3> QED BY <2>2, <3>1 DEF Shown
  <2> QED BY <2>1, <2>4 DEF Shown
<1>8. CASE Restart
  <2>1. \A i \in 1..Len(queue') : queue'[i].path \in forgotten'
    BY <1>8, RestartAt
  <2> QED BY <2>1 DEF Shown
<1> QED BY <1>2, <1>3, <1>4, <1>5, <1>6, <1>7, <1>8, Kinds

-----------------------------------------------------------------------------
(* What the loop forgets. *)

\* The affected paths not yet dealt with.
Ahead == todo \cup {p \in Paths : Busy(Poll) /\ p = pollPath}

\* A path in sync that lags behind is still ahead of the loop or forgotten.
Accounted ==
  \A p \in configured \ forgotten :
    latest[p].status = "success" /\ Lags(p, Seen, applied[p]) => p \in Ahead

\* So is a path on which a sync deploys a commit the loop has left behind.
Overtaken ==
  \A p \in configured \ forgotten :
    Deploying(p) /\ Lags(p, Seen, commit[p]) => p \in todo

LEMMA InitAccounted == Init => Accounted /\ Overtaken
<1> SUFFICES ASSUME Init PROVE Accounted /\ Overtaken
  OBVIOUS
<1>1. configured \subseteq Paths /\ \A p \in Paths : latest[p].status = "pending" /\ pc[p] = "idle"
  BY WorkersNames DEF Init
<1> QED BY <1>1 DEF Accounted, Overtaken, Deploying

\* A path that lags behind two commits lags behind one of them.
LEMMA LagsSplit ==
  ASSUME TypeOK, NEW p \in Paths, NEW c \in Nat, NEW d \in Nat, NEW e \in Nat,
         Lags(p, c, d)
  PROVE  Lags(p, e, d) \/ p \in Changed(e, c)
  BY DEF Lags, Changed

LEMMA LagsLess ==
  ASSUME NEW p \in Paths, NEW c \in Nat, NEW d \in Nat, NEW e \in Nat, e <= d, Lags(p, c, d)
  PROVE  Lags(p, c, e)
  BY DEF Lags

LEMMA NotLagging ==
  ASSUME NEW p \in Paths, NEW c \in Nat, NEW d \in Nat, c <= d PROVE ~Lags(p, c, d)
  BY DEF Lags

\* A sync that lags behind has not been applied, or something older was.
LEMMA SyncLags ==
  ASSUME TypeOK, Ordered, NEW p \in Paths, Deploying(p), NEW c \in Nat, Lags(p, c, commit[p])
  PROVE  Lags(p, c, applied[p])
<1>1. applied[p] <= commit[p]
  BY DEF Ordered, UpTo
<1> QED BY <1>1, WorkersNames, NumbersOf, LagsLess

\* The loop and the configuration stay where they are.
Steady ==
  /\ UNCHANGED <<configured, touched, last, todo, pollPath>>
  /\ commit'[Poll] = commit[Poll]
  /\ pc'[Poll] \in Looking <=> pc[Poll] \in Looking
  /\ Busy(Poll)' = Busy(Poll)

LEMMA SteadySame ==
  ASSUME Steady
  PROVE  Seen' = Seen /\ Ahead' = Ahead
  BY DEF Steady, Seen, Ahead

LEMMA SteadyCounts ==
  ASSUME TypeOK, Accounted, Overtaken, Steady, UNCHANGED <<applied, latest, forgotten>>,
         \A p \in Paths : Deploying(p)' => Deploying(p) /\ commit'[p] = commit[p]
  PROVE  Accounted' /\ Overtaken'
<1>1. Seen' = Seen /\ Ahead' = Ahead /\ UNCHANGED <<configured, touched, todo>>
  BY SteadySame DEF Steady
<1>3. configured \subseteq Paths
  BY DEF TypeOK
<1>4. Accounted'
  BY <1>1 DEF Accounted, Lags
<1>5. Overtaken'
  BY <1>1, <1>3 DEF Overtaken, Lags
<1> QED BY <1>4, <1>5

LEMMA NextAccounted ==
  TypeOK /\ OneDeployPerPath /\ Fresh /\ Ordered /\ Dated /\ Own /\ Shown
    /\ Accounted /\ Overtaken /\ [Next]_vars => Accounted' /\ Overtaken'
<1> SUFFICES ASSUME TypeOK, OneDeployPerPath, Fresh, Ordered, Dated, Own, Shown,
                    Accounted, Overtaken, [Next]_vars
             PROVE  Accounted' /\ Overtaken'
  OBVIOUS
<1> USE WorkersNames, NumbersOf
<1>0. /\ Seen \in Nat /\ Seen <= head
      /\ configured \subseteq Paths /\ loaded \subseteq Paths
      /\ \A w \in Workers : Deploying(w) => Busy(w)
      /\ \A p \in Paths : Target(p) = p
  BY DEF TypeOK, Seen, Fresh, Deploying, Busy, Target
<1>1. CASE PollLoad \/ PollFetch
  <2>1. /\ UNCHANGED <<configured, touched, applied, latest, forgotten, last, todo, pollPath>>
        /\ pc[Poll] \in Looking /\ pc'[Poll] \in Looking
        /\ \A p \in Paths : pc'[p] = pc[p] /\ commit'[p] = commit[p]
    BY <1>1 DEF PollLoad, PollFetch, Looking, TypeOK, repo, config, history
  <2>2. Seen' = Seen /\ Ahead = todo
    BY <2>1 DEF Seen, Ahead, Busy, Looking
  <2>3. todo \subseteq Ahead'
    BY <2>1 DEF Ahead
  <2>4. Accounted'
    BY <2>1, <2>2, <2>3 DEF Accounted, Lags
  <2>5. Overtaken'
    BY <1>0, <2>1, <2>2 DEF Overtaken, Lags, Deploying
  <2> QED BY <2>4, <2>5
<1>2. CASE PollCompare
  <2> DEFINE c == commit[Poll]
  <2>1. PICK paths \in SUBSET Paths :
          /\ Affected(paths)
          /\ todo' = paths
          /\ IF paths = {}
             THEN /\ last' = c
                  /\ pc' = [pc EXCEPT ![Poll] = "idle"]
                  /\ commit' = [commit EXCEPT ![Poll] = 0]
             ELSE /\ pc' = [pc EXCEPT ![Poll] = "next"]
                  /\ UNCHANGED <<last, commit>>
    BY <1>2 DEF PollCompare
  <2>2. /\ pc[Poll] = "fetched" /\ todo = {}
        /\ UNCHANGED <<configured, touched, applied, latest>>
        /\ forgotten' = forgotten \cup Behind(configured \ loaded, c)
    BY <1>2 DEF PollCompare, repo, config, Fresh, Looking
  <2>3. Seen = last /\ Ahead = {}
    BY <2>2 DEF Seen, Ahead, Busy, Looking
  <2>4. Seen' = c /\ paths \subseteq Ahead'
    BY <2>1, <2>2 DEF Seen, Ahead, Looking, TypeOK
  <2>5. \A p \in Paths : pc'[p] = pc[p] /\ commit'[p] = commit[p]
    BY <2>1 DEF TypeOK
  <2>6. ASSUME NEW p \in loaded, NEW d \in Nat, Lags(p, c, d), p \notin paths
        PROVE  Lags(p, last, d)
    <3>1. p \in Paths /\ c \in Nat
      BY <1>0
    <3>2. p \notin Changed(last, c)
      <4>1. last # 0
        BY <2>1, <2>6 DEF Affected
      <4>2. ~Matches(p, Changed(last, c))
        BY <2>1, <2>6, <4>1 DEF Affected
      <4> QED BY <4>2 DEF Matches
    <3> QED BY <2>6, <3>1, <3>2, LagsSplit
  <2>7. Accounted'
    <3> SUFFICES ASSUME NEW p \in configured, p \notin forgotten', latest[p].status = "success",
                        Lags(p, c, applied[p]), p \notin paths
                 PROVE  FALSE
      BY <2>2, <2>4 DEF Accounted, Lags
    <3>1. p \in loaded /\ p \notin forgotten
      BY <2>2 DEF Behind
    <3>2. Lags(p, last, applied[p])
      BY <1>0, <2>6, <3>1
    <3> QED BY <2>3, <3>1, <3>2 DEF Accounted
  <2>8. Overtaken'
    <3> SUFFICES ASSUME NEW p \in configured, p \notin forgotten', Deploying(p),
                        Lags(p, c, commit[p]), p \notin paths
                 PROVE  FALSE
      BY <1>0, <2>1, <2>2, <2>4, <2>5 DEF Overtaken, Lags, Deploying
    <3>1. Lags(p, c, applied[p])
      BY <1>0, SyncLags
    <3>2. p \in loaded /\ p \notin forgotten
      BY <2>2, <3>1 DEF Behind
    <3>3. Lags(p, last, commit[p])
      BY <1>0, <2>6, <3>2
    <3> QED BY <2>2, <2>3, <3>2, <3>3 DEF Overtaken
  <2> QED BY <2>7, <2>8
<1>3. CASE PollDone
  <2>1. /\ UNCHANGED <<configured, touched, applied, latest, forgotten>>
        /\ pc[Poll] = "next" /\ todo = {} /\ todo' = {}
        /\ \A p \in Paths : pc'[p] = pc[p] /\ commit'[p] = commit[p]
    BY <1>3 DEF PollDone, TypeOK, repo, config, history
  <2>2. Seen' = Seen
    BY <1>3 DEF PollDone, Seen, Looking, TypeOK
  <2>3. Ahead = {}
    BY <2>1 DEF Ahead, Busy
  <2>4. Accounted'
    BY <2>1, <2>2, <2>3 DEF Accounted, Lags
  <2>5. Overtaken'
    BY <1>0, <2>1, <2>2 DEF Overtaken, Lags, Deploying
  <2> QED BY <2>4, <2>5
<1>4. ASSUME NEW q \in Paths, PollNext(q) PROVE Accounted' /\ Overtaken'
  <2>1. /\ UNCHANGED <<configured, touched, applied, latest, last, commit>>
        /\ pc[Poll] = "next" /\ todo' = todo \ {q}
        /\ \A p \in Paths : pc'[p] = pc[p]
    BY <1>4 DEF PollNext, repo, config, work, TypeOK
  <2>2. Seen = commit[Poll] /\ Ahead = todo
    BY <2>1 DEF Seen, Ahead, Busy, Looking
  <2>3. Seen' = Seen
    <3>1. pc' = pc \/ pc' = [pc EXCEPT ![Poll] = "render"]
      BY <1>4 DEF PollNext, work
    <3> QED BY <2>1, <3>1 DEF Seen, Looking, TypeOK
  <2>4. CASE q \in deploying
    <3>1. forgotten' = forgotten \cup Behind({q}, Seen)
      BY <1>4, <2>2, <2>4 DEF PollNext
    <3>2. todo' \subseteq Ahead'
      BY DEF Ahead
    <3>3. Accounted'
      <4> SUFFICES ASSUME NEW p \in configured, p \notin forgotten', latest[p].status = "success",
                          Lags(p, Seen, applied[p])
                   PROVE  p \in todo'
        BY <2>1, <2>3, <3>2 DEF Accounted, Lags
      <4>1. p # q /\ p \notin forgotten
        BY <3>1 DEF Behind
      <4> QED BY <2>1, <2>2, <4>1 DEF Accounted
    <3>4. Overtaken'
      <4> SUFFICES ASSUME NEW p \in configured, p \notin forgotten', Deploying(p),
                          Lags(p, Seen, commit[p])
                   PROVE  p \in todo'
        BY <1>0, <2>1, <2>3 DEF Overtaken, Lags, Deploying
      <4>1. Lags(p, Seen, applied[p])
        BY <1>0, SyncLags
      <4>2. p # q /\ p \notin forgotten
        BY <3>1, <4>1 DEF Behind
      <4> QED BY <2>1, <4>2 DEF Overtaken
    <3> QED BY <3>3, <3>4
  <2>5. CASE q \notin deploying
    <3>1. UNCHANGED forgotten /\ pollPath' = q /\ pc'[Poll] = "render"
      BY <1>4, <2>5 DEF PollNext, TypeOK
    <3>2. todo \subseteq Ahead'
      BY <2>1, <3>1 DEF Ahead, Busy
    <3>3. Accounted'
      BY <2>1, <2>2, <2>3, <3>1, <3>2 DEF Accounted, Lags
    <3>4. ~Deploying(q)
      BY <1>0, <2>5 DEF OneDeployPerPath
    <3>5. Overtaken'
      <4> SUFFICES ASSUME NEW p \in configured, p \notin forgotten, Deploying(p),
                          Lags(p, Seen, commit[p])
                   PROVE  p \in todo'
        BY <1>0, <2>1, <2>3, <3>1 DEF Overtaken, Lags, Deploying
      <4> QED BY <2>1, <3>4 DEF Overtaken
    <3> QED BY <3>3, <3>5
  <2> QED BY <2>4, <2>5
<1>5. ASSUME NEW p \in Paths, SyncClaim(p) \/ SyncRefuse(p) PROVE Accounted' /\ Overtaken'
  <2>1. /\ UNCHANGED <<configured, touched, last, todo, pollPath, commit, applied, latest, forgotten>>
        /\ pc'[Poll] = pc[Poll]
    BY <1>5 DEF SyncClaim, SyncRefuse, repo, config, loop, history, TypeOK
  <2>2. \A q \in Paths : Deploying(q)' => Deploying(q)
    BY <1>5 DEF SyncClaim, SyncRefuse, Deploying, TypeOK
  <2> QED BY <2>1, <2>2, SteadyCounts DEF Steady, Busy
<1>6. ASSUME NEW p \in Paths, SyncFetch(p) PROVE Accounted' /\ Overtaken'
  <2>1. /\ UNCHANGED <<configured, touched, last, todo, pollPath, applied, latest, forgotten>>
        /\ pc'[Poll] = pc[Poll] /\ commit'[Poll] = commit[Poll]
        /\ commit'[p] = head
        /\ \A q \in Paths : q # p => pc'[q] = pc[q] /\ commit'[q] = commit[q]
    BY <1>6 DEF SyncFetch, repo, config, loop, history, TypeOK
  <2>2. Seen' = Seen /\ Ahead' = Ahead
    BY <2>1 DEF Seen, Ahead, Busy
  <2>3. Accounted'
    BY <2>1, <2>2 DEF Accounted, Lags
  <2>4. ~Lags(p, Seen, head)
    BY <1>0, NotLagging
  <2>5. Overtaken'
    <3> SUFFICES ASSUME NEW q \in configured, q \notin forgotten, Deploying(q)',
                        Lags(q, Seen, commit'[q])
                 PROVE  q \in todo
      BY <2>1, <2>2 DEF Overtaken, Lags
    <3>1. q # p
      BY <2>1, <2>4
    <3> QED BY <1>0, <2>1, <3>1 DEF Overtaken, Deploying
  <2> QED BY <2>3, <2>5
<1>7. ASSUME NEW w \in Workers, Render(w) \/ Timeout(w) PROVE Accounted' /\ Overtaken'
  <2>1. /\ UNCHANGED <<configured, touched, applied, latest, forgotten, last, todo, pollPath, commit>>
        /\ pc[w] \in {"render", "wait"} /\ pc'[w] \in {"wait", "record"}
        /\ \A u \in Workers : u # w => pc'[u] = pc[u]
    BY <1>7 DEF Render, Timeout, repo, config, loop, history, TypeOK
  <2>2. Steady
    BY <2>1 DEF Steady, Busy, Looking
  <2>3. \A q \in Paths : Deploying(q)' => Deploying(q)
    BY <2>1 DEF Deploying
  <2> QED BY <2>1, <2>2, <2>3, SteadyCounts
<1>8. ASSUME NEW w \in Workers, Record(w) PROVE Accounted' /\ Overtaken'
  <2> DEFINE t == Target(w)
  <2>1. /\ UNCHANGED <<configured, touched, applied, last, todo, pollPath>>
        /\ pc[w] = "record"
        /\ pc' = [pc EXCEPT ![w] = IF w = Poll THEN "next" ELSE "idle"]
        /\ commit'[Poll] = commit[Poll]
    BY <1>8 DEF Record, repo, config, loop, TypeOK
  <2>2. commit' = commit \/ commit' = [commit EXCEPT ![w] = 0]
    BY <1>8, Zenon DEF Record
  <2>3. t \in Paths /\ Busy(w)
    BY <2>1, TargetIsPath DEF Busy
  <2>4. Seen' = Seen
    BY <2>1 DEF Seen, Looking, TypeOK
  <2>5. /\ \A p \in Paths : p # t => latest'[p] = latest[p] /\ (p \in forgotten' <=> p \in forgotten)
        /\ \/ latest' = latest /\ t \in forgotten'
           \/ /\ latest'[t].status = outcome[w]
              /\ outcome[w] # "success" \/ Lags(t, Seen, commit[w]) => forgotten' = forgotten
    BY <1>8, RecordAt
  <2> HIDE DEF t
  <2>6. ASSUME NEW p \in configured, p \notin forgotten', latest'[p].status = "success",
               Lags(p, Seen, applied[p])
        PROVE  p \in Ahead'
    <3>1. CASE p # t
      <4>1. p \in Ahead
        BY <1>0, <2>5, <2>6, <3>1 DEF Accounted
      <4>2. p \in todo \/ (Busy(Poll) /\ p = pollPath /\ w # Poll)
        BY <3>1, <4>1 DEF Ahead, Target, t
      <4> QED BY <1>0, <2>1, <4>2 DEF Ahead, Busy, TypeOK
    <3>2. CASE p = t
      <4>1. outcome[w] = "success"
        BY <2>5, <2>6, <3>2
      <4>2. applied[t] = commit[w]
        BY <4>1 DEF Own, t
      <4>3. Lags(t, Seen, commit[w]) /\ p \notin forgotten
        BY <2>5, <2>6, <3>2, <4>2
      <4>4. w # Poll
        <5>1. SUFFICES ASSUME w = Poll PROVE FALSE
          OBVIOUS
        <5>2. Seen = commit[w]
          BY <2>1, <5>1 DEF Seen, Looking
        <5> QED BY <1>0, <2>3, <4>3, <5>2, NotLagging
      <4>5. w \in Paths /\ t = w /\ Deploying(w)
        BY <2>1, <4>4 DEF Target, Workers, Deploying, t
      <4>6. p \in todo
        BY <3>2, <4>3, <4>5 DEF Overtaken
      <4> QED BY <2>1, <4>6 DEF Ahead
    <3> QED BY <3>1, <3>2
  <2>7. Accounted'
    BY <2>1, <2>4, <2>6 DEF Accounted, Lags
  <2>8. ASSUME NEW p \in configured, p \notin forgotten', Deploying(p)'
        PROVE  Deploying(p) /\ commit'[p] = commit[p] /\ p \notin forgotten
    <3>1. p # w /\ pc'[p] = pc[p] /\ commit'[p] = commit[p]
      BY <1>0, <2>1, <2>2, <2>8 DEF TypeOK, Deploying
    <3>2. Deploying(p) /\ p \in Workers
      BY <1>0, <2>8, <3>1 DEF Deploying
    <3>3. p # t
      BY <1>0, <2>3, <3>1, <3>2 DEF OneDeployPerPath, t
    <3> QED BY <1>0, <2>5, <2>8, <3>1, <3>2, <3>3
  <2>9. Overtaken'
    <3> SUFFICES ASSUME NEW p \in configured, p \notin forgotten', Deploying(p)',
                        Lags(p, Seen, commit'[p])
                 PROVE  p \in todo
      BY <2>1, <2>4 DEF Overtaken, Lags
    <3> QED BY <2>8 DEF Overtaken
  <2> QED BY <2>7, <2>9
<1>9. CASE AgentApply \/ AgentFail \/ AgentLose
  <2>1. UNCHANGED <<configured, touched, last, todo, pollPath, commit, stamp, latest, forgotten>>
    BY <1>9 DEF AgentApply, AgentFail, AgentLose, repo, config, loop, work, history
  <2>2. \A w \in Workers : pc'[w] = pc[w] \/ (pc[w] = "wait" /\ pc'[w] = "record")
    BY <1>9 DEF AgentApply, AgentFail, AgentLose, Answer, work
  <2>3. Seen' = Seen /\ Ahead' = Ahead
    BY <2>1, <2>2 DEF Seen, Ahead, Busy, Looking
  <2>4. Taken
    <3>1. queue # <<>> /\ queue' = Tail(queue) /\ UNCHANGED head
      BY <1>9 DEF AgentApply, AgentFail, AgentLose, repo
    <3>2. applied' = applied \/ applied' = Applied(Head(queue))
      BY <1>9 DEF AgentApply, AgentFail, AgentLose
    <3>3. ASSUME NEW w \in Workers
          PROVE  \/ pc'[w] = pc[w] /\ outcome'[w] = outcome[w]
                 \/ /\ pc[w] = "wait" /\ pc'[w] = "record" /\ stamp[w] = Head(queue).stamp
                    /\ outcome'[w] = "success" => applied' = Applied(Head(queue))
      BY <1>9 DEF AgentApply, AgentFail, AgentLose, Answer, work
    <3>4. UNCHANGED stamps
      BY <1>9 DEF AgentApply, AgentFail, AgentLose
    <3> QED BY <2>1, <3>1, <3>2, <3>3, <3>4 DEF Taken
  <2>5. Accounted'
    <3> SUFFICES ASSUME NEW p \in configured, p \notin forgotten, latest[p].status = "success",
                        Lags(p, Seen, applied'[p])
                 PROVE  p \in Ahead
      BY <2>1, <2>3 DEF Accounted, Lags
    <3>1. CASE applied'[p] = applied[p]
      BY <3>1 DEF Accounted
    <3>2. CASE queue[1].path = p /\ applied'[p] = queue[1].commit
      <4>1. 1 \in 1..Len(queue)
        BY <2>4, TakenAt
      <4>2. PICK w \in Workers : Awaits(w, queue[1])
        BY <3>2, <4>1 DEF Shown
      <4>3. CASE w = Poll
        BY <1>0, <3>2, <4>2, <4>3 DEF Awaits, Ahead, Busy, Target
      <4>4. CASE w # Poll
        <5>1. w \in Paths /\ w = p
          BY <3>2, <4>2, <4>4 DEF Awaits, Target, Workers
        <5>2. queue[1].commit = commit[p] /\ Deploying(p)
          BY <4>1, <4>2, <5>1 DEF Own, Awaits, Deploying
        <5>3. p \in todo
          BY <3>2, <5>2 DEF Overtaken
        <5> QED BY <5>3 DEF Ahead
      <4> QED BY <4>3, <4>4
    <3> QED BY <1>0, <2>4, <3>1, <3>2, TakenAt
  <2>6. \A p \in Paths : Deploying(p)' => Deploying(p)
    BY <2>2 DEF Deploying
  <2>7. Overtaken'
    BY <1>0, <2>1, <2>3, <2>6 DEF Overtaken, Lags
  <2> QED BY <2>5, <2>7
<1>10. ASSUME NEW paths \in SUBSET Paths, Push(paths) PROVE Accounted' /\ Overtaken'
  <2>1. /\ UNCHANGED <<configured, applied, latest, forgotten, last, todo, pollPath, pc, commit>>
        /\ touched' = [touched EXCEPT ![head + 1] = paths]
        /\ head < MaxCommits
    BY <1>10 DEF Push, config, loop, work, history
  <2>2. Seen' = Seen /\ Ahead' = Ahead
    BY <2>1 DEF Seen, Ahead, Busy
  <2>3. head + 1 \in Nat /\ head + 1 \notin 1..Seen
    BY <1>0
  <2>4. \A k \in 1..Seen : touched'[k] = touched[k]
    BY <1>0, <2>1, <2>3, BoundsAssumption DEF TypeOK
  <2>5. \A p \in Paths : \A d \in Nat :
          (\E k \in (d + 1)..Seen : p \in touched'[k]) => Lags(p, Seen, d)
    BY <1>0, <2>4 DEF Lags
  <2>6. Accounted'
    <3> SUFFICES ASSUME NEW p \in configured, p \notin forgotten, latest[p].status = "success",
                        \E k \in (applied[p] + 1)..Seen : p \in touched'[k]
                 PROVE  p \in Ahead
      BY <2>1, <2>2 DEF Accounted, Lags
    <3> QED BY <1>0, <2>5 DEF Accounted
  <2>7. Overtaken'
    <3> SUFFICES ASSUME NEW p \in configured, p \notin forgotten, Deploying(p),
                        \E k \in (commit[p] + 1)..Seen : p \in touched'[k]
                 PROVE  p \in todo
      BY <2>1, <2>2 DEF Overtaken, Lags, Deploying
    <3> QED BY <1>0, <2>5 DEF Overtaken
  <2> QED BY <2>6, <2>7
<1>11. ASSUME NEW paths \in SUBSET Paths, NEW on \in BOOLEAN, SaveConfig(paths, on)
       PROVE  Accounted' /\ Overtaken'
  <2>1. /\ UNCHANGED <<touched, applied, latest, last, todo, pollPath, pc, commit>>
        /\ configured' = paths
        /\ forgotten' = forgotten \cup Behind(paths \ configured, Seen)
    BY <1>11 DEF SaveConfig, repo, loop, work
  <2>2. Seen' = Seen /\ Ahead' = Ahead
    BY <2>1 DEF Seen, Ahead, Busy
  <2>3. Accounted'
    <3> SUFFICES ASSUME NEW p \in paths, p \notin forgotten', latest[p].status = "success",
                        Lags(p, Seen, applied[p])
                 PROVE  p \in Ahead
      BY <2>1, <2>2 DEF Accounted, Lags
    <3> QED BY <2>1 DEF Accounted, Behind
  <2>4. Overtaken'
    <3> SUFFICES ASSUME NEW p \in paths, p \notin forgotten', Deploying(p),
                        Lags(p, Seen, commit[p])
                 PROVE  p \in todo
      BY <2>1, <2>2 DEF Overtaken, Lags, Deploying
    <3>1. Lags(p, Seen, applied[p])
      BY <1>0, SyncLags
    <3> QED BY <2>1, <3>1 DEF Overtaken, Behind
  <2> QED BY <2>3, <2>4
<1>12. CASE Restart
  <2>1. PICK c \in Commits : last' = c /\ Behind(configured, c) \subseteq forgotten'
    BY <1>12 DEF Restart
  <2>2. /\ UNCHANGED <<configured, touched, applied, latest>>
        /\ \A w \in Workers : pc'[w] = "idle"
    BY <1>12 DEF Restart, repo, config
  <2>3. Seen' = c
    BY <2>1, <2>2 DEF Seen, Looking
  <2>4. Accounted'
    BY <2>1, <2>2, <2>3 DEF Accounted, Behind, Lags
  <2>5. Overtaken'
    BY <1>0, <2>2 DEF Overtaken, Deploying
  <2> QED BY <2>4, <2>5
<1>13. CASE UNCHANGED vars
  <2>1. UNCHANGED <<configured, touched, last, todo, pollPath, commit, pc, applied, latest, forgotten>>
    BY <1>13 DEF vars, repo, config, loop, work, history
  <2> QED BY <2>1, SteadyCounts DEF Steady, Busy, Deploying
<1> QED
  BY <1>1, <1>2, <1>3, <1>4, <1>5, <1>6, <1>7, <1>8, <1>9, <1>10, <1>11, <1>12, <1>13 DEF Next

(* When the loop has dealt with a commit, a configured path shown as in    *)
(* sync had its resources applied with what it has there, unless it was    *)
(* skipped, lost in a restart, added later or not recorded; for any paths, *)
(* prefixes, commits, failures, timeouts and late executions.              *)
THEOREM Forgetting == Spec => []NothingForgotten
<1> DEFINE IInv == /\ TypeOK /\ OneDeployPerPath /\ Fresh /\ Ordered
                   /\ Dated /\ Own /\ Shown /\ Accounted /\ Overtaken
<1>1. Init => IInv
  BY InitTypeOK, InitExclusive, InitFresh, InitOrdered, InitShown, InitAccounted
<1>2. IInv /\ [Next]_vars => IInv'
  BY NextTypeOK, NextExclusive, NextFresh, NextOrdered, NextDated, NextOwn, NextShown,
     NextAccounted
<1>3. IInv => NothingForgotten
  <2> SUFFICES ASSUME IInv, pc[Poll] \in Looking, NEW p \in configured \ forgotten,
                      latest[p].status = "success"
               PROVE  ~Lags(p, last, applied[p])
    BY DEF NothingForgotten
  <2>1. Seen = last /\ Ahead = {}
    BY DEF Seen, Ahead, Fresh, Busy, Looking
  <2> QED BY <2>1 DEF Accounted
<1> QED BY <1>1, <1>2, <1>3, PTL DEF Spec
=============================================================================
