------------------------ MODULE RosServiceCallsProofs ------------------------
(***************************************************************************)
(* Safety of RosServiceCalls, for every set of connections and requests    *)
(* and any number of registrations.                                        *)
(***************************************************************************)
EXTENDS RosServiceCalls, FiniteSetTheorems, TLAPS

\* The calls of a request that the service has not run.
Unrun(r) == {x \in asked : x.request = r}

\* How many calls the thread may have made, by where it is.
AttemptInv ==
  \A r \in Requests :
    /\ pc[r] \in {"idle", "deserialize"} => calls[r] = 0 /\ attempt[r] = 0
    /\ pc[r] \in {"wait", "call"} => calls[r] <= attempt[r] /\ attempt[r] <= 2
    /\ pc[r] = "spin" => calls[r] <= attempt[r] + 1 /\ attempt[r] <= 2
    /\ calls[r] <= 3

\* Each call is run at most once.
RunInv ==
  /\ IsFiniteSet(asked)
  /\ \A r \in Requests : runs[r] + Cardinality(Unrun(r)) <= calls[r]

\* What Unity has heard of a request is the last thing its thread did.
OutcomeInv ==
  /\ OneOutcome
  /\ AnswerIsCurrent
  /\ \A c \in Conns : \A i \in DOMAIN outbox[c] : pc[outbox[c][i].request] = "ended"
  /\ \A r \in Requests : pc[r] = "respond" => HasResult(r)

Inv == TypeOK /\ AttemptInv /\ RunInv /\ OutcomeInv

-----------------------------------------------------------------------------
\* Init establishes the invariant.
LEMMA InitInv == Init => Inv
<1> SUFFICES ASSUME Init PROVE Inv
  OBVIOUS
<1>1. TypeOK /\ AttemptInv
  BY DEF Init, TypeOK, AttemptInv, Places
<1>2. asked = {} /\ \A r \in Requests : Unrun(r) = {}
  BY DEF Init, Unrun
<1>3. RunInv
  BY <1>2, FS_EmptySet DEF Init, RunInv
<1>4. OutcomeInv
  BY DEF Init, OutcomeInv, OneOutcome, AnswerIsCurrent
<1> QED BY <1>1, <1>3, <1>4 DEF Inv

\* What goes into an outbox is well-typed, and goes to its end.
LEMMA PutType ==
  ASSUME TypeOK, NEW m \in Items, PutIfConnected(m)
  PROVE  /\ outbox' \in [Conns -> Seq(Items)]
         /\ \A c \in Conns :
              \/ outbox'[c] = outbox[c]
              \/ c = queue /\ outbox'[c] = Append(outbox[c], m)
BY DEF TypeOK, PutIfConnected

\* Every step keeps the types.
LEMMA TypeStep == TypeOK /\ [Next]_vars => TypeOK'
<1> SUFFICES ASSUME TypeOK, [Next]_vars PROVE TypeOK'
  OBVIOUS
<1> USE DEF Goto, Retry, tableVars, serviceVars, linkVars, Places
<1>1. ASSUME NEW r \in Requests, UnknownService(r) \/ Respond(r) \/ Report(r)
      PROVE  TypeOK'
  <2>1. Error(r) \in Items /\ Response(r, calls[r]) \in Items
    BY <1>1 DEF TypeOK, Items, Error, Response
  <2>2. outbox' \in [Conns -> Seq(Items)]
    BY <1>1, <2>1, PutType DEF UnknownService, Respond, Report
  <2> QED BY <1>1, <2>2 DEF TypeOK, UnknownService, Respond, Report
<1>2. ASSUME NEW r \in Requests, StartThread(r) \/ Deserialize(r) \/ ServiceFound(r)
                                 \/ WaitRaises(r) \/ Answered(r)
      PROVE  TypeOK'
  BY <1>2 DEF TypeOK, StartThread, Deserialize, ServiceFound, WaitRaises, Answered
<1>3. ASSUME NEW r \in Requests, ServiceMissing(r) \/ CallRaises(r) \/ SpinFails(r)
      PROVE  TypeOK'
  <2>1. attempt' = [attempt EXCEPT ![r] = attempt[r] + 1]
        /\ \E p \in {"wait", "report"} : pc' = [pc EXCEPT ![r] = p]
    BY <1>3 DEF ServiceMissing, CallRaises, SpinFails
  <2>2. UNCHANGED <<queue, outbox, entity, gone, up, asked, runs, answers,
                    service, calls>>
    BY <1>3 DEF ServiceMissing, CallRaises, SpinFails
  <2>3. pc' \in [Requests -> Places] /\ attempt' \in [Requests -> Nat]
    BY <2>1 DEF TypeOK
  <2> QED BY <2>2, <2>3 DEF TypeOK
<1>4. ASSUME NEW r \in Requests, CallAsync(r) PROVE TypeOK'
  BY <1>4 DEF TypeOK, CallAsync, Calls, Call
<1>5. CASE \E x \in asked : ServiceRuns(x)
  BY <1>5 DEF TypeOK, ServiceRuns, Calls
<1>6. CASE QueueChanges
  BY <1>6 DEF TypeOK, QueueChanges
<1>7. CASE Register
  BY <1>7 DEF TypeOK, Register
<1>8. CASE Unregister
  BY <1>8 DEF TypeOK, Unregister
<1>9. CASE ServiceToggles
  <2>1. up' \in BOOLEAN
    BY <1>9, Zenon DEF ServiceToggles
  <2> QED BY <1>9, <2>1 DEF TypeOK, ServiceToggles
<1>10. CASE UNCHANGED vars
  BY <1>10 DEF TypeOK, vars
<1> QED BY <1>1, <1>2, <1>3, <1>4, <1>5, <1>6, <1>7, <1>8, <1>9, <1>10
    DEF Next, ThreadStep

\* THEOREM: every variable keeps its type.
THEOREM TypeCorrect == Spec => []TypeOK
<1>1. Init => TypeOK
  BY InitInv DEF Inv
<1> QED BY <1>1, TypeStep, PTL DEF Spec

-----------------------------------------------------------------------------
\* The attempts of a thread stay bounded.
LEMMA AttemptStep == TypeOK /\ AttemptInv /\ [Next]_vars => AttemptInv'
<1> SUFFICES ASSUME TypeOK, AttemptInv, [Next]_vars PROVE AttemptInv'
  OBVIOUS
<1> USE DEF TypeOK, AttemptInv, Goto
<1>1. ASSUME NEW r \in Requests, ServiceMissing(r) \/ CallRaises(r) \/ SpinFails(r)
      PROVE  AttemptInv'
  <2>1. /\ pc[r] \in {"wait", "call", "spin"} /\ calls' = calls
        /\ attempt' = [attempt EXCEPT ![r] = attempt[r] + 1]
    BY <1>1 DEF ServiceMissing, CallRaises, SpinFails, Retry
  <2>2. \/ attempt[r] + 1 >= 3 /\ pc' = [pc EXCEPT ![r] = "report"]
        \/ attempt[r] + 1 < 3 /\ pc' = [pc EXCEPT ![r] = "wait"]
    BY <1>1 DEF ServiceMissing, CallRaises, SpinFails, Retry, Exhausted
  <2> QED BY <2>1, <2>2
<1>2. ASSUME NEW r \in Requests, CallAsync(r) PROVE AttemptInv'
  BY <1>2 DEF CallAsync
<1>3. ASSUME NEW r \in Requests, StartThread(r) \/ UnknownService(r) \/ Deserialize(r)
                                 \/ ServiceFound(r) \/ WaitRaises(r) \/ Answered(r)
                                 \/ Respond(r) \/ Report(r)
      PROVE  AttemptInv'
  BY <1>3 DEF StartThread, UnknownService, Deserialize, ServiceFound, WaitRaises,
              Answered, Respond, Report
<1>4. CASE \E x \in asked : ServiceRuns(x)
  BY <1>4 DEF ServiceRuns
<1>5. CASE QueueChanges \/ Unregister \/ Register \/ ServiceToggles \/ UNCHANGED vars
  BY <1>5 DEF QueueChanges, Unregister, Register, ServiceToggles, vars
<1> QED BY <1>1, <1>2, <1>3, <1>4, <1>5 DEF Next, ThreadStep

\* The service runs what it was asked, and each call once.
LEMMA RunStep == TypeOK /\ RunInv /\ [Next]_vars => RunInv'
<1> SUFFICES ASSUME TypeOK, RunInv, [Next]_vars PROVE RunInv'
  OBVIOUS
<1>0. \A r \in Requests : IsFiniteSet(Unrun(r)) /\ Cardinality(Unrun(r)) \in Nat
  BY FS_Subset, FS_CardinalityType DEF RunInv, Unrun
<1>1. ASSUME NEW r \in Requests, CallAsync(r) PROVE RunInv'
  <2> DEFINE x == Call(r, calls[r] + 1)
  <2>1. asked' = asked \cup {x} /\ x.request = r /\ runs' = runs
        /\ calls' = [calls EXCEPT ![r] = @ + 1]
    BY <1>1 DEF CallAsync, Call
  <2>2. IsFiniteSet(asked')
    BY <2>1, FS_AddElement DEF RunInv
  <2>3. ASSUME NEW s \in Requests PROVE runs'[s] + Cardinality(Unrun(s)') <= calls'[s]
    <3>1. CASE s = r
      <4>1. Unrun(s)' = Unrun(s) \cup {x}
        BY <2>1, <3>1 DEF Unrun
      <4>2. /\ Cardinality(Unrun(s) \cup {x}) = IF x \in Unrun(s)
                                               THEN Cardinality(Unrun(s))
                                               ELSE Cardinality(Unrun(s)) + 1
            /\ Cardinality(Unrun(s) \cup {x}) \in Nat
        <5> HIDE DEF x
        <5> QED BY <1>0, FS_AddElement, FS_CardinalityType
      <4>3. /\ Cardinality(Unrun(s)') <= Cardinality(Unrun(s)) + 1
            /\ Cardinality(Unrun(s)') \in Nat
        BY <4>1, <4>2, <1>0
      <4> QED BY <2>1, <3>1, <4>3, <1>0 DEF RunInv, TypeOK
    <3>2. CASE s # r
      <4>1. Unrun(s)' = Unrun(s)
        BY <2>1, <3>2 DEF Unrun
      <4> QED BY <2>1, <3>2, <4>1 DEF RunInv, TypeOK
    <3> QED BY <3>1, <3>2
  <2> QED BY <2>2, <2>3 DEF RunInv
<1>2. ASSUME NEW x \in asked, ServiceRuns(x) PROVE RunInv'
  <2>1. asked' = asked \ {x} /\ calls' = calls /\ x.request \in Requests
        /\ runs' = [runs EXCEPT ![x.request] = @ + 1]
    BY <1>2 DEF ServiceRuns, TypeOK, Calls
  <2>2. IsFiniteSet(asked')
    BY <2>1, FS_RemoveElement DEF RunInv
  <2>3. ASSUME NEW s \in Requests PROVE runs'[s] + Cardinality(Unrun(s)') <= calls'[s]
    <3>1. CASE s = x.request
      <4>1. x \in Unrun(s) /\ Unrun(s)' = Unrun(s) \ {x}
        BY <2>1, <3>1 DEF Unrun
      <4>2. Cardinality(Unrun(s)') = Cardinality(Unrun(s)) - 1
        BY <4>1, <1>0, FS_RemoveElement
      <4> QED BY <2>1, <3>1, <4>2, <1>0 DEF RunInv, TypeOK
    <3>2. CASE s # x.request
      <4>1. Unrun(s)' = Unrun(s)
        BY <2>1, <3>2 DEF Unrun
      <4> QED BY <2>1, <3>2, <4>1 DEF RunInv, TypeOK
    <3> QED BY <3>1, <3>2
  <2> QED BY <2>2, <2>3 DEF RunInv
<1>3. CASE ServiceToggles
  <2>1. asked' = {} /\ runs' = runs /\ calls' = calls
        /\ \A s \in Requests : Unrun(s)' = {}
    BY <1>3 DEF ServiceToggles, Unrun
  <2>2. IsFiniteSet(asked')
    BY <2>1, FS_EmptySet
  <2>3. ASSUME NEW s \in Requests PROVE runs'[s] + Cardinality(Unrun(s)') <= calls'[s]
    <3>1. Cardinality(Unrun(s)') = 0
      BY <2>1, FS_EmptySet
    <3> QED BY <2>1, <3>1, <1>0 DEF RunInv, TypeOK
  <2> QED BY <2>2, <2>3 DEF RunInv
<1>4. ASSUME UNCHANGED <<asked, runs, calls>> PROVE RunInv'
  BY <1>4 DEF RunInv, Unrun
<1>5. ASSUME NEW r \in Requests, StartThread(r) \/ UnknownService(r)
                                 \/ (ThreadStep(r) /\ ~CallAsync(r))
      PROVE  UNCHANGED <<asked, runs, calls>>
  BY <1>5 DEF StartThread, UnknownService, ThreadStep, Deserialize, ServiceFound,
              ServiceMissing, WaitRaises, CallRaises, Answered, SpinFails, Respond,
              Report, Retry, Goto, serviceVars
<1>6. ASSUME QueueChanges \/ Unregister \/ Register \/ UNCHANGED vars
      PROVE  UNCHANGED <<asked, runs, calls>>
  BY <1>6 DEF QueueChanges, Unregister, Register, vars, serviceVars
<1> QED BY <1>1, <1>2, <1>3, <1>4, <1>5, <1>6 DEF Next

\* A thread that has not ended is not heard of, so what it puts is the first of it.
LEMMA PutOutcome ==
  ASSUME Inv, NEW r \in Requests, pc[r] # "ended",
         NEW m \in Items, m.request = r, PutIfConnected(m),
         m.kind = "response" => m.number = calls[r] /\ HasResult(r),
         pc' = [pc EXCEPT ![r] = "ended"],
         UNCHANGED <<answers, calls>>
  PROVE  OutcomeInv'
<1> USE DEF Inv
<1>1. \A c \in Conns : \/ outbox'[c] = outbox[c]
                       \/ c = queue /\ outbox'[c] = Append(outbox[c], m)
  BY PutType
<1>2. outbox' \in [Conns -> Seq(Items)] /\ outbox \in [Conns -> Seq(Items)]
  BY PutType DEF TypeOK
<1>3. ASSUME NEW c \in Conns, NEW i \in DOMAIN outbox'[c]
      PROVE  \/ i \in DOMAIN outbox[c] /\ outbox'[c][i] = outbox[c][i]
             \/ c = queue /\ i = Len(outbox[c]) + 1 /\ outbox'[c][i] = m
  <2>1. outbox[c] \in Seq(Items)
    BY <1>2
  <2> QED BY <1>1, <2>1
<1>4. ASSUME NEW c \in Conns, NEW i \in DOMAIN outbox[c]
      PROVE  outbox[c][i].request # r /\ outbox[c][i].request \in Requests
  <2>1. outbox[c] \in Seq(Items)
    BY <1>2
  <2>2. outbox[c][i] \in Items
    BY <2>1
  <2> QED BY <2>2 DEF OutcomeInv, Items
<1>5. OneOutcome'
  <2> SUFFICES ASSUME NEW s \in Requests, NEW c \in Conns, NEW d \in Conns,
                      NEW i \in DOMAIN outbox'[c], NEW j \in DOMAIN outbox'[d],
                      outbox'[c][i].request = s, outbox'[d][j].request = s
               PROVE  c = d /\ i = j
    BY DEF OneOutcome
  <2>1. CASE s = r
    BY <1>3, <1>4, <2>1
  <2>2. CASE s # r
    BY <1>3, <2>2 DEF OutcomeInv, OneOutcome
  <2> QED BY <2>1, <2>2
<1>6. AnswerIsCurrent'
  <2> SUFFICES ASSUME NEW c \in Conns, NEW i \in DOMAIN outbox'[c],
                      outbox'[c][i].kind = "response"
               PROVE  /\ outbox'[c][i].number = calls[outbox'[c][i].request]
                      /\ Call(outbox'[c][i].request, outbox'[c][i].number) \in answers
    BY DEF AnswerIsCurrent
  <2> QED BY <1>3 DEF OutcomeInv, AnswerIsCurrent, HasResult
<1>7. ASSUME NEW c \in Conns, NEW i \in DOMAIN outbox'[c]
      PROVE  pc'[outbox'[c][i].request] = "ended"
  BY <1>3, <1>4 DEF OutcomeInv, TypeOK
<1>8. \A s \in Requests : pc'[s] = "respond" => HasResult(s)'
  BY DEF OutcomeInv, TypeOK, HasResult
<1> QED BY <1>5, <1>6, <1>7, <1>8 DEF OutcomeInv

\* Steps that put nothing, and leave the calls of ended threads as they are.
LEMMA QuietOutcome ==
  ASSUME Inv, UNCHANGED outbox, answers \subseteq answers',
         \A r \in Requests :
           /\ pc[r] = "ended" => pc'[r] = "ended" /\ calls'[r] = calls[r]
           /\ pc'[r] = "respond" => HasResult(r)'
  PROVE  OutcomeInv'
<1> USE DEF Inv, OutcomeInv
<1>1. ASSUME NEW c \in Conns, NEW i \in DOMAIN outbox[c]
      PROVE  outbox[c][i].request \in Requests
  <2>1. outbox[c] \in Seq(Items)
    BY DEF TypeOK
  <2>2. outbox[c][i] \in Items
    BY <2>1
  <2> QED BY <2>2 DEF Items
<1>2. OneOutcome'
  BY DEF OneOutcome
<1>3. AnswerIsCurrent'
  BY <1>1 DEF AnswerIsCurrent
<1>4. \A c \in Conns : \A i \in DOMAIN outbox'[c] : pc'[outbox'[c][i].request] = "ended"
  BY <1>1
<1> QED BY <1>2, <1>3, <1>4

\* What Unity has heard stays true.
LEMMA OutcomeStep == Inv /\ [Next]_vars => OutcomeInv'
<1> SUFFICES ASSUME Inv, [Next]_vars PROVE OutcomeInv'
  OBVIOUS
<1> USE DEF Goto, serviceVars
<1>1. ASSUME NEW r \in Requests, UnknownService(r) \/ Report(r) PROVE OutcomeInv'
  <2>1. Error(r) \in Items /\ Error(r).request = r /\ Error(r).kind # "response"
    BY DEF Items, Error
  <2>2. pc[r] # "ended" /\ PutIfConnected(Error(r))
        /\ pc' = [pc EXCEPT ![r] = "ended"] /\ UNCHANGED <<answers, calls>>
    BY <1>1 DEF UnknownService, Report
  <2> QED BY <2>1, <2>2, PutOutcome
<1>2. ASSUME NEW r \in Requests, Respond(r) PROVE OutcomeInv'
  <2> DEFINE m == Response(r, calls[r])
  <2>1. m \in Items /\ m.request = r /\ m.number = calls[r]
    BY DEF Inv, TypeOK, Items, Response
  <2>2. HasResult(r)
    BY <1>2 DEF Inv, OutcomeInv, Respond
  <2>3. pc[r] # "ended" /\ PutIfConnected(m)
        /\ pc' = [pc EXCEPT ![r] = "ended"] /\ UNCHANGED <<answers, calls>>
    BY <1>2 DEF Respond
  <2> HIDE DEF m
  <2> QED BY <2>1, <2>2, <2>3, PutOutcome
<1>3. ASSUME NEW r \in Requests, StartThread(r) \/ Deserialize(r) \/ ServiceFound(r)
                                 \/ WaitRaises(r) \/ Answered(r)
      PROVE  OutcomeInv'
  BY <1>3, QuietOutcome DEF Inv, OutcomeInv, TypeOK, HasResult, linkVars, StartThread, Deserialize,
              ServiceFound, WaitRaises, Answered
<1>4. ASSUME NEW r \in Requests, ServiceMissing(r) \/ CallRaises(r) \/ SpinFails(r)
      PROVE  OutcomeInv'
  BY <1>4, QuietOutcome DEF Inv, OutcomeInv, TypeOK, HasResult, linkVars, ServiceMissing,
              CallRaises, SpinFails, Retry
<1>5. ASSUME NEW r \in Requests, CallAsync(r) PROVE OutcomeInv'
  BY <1>5, QuietOutcome DEF Inv, OutcomeInv, TypeOK, HasResult, linkVars, CallAsync
<1>6. CASE \E x \in asked : ServiceRuns(x)
  BY <1>6, QuietOutcome DEF Inv, OutcomeInv, HasResult, linkVars, ServiceRuns
<1>7. CASE QueueChanges \/ Unregister \/ Register \/ ServiceToggles \/ UNCHANGED vars
  BY <1>7, QuietOutcome DEF Inv, OutcomeInv, HasResult, linkVars, QueueChanges, Unregister,
              Register, ServiceToggles, vars
<1> QED BY <1>1, <1>2, <1>3, <1>4, <1>5, <1>6, <1>7 DEF Next, ThreadStep

\* The invariant holds.
LEMMA Invariant == Spec => []Inv
<1>1. Inv /\ [Next]_vars => Inv'
  BY TypeStep, AttemptStep, RunStep, OutcomeStep DEF Inv
<1> QED BY <1>1, InitInv, PTL DEF Spec

\* THEOREM: the service runs a request at most three times (service.py:58), and
\* no oftener than it was called.
THEOREM RunsAreBounded == Spec => []RunsBounded
<1>1. Inv => RunsBounded
  <2> SUFFICES ASSUME Inv, NEW r \in Requests
               PROVE  runs[r] <= calls[r] /\ calls[r] <= 3
    BY DEF RunsBounded
  <2>1. Cardinality(Unrun(r)) \in Nat
    BY FS_Subset, FS_CardinalityType DEF Inv, RunInv, Unrun
  <2> QED BY <2>1 DEF Inv, RunInv, AttemptInv, TypeOK
<1> QED BY <1>1, Invariant, PTL

\* THEOREM: Unity hears of a request at most once (client.py:248).
THEOREM OneOutcomeOnly == Spec => []OneOutcome
<1>1. Inv => OneOutcome
  BY DEF Inv, OutcomeInv
<1> QED BY <1>1, Invariant, PTL

\* THEOREM: the response Unity gets answers the last call made (service.py:70).
THEOREM AnswersAreCurrent == Spec => []AnswerIsCurrent
<1>1. Inv => AnswerIsCurrent
  BY DEF Inv, OutcomeInv
<1> QED BY <1>1, Invariant, PTL
=============================================================================
