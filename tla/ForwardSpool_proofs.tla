------------------------ MODULE ForwardSpool_proofs ------------------------
(***************************************************************************)
(* Proofs about ForwardSpool, for every set of jobs and every bound.       *)
(***************************************************************************)
EXTENDS ForwardSpool, TLAPS, FiniteSetTheorems

\* Every step of the system is one of its actions (Next, flattened).
LEMMA NextCases ==
    ASSUME Next, NEW G,
           Start => G,
           BeginStop => G,
           \A f \in Forwarders : CloseDone(f) => G,
           \A f \in Forwarders : CloseWait(f) => G,
           EndStop => G,
           Crash => G,
           \A i \in Items : Expire(i) => G,
           \A i \in Items : Connect(i) => G,
           \A i \in Items : Handoff(i) => G,
           \A i \in Items : PutData(i) => G,
           \A i \in Items : PutMeta(i) => G,
           \A i \in Items : Spawn(i) => G,
           \A f \in Forwarders, i \in Items : Worker(f, i) => G
    PROVE  G
BY DEF Next, Close, Receive

\* Every step of a worker is one of its actions.
LEMMA WorkerCases ==
    ASSUME NEW f, NEW i, Worker(f, i), NEW G,
           LoadPayload(f, i) => G,
           Due(f, i) => G,
           Shutdown(f, i) => G,
           CheckDeadline(f, i) => G,
           SendOK(f, i) => G,
           SendFails(f, i) => G,
           Update(f, i) => G,
           Backoff(f, i) => G,
           DeadLetterMeta(f, i) => G,
           DeadLetterPayload(f, i) => G,
           RemoveMeta(f, i) => G,
           RemovePayload(f, i) => G,
           MemCheck(f, i) => G,
           MemSend(f, i) => G,
           MemBackoff(f, i) => G
    PROVE  G
BY DEF Worker, retryLoopPersisted, retryLoopMem

-----------------------------------------------------------------------------
(* Types *)

\* What a label change or a return does to the types of the workers.
LEMMA GotoType ==
    ASSUME TypeOK, NEW f \in Forwarders, NEW i \in Items, NEW label \in PC,
           Goto(f, i, label)
    PROVE  /\ pc' \in [Forwarders -> [Items -> PC]]
           /\ attempts' \in [Forwarders -> [Items -> Nat]]
BY DEF TypeOK, Goto

\* A worker that returns leaves well-typed workers.
LEMMA ReturnType ==
    ASSUME TypeOK, NEW f \in Forwarders, NEW i \in Items, Return(f, i)
    PROVE  /\ pc' \in [Forwarders -> [Items -> PC]]
           /\ attempts' \in [Forwarders -> [Items -> Nat]]
BY DEF TypeOK, Return, PC

\* The count of failing file operations stays within its bound.
LEMMA FaultType ==
    ASSUME TypeOK, Fault \/ NoFault
    PROVE  faults' \in 0..MaxFaults
BY SpoolAssumption DEF TypeOK, Fault, NoFault

\* The initial values have their types.
LEMMA InitType == Init => TypeOK
BY SpoolAssumption DEF Init, TypeOK, Forwarders, PC, Conn

\* The engine's own steps keep the types.
LEMMA EngineType ==
    ASSUME TypeOK
    PROVE  /\ Start => TypeOK'
           /\ BeginStop => TypeOK'
           /\ \A f \in Forwarders : CloseDone(f) \/ CloseWait(f) => TypeOK'
           /\ EndStop => TypeOK'
           /\ Crash => TypeOK'
<1> USE DEF disk, engine, handlers, workers, history, budget
<1>1. ASSUME Start PROVE TypeOK'
  <2>1. PICK cfg \in Configs, listening \in BOOLEAN, unread \in SUBSET Items :
          LET f == starts + 1
              replay == (Replayable \cap cfg) \ unread IN
          /\ IF unread = {} THEN NoFault ELSE Fault
          /\ pc' = [pc EXCEPT ![f] =
                      [i \in Items |-> IF i \in replay THEN "load" ELSE "none"]]
          /\ attempts' = [attempts EXCEPT ![f] =
                      [i \in Items |-> IF i \in replay THEN ReplayedAttempts(i) ELSE 0]]
          /\ known' = cfg
          /\ forward' = f
          /\ closers' = closers \cup {f}
          /\ starts' = f
          /\ phase' = IF listening THEN "up" ELSE "down"
    BY <1>1 DEF Start
  <2>2. starts + 1 \in Forwarders
    BY <1>1, SpoolAssumption DEF Start, TypeOK, Forwarders
  <2>3. \A i \in Replayable : i \in Items /\ ReplayedAttempts(i) \in Nat
    BY DEF Replayable, ReplayedAttempts, TypeOK
  <2>4. pc' \in [Forwarders -> [Items -> PC]]
    <3>1. [i \in Items |-> IF i \in (Replayable \cap cfg) \ unread THEN "load" ELSE "none"]
             \in [Items -> PC]
      BY DEF PC, PersistedPC
    <3>2. QED BY <2>1, <3>1 DEF TypeOK
  <2>5. attempts' \in [Forwarders -> [Items -> Nat]]
    <3>1. [i \in Items |-> IF i \in (Replayable \cap cfg) \ unread THEN ReplayedAttempts(i) ELSE 0]
             \in [Items -> Nat]
      BY <2>3
    <3>2. QED BY <2>1, <3>1 DEF TypeOK
  <2>6. /\ known' \subseteq Items
        /\ forward' \in {0} \cup Forwarders
        /\ closers' \subseteq Forwarders
        /\ starts' \in 0..MaxStarts
        /\ phase' \in {"down", "up", "closing"}
    BY <2>1, <2>2, SpoolAssumption DEF TypeOK, Forwarders
  <2>7. UNCHANGED <<disk, done, handlers, history, crashes>>
    BY <1>1 DEF Start
  <2>8. faults' \in 0..MaxFaults
    BY <2>1, FaultType
  <2>9. QED BY <2>4, <2>5, <2>6, <2>7, <2>8 DEF TypeOK
<1>2. BeginStop => TypeOK'
  BY DEF BeginStop, TypeOK
<1>3. ASSUME NEW f \in Forwarders, CloseDone(f) \/ CloseWait(f) PROVE TypeOK'
  BY <1>3 DEF CloseDone, CloseWait, TypeOK
<1>4. EndStop => TypeOK'
  BY DEF EndStop, TypeOK
<1>5. ASSUME Crash PROVE TypeOK'
  <2>1. /\ crashes' \in 0..MaxCrashes
        /\ conn' \in [Items -> Conn]
        /\ pc' \in [Forwarders -> [Items -> PC]]
        /\ attempts' \in [Forwarders -> [Items -> Nat]]
    BY <1>5, SpoolAssumption DEF Crash, TypeOK, Conn, PC
  <2>2. \A i \in Items : conn'[i] \in {"none", "finished"}
    BY <1>5 DEF Crash
  <2>3. QED BY <1>5, <2>1, <2>2 DEF Crash, TypeOK
<1>6. QED BY <1>1, <1>2, <1>3, <1>4, <1>5

\* The steps of a job's reception keep the types.
LEMMA ReceptionType ==
    ASSUME TypeOK, NEW i \in Items
    PROVE  Expire(i) \/ Connect(i) \/ Handoff(i) \/ PutData(i) \/ PutMeta(i) \/ Spawn(i)
           => TypeOK'
<1> USE DEF disk, engine, handlers, workers, history, budget
<1>1. Expire(i) => TypeOK'
  BY DEF Expire, TypeOK
<1>2. Connect(i) => TypeOK'
  BY DEF Connect, TypeOK, Conn
<1>3. ASSUME Handoff(i) PROVE TypeOK'
  <2>1. forward \in Forwarders
    BY <1>3 DEF Handoff, TypeOK
  <2>2. /\ conn' \in [Items -> Conn]
        /\ via' \in [Items -> {0} \cup Forwarders]
    BY <1>3, <2>1 DEF Handoff, TypeOK, Conn
  <2>3. via'[i] # 0
    BY <1>3, <2>1 DEF Handoff, TypeOK
  <2>4. \A k \in Items : k # i => conn'[k] = conn[k] /\ via'[k] = via[k]
    BY <1>3 DEF Handoff, TypeOK
  <2>5. QED BY <1>3, <2>2, <2>3, <2>4 DEF Handoff, TypeOK
<1>4. ASSUME PutData(i) PROVE TypeOK'
  <2>1. /\ conn' \in [Items -> Conn]
        /\ payload' \subseteq Items
        /\ via[i] # 0
        /\ \A k \in Items : k # i => conn'[k] = conn[k]
    BY <1>4 DEF PutData, TypeOK, Conn
  <2>2. faults' \in 0..MaxFaults
    BY <1>4, FaultType DEF PutData
  <2>3. QED BY <1>4, <2>1, <2>2 DEF PutData, TypeOK
<1>5. ASSUME PutMeta(i) PROVE TypeOK'
  <2>1. /\ conn' \in [Items -> Conn]
        /\ via[i] # 0
        /\ \A k \in Items : k # i => conn'[k] = conn[k]
    BY <1>5 DEF PutMeta, TypeOK, Conn
  <2>4. /\ meta' \in [Items -> Nat \cup {NoFile}]
        /\ accepted' \subseteq Items
    BY <1>5 DEF PutMeta, TypeOK
  <2>2. faults' \in 0..MaxFaults
    BY <1>5, FaultType DEF PutMeta
  <2>3. QED BY <1>5, <2>1, <2>2, <2>4 DEF PutMeta, TypeOK
<1>6. ASSUME Spawn(i) PROVE TypeOK'
  <2>1. via[i] \in Forwarders
    BY <1>6 DEF Spawn, TypeOK
  <2>2. /\ pc' \in [Forwarders -> [Items -> PC]]
        /\ attempts' \in [Forwarders -> [Items -> Nat]]
    BY <1>6, <2>1, GotoType DEF Spawn, PC, PersistedPC, MemPC
  <2>3. conn' \in [Items -> Conn] /\ conn'[i] = "finished"
    BY <1>6 DEF Spawn, TypeOK, Conn
  <2>4. \A k \in Items : k # i => conn'[k] = conn[k]
    BY <1>6 DEF Spawn, TypeOK
  <2>5. QED BY <1>6, <2>2, <2>3, <2>4 DEF Spawn, TypeOK
<1>7. QED BY <1>1, <1>2, <1>3, <1>4, <1>5, <1>6

\* A worker's steps keep the types: each moves its label or returns, and writes
\* at most one file or counter.
LEMMA WorkerType ==
    ASSUME TypeOK, NEW f \in Forwarders, NEW i \in Items, Worker(f, i)
    PROVE  TypeOK'
<1> DEFINE Run == /\ pc' \in [Forwarders -> [Items -> PC]]
                  /\ attempts' \in [Forwarders -> [Items -> Nat]]
<1> USE DEF disk, engine, handlers, workers, history, budget
<1>1. /\ \A label \in PC : Goto(f, i, label) => Run
      /\ Return(f, i) => Run
  BY GotoType, ReturnType
<1>2. PersistedPC \subseteq PC /\ MemPC \subseteq PC /\ "none" \in PC
  BY DEF PC
<1>3. Fault \/ NoFault => faults' \in 0..MaxFaults
  BY FaultType
<1> HIDE DEF Run
<1>4. LoadPayload(f, i) => TypeOK'
  BY <1>1, <1>2, <1>3 DEF LoadPayload, TypeOK, PersistedPC, Run
<1>5. Due(f, i) \/ Shutdown(f, i) \/ CheckDeadline(f, i) \/ Backoff(f, i) => TypeOK'
  BY <1>1, <1>2 DEF Due, Shutdown, CheckDeadline, Backoff, TypeOK, PersistedPC, Run
<1>6. SendOK(f, i) => TypeOK'
  BY <1>1, <1>2 DEF SendOK, TypeOK, PersistedPC, Run
<1>7. SendFails(f, i) => TypeOK'
  BY <1>2 DEF SendFails, TypeOK, PersistedPC
<1>8. Update(f, i) => TypeOK'
  BY <1>1, <1>2, <1>3 DEF Update, TypeOK, PersistedPC, Run
<1>9. DeadLetterMeta(f, i) \/ DeadLetterPayload(f, i) => TypeOK'
  BY <1>1, <1>2, <1>3 DEF DeadLetterMeta, DeadLetterPayload, TypeOK, PersistedPC, Run
<1>10. RemoveMeta(f, i) \/ RemovePayload(f, i) => TypeOK'
  BY <1>1, <1>2, <1>3 DEF RemoveMeta, RemovePayload, TypeOK, PersistedPC, Run
<1>11. MemCheck(f, i) \/ MemBackoff(f, i) => TypeOK'
  BY <1>1, <1>2 DEF MemCheck, MemBackoff, TypeOK, MemPC, Run
<1>12. ASSUME MemSend(f, i) PROVE TypeOK'
  <2>1. CASE sent' = [sent EXCEPT ![i] = @ + 1] /\ Return(f, i)
    BY <1>1, <1>12, <2>1 DEF MemSend, TypeOK, Run
  <2>2. CASE /\ attempts' = [attempts EXCEPT ![f][i] = @ + 1]
             /\ pc' = [pc EXCEPT ![f][i] = "memBackoff"]
             /\ UNCHANGED sent
    BY <1>2, <1>12, <2>2 DEF MemSend, TypeOK, MemPC
  <2>3. QED BY <1>12, <2>1, <2>2 DEF MemSend
<1>13. QED
  BY <1>4, <1>5, <1>6, <1>7, <1>8, <1>9, <1>10, <1>11, <1>12, WorkerCases

\* Every step keeps the types.
LEMMA NextType ==
    ASSUME TypeOK, [Next]_vars
    PROVE  TypeOK'
<1>1. CASE Next
  BY <1>1, NextCases, EngineType, ReceptionType, WorkerType
<1>2. CASE UNCHANGED vars
  BY <1>2 DEF vars, disk, engine, handlers, workers, history, budget, TypeOK
<1>3. QED BY <1>1, <1>2

\* The variables of the spool, its workers and its engine keep their types in
\* every behaviour.
THEOREM TypeCorrect == Spec => []TypeOK
<1>1. Init => TypeOK
  BY InitType
<1>2. TypeOK /\ [Next]_vars => TypeOK'
  BY NextType
<1>3. QED BY <1>1, <1>2, PTL DEF Spec, SafeSpec
-----------------------------------------------------------------------------
(* Nothing is lost *)

\* Nothing is accepted and no file is deleted at first.
LEMMA InitNothingLost == Init => NothingLostInv
BY DEF Init, NothingLostInv, NothingLost

\* A worker of a step that leaves files, deliveries and receptions alone, and
\* that starts no removal, cannot lose anything.
LEMMA HarmlessNothingLost ==
    ASSUME TypeOK, NothingLostInv, UNCHANGED disk, accepted' = accepted,
           \A i \in Items : sent'[i] >= sent[i],
           \A i \in Items : conn'[i] = "putMeta" => conn[i] = "putMeta",
           \A f \in Forwarders, i \in Items :
               pc'[f][i] \in {"removeMeta", "removePayload"} =>
                   pc[f][i] = pc'[f][i] \/ Delivered(i)',
           TypeOK'
    PROVE  NothingLostInv'
BY DEF NothingLostInv, NothingLost, Delivered, disk, TypeOK

\* Where the workers stand after one of them moved or returned.
LEMMA GotoPC ==
    ASSUME TypeOK, NEW f \in Forwarders, NEW i \in Items, NEW label,
           pc' = [pc EXCEPT ![f][i] = label]
    PROVE  \A g \in Forwarders, k \in Items :
               pc'[g][k] = IF g = f /\ k = i THEN label ELSE pc[g][k]
BY DEF TypeOK

\* The engine and the reception of jobs delete nothing.
LEMMA EngineNothingLost ==
    ASSUME TypeOK, NothingLostInv, TypeOK'
    PROVE  /\ Start => NothingLostInv'
           /\ BeginStop \/ EndStop => NothingLostInv'
           /\ \A f \in Forwarders : CloseDone(f) \/ CloseWait(f) => NothingLostInv'
           /\ Crash => NothingLostInv'
<1> USE DEF engine, handlers, workers, history, budget
<1>1. ASSUME Start PROVE NothingLostInv'
  <2>1. \A f \in Forwarders, i \in Items :
            pc'[f][i] \in {"load", "none"} \/ pc'[f][i] = pc[f][i]
    BY <1>1 DEF Start, TypeOK
  <2>2. QED BY <1>1, <2>1, HarmlessNothingLost DEF Start, TypeOK
<1>2. BeginStop \/ EndStop => NothingLostInv'
  BY HarmlessNothingLost DEF BeginStop, EndStop, TypeOK
<1>3. ASSUME NEW f \in Forwarders, CloseDone(f) \/ CloseWait(f)
      PROVE  NothingLostInv'
  BY <1>3, HarmlessNothingLost DEF CloseDone, CloseWait, TypeOK
<1>4. ASSUME Crash PROVE NothingLostInv'
  BY <1>4, HarmlessNothingLost DEF Crash, TypeOK
<1>5. QED BY <1>1, <1>2, <1>3, <1>4

\* Reception writes the payload before the metadata and deletes nothing.
LEMMA ReceptionNothingLost ==
    ASSUME TypeOK, NothingLostInv, TypeOK', NEW i \in Items
    PROVE  Expire(i) \/ Connect(i) \/ Handoff(i) \/ PutData(i) \/ PutMeta(i) \/ Spawn(i)
           => NothingLostInv'
<1> USE DEF engine, handlers, workers, history, budget
<1>1. Expire(i) \/ Connect(i) => NothingLostInv'
  BY HarmlessNothingLost DEF Expire, Connect, TypeOK
<1>2. Handoff(i) => NothingLostInv'
  BY HarmlessNothingLost DEF Handoff, TypeOK
<1>3. PutData(i) => NothingLostInv'
  BY DEF PutData, NothingLostInv, NothingLost, Delivered, TypeOK
<1>4. ASSUME PutMeta(i) PROVE NothingLostInv'
  <2>1. CASE accepted' = accepted \cup {i} /\ meta' = [meta EXCEPT ![i] = 0]
    BY <1>4, <2>1, SpoolAssumption
       DEF PutMeta, NothingLostInv, NothingLost, Delivered, TypeOK
  <2>2. CASE UNCHANGED <<meta, accepted>>
    BY <1>4, <2>2 DEF PutMeta, NothingLostInv, NothingLost, Delivered, TypeOK
  <2>3. QED BY <1>4, <2>1, <2>2 DEF PutMeta
<1>5. ASSUME Spawn(i) PROVE NothingLostInv'
  <2>1. via[i] \in Forwarders
    BY <1>5 DEF Spawn, TypeOK
  <2>2. \A g \in Forwarders, k \in Items :
            pc'[g][k] \in {"load", "memCheck"} \/ pc'[g][k] = pc[g][k]
    BY <1>5, <2>1, GotoPC DEF Spawn, Goto
  <2>3. \A k \in Items : conn'[k] = "putMeta" => conn[k] = "putMeta"
    BY <1>5 DEF Spawn, TypeOK
  <2>4. UNCHANGED <<disk, accepted, sent>>
    BY <1>5 DEF Spawn
  <2>5. \A k \in Items : sent'[k] >= sent[k]
    BY <2>4 DEF TypeOK
  <2>6. QED BY <2>2, <2>3, <2>4, <2>5, HarmlessNothingLost
<1>6. QED BY <1>1, <1>2, <1>3, <1>4, <1>5

\* A worker deletes files after a delivery only, and moves them otherwise.
LEMMA WorkerNothingLost ==
    ASSUME TypeOK, NothingLostInv, TypeOK', NEW f \in Forwarders, NEW i \in Items,
           Worker(f, i)
    PROVE  NothingLostInv'
<1> USE DEF engine, handlers, workers, history, budget
<1>1. \A label : pc' = [pc EXCEPT ![f][i] = label] =>
          \A g \in Forwarders, k \in Items :
              pc'[g][k] = IF g = f /\ k = i THEN label ELSE pc[g][k]
  <2>1. ASSUME NEW label, pc' = [pc EXCEPT ![f][i] = label]
        PROVE  \A g \in Forwarders, k \in Items :
                   pc'[g][k] = IF g = f /\ k = i THEN label ELSE pc[g][k]
    BY <2>1 DEF TypeOK
  <2>2. QED BY <2>1
<1>2. ASSUME \/ LoadPayload(f, i) \/ Due(f, i) \/ Shutdown(f, i)
             \/ CheckDeadline(f, i) \/ Backoff(f, i)
             \/ MemCheck(f, i) \/ MemBackoff(f, i)
      PROVE  NothingLostInv'
  <2>1. \A g \in Forwarders, k \in Items :
            pc'[g][k] \in {"removeMeta", "removePayload"} => pc[g][k] = pc'[g][k]
    <3>1. \E label \in {"due", "deadMeta", "check", "send", "none",
                         "memSend", "memCheck"} :
              pc' = [pc EXCEPT ![f][i] = label]
      BY <1>2 DEF LoadPayload, Due, Shutdown, CheckDeadline, Backoff,
                  MemCheck, MemBackoff, Goto, Return
    <3>2. QED BY <1>1, <3>1
  <2>2. UNCHANGED <<disk, conn, accepted, sent>>
    BY <1>2 DEF LoadPayload, Due, Shutdown, CheckDeadline, Backoff,
                MemCheck, MemBackoff
  <2>3. QED BY <2>1, <2>2, HarmlessNothingLost DEF TypeOK
<1>3. ASSUME SendOK(f, i) \/ SendFails(f, i) \/ MemSend(f, i)
      PROVE  NothingLostInv'
  <2>1. \A k \in Items : sent'[k] >= sent[k]
    <3>1. sent' = sent \/ sent' = [sent EXCEPT ![i] = @ + 1]
      BY <1>3 DEF SendOK, SendFails, MemSend
    <3>2. sent \in [Items -> Nat]
      BY DEF TypeOK
    <3>3. QED BY <3>1, <3>2
  <2>2. \A g \in Forwarders, k \in Items :
            pc'[g][k] \in {"removeMeta", "removePayload"} =>
                pc[g][k] = pc'[g][k] \/ Delivered(k)'
    <3>1. CASE SendOK(f, i)
      <4>1. pc' = [pc EXCEPT ![f][i] = "removeMeta"] /\ sent' = [sent EXCEPT ![i] = @ + 1]
        BY <3>1 DEF SendOK, Goto
      <4>2. sent[i] \in Nat /\ sent'[i] = sent[i] + 1
        BY <4>1 DEF TypeOK
      <4>3. Delivered(i)'
        BY <4>2 DEF Delivered
      <4>4. QED BY <1>1, <4>1, <4>3
    <3>2. CASE SendFails(f, i) \/ MemSend(f, i)
      <4>1. \E label \in {"update", "none", "memBackoff"} :
                pc' = [pc EXCEPT ![f][i] = label]
        BY <3>2 DEF SendFails, MemSend, Goto, Return
      <4>2. QED BY <1>1, <4>1
    <3>3. QED BY <1>3, <3>1, <3>2
  <2>3. UNCHANGED <<disk, conn, accepted>>
    BY <1>3 DEF SendOK, SendFails, MemSend
  <2>4. QED BY <2>1, <2>2, <2>3, HarmlessNothingLost
<1>4. ASSUME Update(f, i) PROVE NothingLostInv'
  <2>1. \A g \in Forwarders, k \in Items :
            pc'[g][k] \in {"removeMeta", "removePayload"} => pc[g][k] = pc'[g][k]
    <3>1. \E label \in {"deadMeta", "backoff"} : pc' = [pc EXCEPT ![f][i] = label]
      BY <1>4 DEF Update, Goto
    <3>2. QED BY <1>1, <3>1
  <2>2. \A k \in Items : meta[k] # NoFile => meta'[k] # NoFile
    BY <1>4, SpoolAssumption DEF Update, TypeOK
  <2>3. QED BY <1>4, <2>1, <2>2
            DEF Update, NothingLostInv, NothingLost, Delivered, TypeOK
<1>5. ASSUME DeadLetterMeta(f, i) PROVE NothingLostInv'
  <2>1. \A g \in Forwarders, k \in Items :
            pc'[g][k] \in {"removeMeta", "removePayload"} => pc[g][k] = pc'[g][k]
    <3>1. \E label \in {"deadPayload", "none"} : pc' = [pc EXCEPT ![f][i] = label]
      BY <1>5 DEF DeadLetterMeta, Goto, Return
    <3>2. QED BY <1>1, <3>1
  <2>2. \A k \in Items : meta[k] # NoFile \/ k \in deadMeta =>
                         meta'[k] # NoFile \/ k \in deadMeta'
    BY <1>5 DEF DeadLetterMeta, TypeOK
  <2>3. QED BY <1>5, <2>1, <2>2
            DEF DeadLetterMeta, NothingLostInv, NothingLost, Delivered, TypeOK
<1>6. ASSUME DeadLetterPayload(f, i) PROVE NothingLostInv'
  <2>1. \A g \in Forwarders, k \in Items :
            pc'[g][k] \in {"removeMeta", "removePayload"} => pc[g][k] = pc'[g][k]
    BY <1>1, <1>6 DEF DeadLetterPayload, Return
  <2>2. payload' \cup deadPayload' = payload \cup deadPayload
    BY <1>6 DEF DeadLetterPayload
  <2>3. QED BY <1>6, <2>1, <2>2
            DEF DeadLetterPayload, NothingLostInv, NothingLost, Delivered, TypeOK
<1>7. ASSUME RemoveMeta(f, i) \/ RemovePayload(f, i) PROVE NothingLostInv'
  <2>1. Delivered(i)
    BY <1>7 DEF RemoveMeta, RemovePayload, NothingLostInv
  <2>2. \A g \in Forwarders, k \in Items :
            pc'[g][k] \in {"removeMeta", "removePayload"} =>
                pc[g][k] = pc'[g][k] \/ k = i
    <3>1. \E label : pc' = [pc EXCEPT ![f][i] = label]
      BY <1>7 DEF RemoveMeta, RemovePayload, Goto, Return
    <3>2. QED BY <1>1, <3>1
  <2>3. /\ \A k \in Items : k # i => meta'[k] = meta[k]
        /\ \A k \in Items : k # i => (k \in payload' <=> k \in payload)
        /\ UNCHANGED <<deadMeta, deadPayload, conn, accepted, sent>>
    BY <1>7 DEF RemoveMeta, RemovePayload, TypeOK
  <2>4. QED BY <2>1, <2>2, <2>3 DEF NothingLostInv, NothingLost, Delivered, TypeOK
<1>8. QED BY <1>2, <1>3, <1>4, <1>5, <1>6, <1>7, WorkerCases

LEMMA NothingLostStep ==
    TypeOK /\ TypeOK' /\ NothingLostInv /\ [Next]_vars => NothingLostInv'
<1> SUFFICES ASSUME TypeOK, TypeOK', NothingLostInv, [Next]_vars
             PROVE  NothingLostInv'
  OBVIOUS
<1>1. CASE Next
  BY <1>1, NextCases, EngineNothingLost, ReceptionNothingLost, WorkerNothingLost
<1>2. CASE UNCHANGED vars
  BY <1>2, HarmlessNothingLost
     DEF vars, disk, engine, handlers, workers, history, budget, TypeOK
<1>3. QED BY <1>1, <1>2

\* A job that put accepted is delivered or still on disk, in every behaviour:
\* the durability promised by the spool store.
THEOREM Durability == Spec => []NothingLost
<1>1. Init => NothingLostInv
  BY InitNothingLost
<1>2. NothingLostInv => NothingLost
  BY DEF NothingLostInv
<1>3. QED BY <1>1, <1>2, NothingLostStep, TypeCorrect, PTL DEF Spec, SafeSpec


-----------------------------------------------------------------------------
(* One worker at a time *)

\* What the proofs from here on assume of a run: no connection outlives the
\* forwarder it was accepted under, and every start binds a listener.  The run
\* spool_restart shows what happens otherwise.
Orderly == ~LateHandoffs /\ ~EmptyStarts

Idle == \A f \in Forwarders, i \in Items : pc[f][i] = "none"
Quiet == \A i \in Items : conn[i] \in {"none", "finished"}

\* The forwarders are closed one after the other: a worker belongs to the newest.
EngineInv ==
    /\ phase = "down" => Idle /\ Quiet /\ closers = {}
    /\ phase = "up" => forward = starts /\ closers = {starts}
    /\ phase = "closing" => Quiet /\ closers \subseteq {starts} /\ (closers = {} => Idle)
    /\ \A f \in Forwarders, i \in Items : Busy(f, i) => f = starts
    /\ \A i \in Items : conn[i] \in {"putData", "putMeta", "spawn", "spawnMem"} => via[i] = starts

Mishaps == crashes + faults

\* The job may be sent once more, or was and may be sent again after a mishap.
Settled(i) ==
    /\ tries[i] <= MaxAttempts - 1 + Mishaps /\ tries[i] <= meta[i] + Mishaps
    /\ sent[i] <= Mishaps
Strained(i) ==
    /\ tries[i] <= MaxAttempts + Mishaps /\ tries[i] <= meta[i] + 1 + Mishaps
    /\ sent[i] <= 1 + Mishaps

Trying == {"load", "due", "check", "send", "backoff"}
Holding == Trying \cup {"update", "deadMeta", "removeMeta"}

\* A job on its way into the queue.
ReceivedInv(i) ==
    /\ conn[i] \in {"none", "open", "putData", "putMeta", "spawn", "spawnMem"} =>
          /\ \A f \in Forwarders : pc[f][i] = "none"
          /\ sent[i] = 0 /\ tries[i] = 0
          /\ conn[i] # "spawn" => meta[i] = NoFile /\ i \notin accepted
    /\ conn[i] = "spawn" => meta[i] # NoFile
    /\ conn[i] = "putMeta" => i \in payload

\* A job with f's worker.
WorkedInv(f, i) ==
    /\ pc[f][i] = "none" => attempts[f][i] = 0
    /\ pc[f][i] \in Holding => meta[i] # NoFile /\ Strained(i)
    /\ pc[f][i] \in Trying => Settled(i)
    /\ pc[f][i] \in Trying \cup {"update"} =>
          tries[i] <= attempts[f][i] + Mishaps /\ sent[i] <= Mishaps
    /\ pc[f][i] = "backoff" => attempts[f][i] < MaxAttempts
    /\ pc[f][i] \in MemPC => meta[i] = NoFile /\ i \notin accepted /\ sent[i] <= Mishaps
    /\ pc[f][i] = "deadMeta" /\ faults = 0 => meta[i] >= MaxAttempts \/ i \in expired
    /\ pc[f][i] \in {"deadPayload", "removePayload"} /\ faults = 0 => meta[i] = NoFile

\* A job in any state.
JobInv(i) ==
    /\ tries[i] <= MaxAttempts + Mishaps /\ sent[i] <= 1 + Mishaps
    /\ meta[i] # NoFile /\ (\A f \in Forwarders : pc[f][i] \notin {"update", "deadMeta", "removeMeta"})
          => Settled(i)
    /\ meta[i] # NoFile => i \in accepted /\ (faults = 0 => i \in payload)

SpoolInv == \A i \in Items : ReceivedInv(i) /\ JobInv(i) /\ \A f \in Forwarders : WorkedInv(f, i)

\* Once per forwarder
StartedInv ==
    /\ forward <= starts
    /\ \A f \in Forwarders, i \in Items : Busy(f, i) => f <= starts
    /\ \A i \in Items :
          /\ via[i] <= starts
          /\ conn[i] \in {"none", "open", "putData", "putMeta", "spawnMem"} =>
                sent[i] = 0 /\ meta[i] = NoFile /\ \A f \in Forwarders : pc[f][i] = "none"
          /\ conn[i] = "spawn" => \A f \in Forwarders : Busy(f, i) => f > via[i]

\* The forwarders that have delivered the job and are done with it.
DeliverersInv ==
    \A i \in Items :
        \E D \in SUBSET (1..starts) :
            /\ IsFiniteSet(D) /\ Cardinality(D) = sent[i]
            /\ \A f \in D : pc[f][i] \in {"none", "removeMeta", "removePayload"}
            /\ conn[i] = "spawn" => \A f \in D : f > via[i]

-----------------------------------------------------------------------------
(* What a step changes *)

\* A step of a worker touches its job only, and delivers it at most once.
LEMMA WorkerFrame ==
    ASSUME TypeOK, NEW f \in Forwarders, NEW i \in Items, Worker(f, i)
    PROVE  /\ Busy(f, i)
           /\ UNCHANGED <<phase, forward, closers, starts, conn, via, accepted, expired, crashes>>
           /\ \A g \in Forwarders, k \in Items : g # f \/ k # i =>
                 pc'[g][k] = pc[g][k] /\ attempts'[g][k] = attempts[g][k]
           /\ \A k \in Items : k # i =>
                 /\ meta'[k] = meta[k] /\ sent'[k] = sent[k] /\ tries'[k] = tries[k]
                 /\ k \in payload' <=> k \in payload
                 /\ k \in deadMeta' <=> k \in deadMeta
           /\ \/ sent'[i] = sent[i]
              \/ /\ sent'[i] = sent[i] + 1 /\ pc[f][i] \in {"send", "memSend"}
                 /\ pc'[f][i] \in {"none", "removeMeta"}
           /\ pc[f][i] \in {"removeMeta", "removePayload"} => pc'[f][i] \in {"none", "removePayload"}
           /\ faults' \in {faults, faults + 1}
<1> USE DEF disk, engine, handlers, workers, history, budget
<1>0. /\ pc \in [Forwarders -> [Items -> PC]] /\ attempts \in [Forwarders -> [Items -> Nat]]
      /\ meta \in [Items -> Nat \cup {NoFile}] /\ sent \in [Items -> Nat] /\ tries \in [Items -> Nat]
  BY DEF TypeOK
<1>1. /\ Busy(f, i)
      /\ UNCHANGED <<phase, forward, closers, starts, conn, via, accepted, expired, crashes>>
  <2>1. Busy(f, i)
    BY DEF Worker, retryLoopPersisted, retryLoopMem, LoadPayload, Due, Shutdown, CheckDeadline,
           SendOK, SendFails, Update, Backoff, DeadLetterMeta, DeadLetterPayload, RemoveMeta,
           RemovePayload, MemCheck, MemSend, MemBackoff, Busy
  <2>2. UNCHANGED <<phase, forward, closers, starts, conn, via, accepted, expired, crashes>>
    BY WorkerCases DEF LoadPayload, Due, Shutdown, CheckDeadline,
           SendOK, SendFails, Update, Backoff, DeadLetterMeta, DeadLetterPayload, RemoveMeta,
           RemovePayload, MemCheck, MemSend, MemBackoff
  <2>3. QED BY <2>1, <2>2
<1>2. \E label, n : pc' = [pc EXCEPT ![f][i] = label] /\ attempts' = [attempts EXCEPT ![f][i] = n]
  <2>1. attempts = [attempts EXCEPT ![f][i] = attempts[f][i]]
    BY <1>0
  <2>2. \A label : Goto(f, i, label) =>
          pc' = [pc EXCEPT ![f][i] = label] /\ attempts' = [attempts EXCEPT ![f][i] = attempts[f][i]]
    BY <2>1 DEF Goto
  <2>3. Return(f, i) =>
          pc' = [pc EXCEPT ![f][i] = "none"] /\ attempts' = [attempts EXCEPT ![f][i] = 0]
    BY DEF Return
  <2>4. CASE SendFails(f, i) \/ MemSend(f, i)
    <3>1. \/ Return(f, i)
          \/ \E label : /\ attempts' = [attempts EXCEPT ![f][i] = attempts[f][i] + 1]
                        /\ pc' = [pc EXCEPT ![f][i] = label]
      BY <2>4 DEF SendFails, MemSend
    <3>2. QED BY <2>3, <3>1
  <2>5. CASE ~SendFails(f, i) /\ ~MemSend(f, i)
    <3>1. Return(f, i) \/ \E label : Goto(f, i, label)
      BY <2>5 DEF Worker, retryLoopPersisted, retryLoopMem, LoadPayload, Due, Shutdown,
           CheckDeadline, SendOK, Update, Backoff, DeadLetterMeta, DeadLetterPayload, RemoveMeta,
           RemovePayload, MemCheck, MemBackoff
    <3>2. QED BY <2>2, <2>3, <3>1
  <2>6. QED BY <2>4, <2>5
<1>3. \A g \in Forwarders, k \in Items : g # f \/ k # i =>
         pc'[g][k] = pc[g][k] /\ attempts'[g][k] = attempts[g][k]
  BY <1>0, <1>2
<1>4. /\ \A k \in Items : k # i =>
            /\ meta'[k] = meta[k] /\ sent'[k] = sent[k] /\ tries'[k] = tries[k]
            /\ k \in payload' <=> k \in payload
            /\ k \in deadMeta' <=> k \in deadMeta
      /\ faults' \in {faults, faults + 1}
  <2> DEFINE G == /\ \A k \in Items : k # i =>
                        /\ meta'[k] = meta[k] /\ sent'[k] = sent[k] /\ tries'[k] = tries[k]
                        /\ k \in payload' <=> k \in payload
                        /\ k \in deadMeta' <=> k \in deadMeta
                  /\ faults' \in {faults, faults + 1}
  <2>1. LoadPayload(f, i) \/ Due(f, i) \/ Shutdown(f, i) \/ CheckDeadline(f, i) \/ Backoff(f, i)
           \/ MemCheck(f, i) \/ MemBackoff(f, i) => G
    BY DEF LoadPayload, Due, Shutdown, CheckDeadline, Backoff, MemCheck, MemBackoff, Fault, NoFault
  <2>2. SendOK(f, i) \/ SendFails(f, i) \/ MemSend(f, i) => G
    BY <1>0 DEF SendOK, SendFails, MemSend
  <2>3. Update(f, i) \/ DeadLetterMeta(f, i) \/ RemoveMeta(f, i) => G
    BY <1>0 DEF Update, DeadLetterMeta, RemoveMeta, Fault, NoFault
  <2>4. DeadLetterPayload(f, i) \/ RemovePayload(f, i) => G
    BY DEF DeadLetterPayload, RemovePayload, Fault, NoFault
  <2> HIDE DEF G
  <2>5. G
    BY <2>1, <2>2, <2>3, <2>4, WorkerCases
  <2>6. QED BY <2>5 DEF G
<1>5. \/ sent'[i] = sent[i]
      \/ /\ sent'[i] = sent[i] + 1 /\ pc[f][i] \in {"send", "memSend"}
         /\ pc'[f][i] \in {"none", "removeMeta"}
  <2>1. CASE SendOK(f, i)
    BY <1>0, <2>1 DEF SendOK, Goto
  <2>2. CASE MemSend(f, i)
    BY <1>0, <2>2 DEF MemSend, Return
  <2>3. CASE ~SendOK(f, i) /\ ~MemSend(f, i)
    BY <2>3 DEF Worker, retryLoopPersisted, retryLoopMem, LoadPayload, Due, Shutdown,
           CheckDeadline, SendFails, Update, Backoff, DeadLetterMeta, DeadLetterPayload, RemoveMeta,
           RemovePayload, MemCheck, MemBackoff
  <2>4. QED BY <2>1, <2>2, <2>3
<1>6. pc[f][i] \in {"removeMeta", "removePayload"} => pc'[f][i] \in {"none", "removePayload"}
  <2>1. pc[f][i] \in {"removeMeta", "removePayload"} => RemoveMeta(f, i) \/ RemovePayload(f, i)
    BY DEF Worker, retryLoopPersisted, retryLoopMem, LoadPayload, Due, Shutdown,
           CheckDeadline, SendOK, SendFails, Update, Backoff, DeadLetterMeta, DeadLetterPayload,
           MemCheck, MemSend, MemBackoff
  <2>2. QED BY <1>0, <2>1 DEF RemoveMeta, RemovePayload, Goto, Return
<1>7. QED BY <1>1, <1>3, <1>4, <1>5, <1>6

-----------------------------------------------------------------------------
(* Once per forwarder *)

LEMMA StartIs ==
    ASSUME TypeOK, Start
    PROVE  /\ starts' = starts + 1 /\ forward' = starts + 1 /\ starts + 1 \in Forwarders
           /\ closers' = closers \cup {starts + 1} /\ phase = "down"
           /\ phase' = "up" \/ (EmptyStarts /\ phase' = "down")
           /\ faults' >= faults
           /\ UNCHANGED <<disk, done, conn, via, expired, accepted, tries, sent, crashes>>
           /\ \A g \in Forwarders, k \in Items :
                 IF g # starts + 1
                 THEN pc'[g][k] = pc[g][k] /\ attempts'[g][k] = attempts[g][k]
                 ELSE \/ pc'[g][k] = "none" /\ attempts'[g][k] = 0
                      \/ k \in Replayable /\ pc'[g][k] = "load" /\ attempts'[g][k] = meta[k]
<1>1. PICK cfg \in Configs, listening \in BOOLEAN, unread \in SUBSET Items :
        LET f == starts + 1
            replay == (Replayable \cap cfg) \ unread IN
        /\ listening \/ EmptyStarts
        /\ IF unread = {} THEN NoFault ELSE Fault
        /\ pc' = [pc EXCEPT ![f] =
                    [i \in Items |-> IF i \in replay THEN "load" ELSE "none"]]
        /\ attempts' = [attempts EXCEPT ![f] =
                    [i \in Items |-> IF i \in replay THEN ReplayedAttempts(i) ELSE 0]]
        /\ forward' = f
        /\ closers' = closers \cup {f}
        /\ starts' = f
        /\ phase' = IF listening THEN "up" ELSE "down"
  BY DEF Start
<1>2. starts + 1 \in Forwarders
  BY SpoolAssumption DEF Start, TypeOK, Forwarders
<1>3. faults' >= faults
  BY <1>1, SpoolAssumption DEF Fault, NoFault, TypeOK
<1>4. ASSUME NEW g \in Forwarders, NEW k \in Items
      PROVE  IF g # starts + 1
             THEN pc'[g][k] = pc[g][k] /\ attempts'[g][k] = attempts[g][k]
             ELSE \/ pc'[g][k] = "none" /\ attempts'[g][k] = 0
                  \/ k \in Replayable /\ pc'[g][k] = "load" /\ attempts'[g][k] = meta[k]
  BY <1>1, <1>2 DEF TypeOK, ReplayedAttempts
<1>5. UNCHANGED <<disk, done, conn, via, expired, accepted, tries, sent, crashes>> /\ phase = "down"
  BY DEF Start, handlers, history
<1>6. QED BY <1>1, <1>2, <1>3, <1>4, <1>5

LEMMA StartedInit == Init => StartedInv /\ DeliverersInv
<1> SUFFICES ASSUME Init PROVE StartedInv /\ DeliverersInv
  OBVIOUS
<1>1. StartedInv
  BY DEF Init, StartedInv, Busy
<1>2. IsFiniteSet({}) /\ Cardinality({}) = 0
  BY FS_EmptySet
<1>3. DeliverersInv
  BY <1>2 DEF Init, DeliverersInv
<1>4. QED BY <1>1, <1>3

LEMMA StartedStep ==
    ASSUME TypeOK, StartedInv, [Next]_vars
    PROVE  StartedInv'
<1> USE DEF disk, engine, handlers, workers, history, budget
<1>0. starts \in Nat /\ \A i \in Items : via[i] \in Nat
  BY DEF TypeOK, Forwarders
<1>1. ASSUME Start PROVE StartedInv'
  <2>1. ASSUME NEW f \in Forwarders, NEW i \in Items
        PROVE  /\ Busy(f, i)' => f <= starts'
               /\ Busy(f, i)' => Busy(f, i) \/ (i \in Replayable /\ f = starts + 1)
    BY <1>0, <1>1, StartIs DEF Busy, StartedInv, Forwarders
  <2>2. forward' <= starts'
    BY <1>0, <1>1, StartIs
  <2>3. ASSUME NEW i \in Items
        PROVE  /\ via'[i] <= starts'
               /\ conn'[i] \in {"none", "open", "putData", "putMeta", "spawnMem"} =>
                     sent'[i] = 0 /\ meta'[i] = NoFile /\ \A f \in Forwarders : pc'[f][i] = "none"
               /\ conn'[i] = "spawn" => \A f \in Forwarders : Busy(f, i)' => f > via'[i]
    <3>1. via[i] <= starts /\ starts' = starts + 1
      BY <1>1, StartIs DEF StartedInv
    <3>2. via'[i] <= starts' /\ starts + 1 > via[i]
      BY <1>0, <1>1, <3>1, StartIs
    <3>3. UNCHANGED <<conn, via, sent, meta>>
      BY <1>1, StartIs
    <3>4. conn[i] \in {"none", "open", "putData", "putMeta", "spawnMem"} => i \notin Replayable
      BY DEF StartedInv, Replayable
    <3>5. QED BY <2>1, <3>2, <3>3, <3>4 DEF StartedInv, Busy
  <2>4. QED BY <2>1, <2>2, <2>3 DEF StartedInv
<1>2. BeginStop \/ EndStop => StartedInv'
  BY DEF BeginStop, EndStop, StartedInv, Busy
<1>3. ASSUME NEW f \in Forwarders, CloseDone(f) \/ CloseWait(f) PROVE StartedInv'
  BY <1>3 DEF CloseDone, CloseWait, StartedInv, Busy
<1>4. Crash => StartedInv'
  BY <1>0 DEF Crash, StartedInv, Busy, TypeOK
<1>5. ASSUME NEW i \in Items, Expire(i) \/ Connect(i) \/ Handoff(i) \/ PutData(i)
      PROVE  StartedInv'
  <2>1. UNCHANGED <<starts, forward, pc, sent, meta>>
    BY <1>5 DEF Expire, Connect, Handoff, PutData
  <2>2. \A k \in Items : /\ via'[k] = via[k] \/ via'[k] = forward
                         /\ conn'[k] # "spawn" \/ (conn'[k] = conn[k] /\ via'[k] = via[k])
    BY <1>5 DEF Expire, Connect, Handoff, PutData, TypeOK
  <2>3. \A k \in Items :
           conn'[k] \in {"none", "open", "putData", "putMeta", "spawnMem"} =>
              conn[k] \in {"none", "open", "putData", "putMeta", "spawnMem"}
    BY <1>5 DEF Expire, Connect, Handoff, PutData, TypeOK
  <2>4. QED BY <2>1, <2>2, <2>3 DEF StartedInv, Busy
<1>6. ASSUME NEW i \in Items, PutMeta(i) PROVE StartedInv'
  <2>1. /\ UNCHANGED <<starts, forward, pc, sent, via>> /\ conn[i] = "putMeta"
        /\ \A k \in Items : k # i => conn'[k] = conn[k] /\ meta'[k] = meta[k]
        /\ conn'[i] = "spawn" \/ (conn'[i] = "spawnMem" /\ meta' = meta)
    BY <1>6 DEF PutMeta, TypeOK
  <2>2. \A f \in Forwarders : pc[f][i] = "none"
    BY <2>1 DEF StartedInv
  <2>3. QED BY <2>1, <2>2 DEF StartedInv, Busy
<1>7. ASSUME NEW i \in Items, Spawn(i) PROVE StartedInv'
  <2>1. via[i] \in Forwarders /\ via[i] <= starts
    BY <1>7 DEF Spawn, TypeOK, StartedInv
  <2>2. /\ UNCHANGED <<starts, forward, sent, via, meta>> /\ conn'[i] = "finished"
        /\ \A k \in Items : k # i => conn'[k] = conn[k]
        /\ \A g \in Forwarders, k \in Items : g # via[i] \/ k # i => pc'[g][k] = pc[g][k]
    BY <1>7, <2>1 DEF Spawn, Goto, TypeOK
  <2>3. \A g \in Forwarders, k \in Items : Busy(g, k)' => g <= starts
    BY <2>1, <2>2 DEF StartedInv, Busy
  <2>4. QED BY <2>2, <2>3 DEF StartedInv, Busy
<1>8. ASSUME NEW f \in Forwarders, NEW i \in Items, Worker(f, i) PROVE StartedInv'
  <2>1. /\ Busy(f, i)
        /\ UNCHANGED <<forward, starts, conn, via>>
        /\ \A g \in Forwarders, k \in Items : g # f \/ k # i => pc'[g][k] = pc[g][k]
        /\ \A k \in Items : k # i => meta'[k] = meta[k] /\ sent'[k] = sent[k]
    BY <1>8, WorkerFrame
  <2>2. conn[i] \notin {"none", "open", "putData", "putMeta", "spawnMem"}
    BY <2>1 DEF StartedInv, Busy
  <2>3. \A g \in Forwarders, k \in Items : Busy(g, k)' => Busy(g, k)
    BY <2>1 DEF Busy
  <2>4. QED BY <2>1, <2>2, <2>3 DEF StartedInv, Busy
<1>9. CASE UNCHANGED vars
  BY <1>9 DEF vars, StartedInv, Busy
<1>10. Next => StartedInv'
  BY <1>1, <1>2, <1>3, <1>4, <1>5, <1>6, <1>7, <1>8, NextCases
<1>11. QED BY <1>9, <1>10

\* What counts the deliveries of a job.
Deliverers(i, D) ==
    /\ IsFiniteSet(D) /\ Cardinality(D) = sent[i]
    /\ \A f \in D : pc[f][i] \in {"none", "removeMeta", "removePayload"}
    /\ conn[i] = "spawn" => \A f \in D : f > via[i]

LEMMA DeliverersStep ==
    ASSUME TypeOK, StartedInv, DeliverersInv, [Next]_vars
    PROVE  DeliverersInv'
<1> USE DEF disk, engine, handlers, workers, history, budget
<1>0. starts \in Nat /\ starts \in 0..MaxStarts /\ 1..starts \subseteq Forwarders
      /\ MaxStarts \in Nat
  BY SpoolAssumption DEF TypeOK, Forwarders
<1>1. \A i \in Items : \E D \in SUBSET (1..starts) : Deliverers(i, D)
  BY DEF DeliverersInv, Deliverers
<1>2. ASSUME starts' >= starts, starts' \in Nat,
             \A i \in Items : \A D \in SUBSET (1..starts) :
                Deliverers(i, D) => \E E \in SUBSET (1..starts') : Deliverers(i, E)'
      PROVE  DeliverersInv'
  <2>1. \A i \in Items : \E E \in SUBSET (1..starts') : Deliverers(i, E)'
    BY <1>1, <1>2
  <2>2. QED BY <2>1 DEF DeliverersInv, Deliverers
<1>3. ASSUME starts' >= starts, starts' \in Nat, UNCHANGED <<sent, via>>,
             \A i \in Items : conn'[i] = "spawn" => conn[i] = "spawn",
             \A f \in 1..starts, i \in Items : pc'[f][i] = pc[f][i] \/ pc'[f][i] = "none"
      PROVE  DeliverersInv'
  <2>1. 1..starts \subseteq 1..starts'
    BY <1>0, <1>3
  <2>2. \A i \in Items : \A D \in SUBSET (1..starts) : Deliverers(i, D) => Deliverers(i, D)'
    BY <1>3 DEF Deliverers
  <2>3. QED BY <1>2, <1>3, <2>1, <2>2
<1>4. Start => DeliverersInv'
  <2> SUFFICES ASSUME Start PROVE DeliverersInv'
    OBVIOUS
  <2>1. starts' >= starts /\ starts' \in Nat /\ UNCHANGED <<sent, via, conn>>
    BY <1>0, StartIs
  <2>2. ASSUME NEW f \in 1..starts, NEW i \in Items PROVE pc'[f][i] = pc[f][i]
    <3>1. f # starts + 1 /\ f \in Forwarders
      BY <1>0
    <3>2. QED BY <3>1, StartIs
  <2>3. QED BY <1>3, <2>1, <2>2
<1>5. BeginStop \/ EndStop => DeliverersInv'
  BY <1>0, <1>3 DEF BeginStop, EndStop
<1>6. ASSUME NEW f \in Forwarders, CloseDone(f) \/ CloseWait(f) PROVE DeliverersInv'
  BY <1>0, <1>3, <1>6 DEF CloseDone, CloseWait
<1>7. Crash => DeliverersInv'
  BY <1>0, <1>3 DEF Crash
<1>8. ASSUME NEW i \in Items, Expire(i) \/ Connect(i) \/ PutData(i) PROVE DeliverersInv'
  <2>1. UNCHANGED <<starts, sent, via, pc>>
    BY <1>8 DEF Expire, Connect, PutData
  <2>2. \A k \in Items : conn'[k] = "spawn" => conn[k] = "spawn"
    BY <1>8 DEF Expire, Connect, PutData, TypeOK
  <2>3. QED BY <1>0, <1>3, <2>1, <2>2
<1>9. ASSUME NEW i \in Items, Handoff(i) PROVE DeliverersInv'
  <2>1. /\ UNCHANGED <<starts, sent, pc>> /\ conn'[i] # "spawn"
        /\ \A k \in Items : k # i => conn'[k] = conn[k] /\ via'[k] = via[k]
    BY <1>9 DEF Handoff, TypeOK
  <2>2. \A k \in Items : \A D \in SUBSET (1..starts) : Deliverers(k, D) => Deliverers(k, D)'
    BY <2>1 DEF Deliverers
  <2>3. QED BY <1>0, <1>2, <2>1, <2>2
<1>10. ASSUME NEW i \in Items, PutMeta(i) PROVE DeliverersInv'
  <2>1. /\ UNCHANGED <<starts, sent, pc, via>> /\ conn[i] = "putMeta"
        /\ \A k \in Items : k # i => conn'[k] = conn[k]
    BY <1>10 DEF PutMeta, TypeOK
  <2>2. sent[i] = 0
    BY <2>1 DEF StartedInv
  <2>3. \A D : Deliverers(i, D) => D = {}
    BY <2>2, FS_EmptySet DEF Deliverers
  <2>4. \A k \in Items : \A D \in SUBSET (1..starts) : Deliverers(k, D) => Deliverers(k, D)'
    BY <2>1, <2>3 DEF Deliverers
  <2>5. QED BY <1>0, <1>2, <2>1, <2>4
<1>11. ASSUME NEW i \in Items, Spawn(i) PROVE DeliverersInv'
  <2>1. via[i] \in Forwarders
    BY <1>11 DEF Spawn, TypeOK
  <2>2. /\ UNCHANGED <<starts, sent, via>> /\ conn'[i] = "finished"
        /\ \A k \in Items : k # i => conn'[k] = conn[k]
        /\ \A g \in Forwarders, k \in Items : g # via[i] \/ k # i => pc'[g][k] = pc[g][k]
        /\ conn[i] \in {"spawn", "spawnMem"}
    BY <1>11, <2>1 DEF Spawn, Goto, TypeOK
  <2>3. ASSUME NEW D \in SUBSET (1..starts), Deliverers(i, D) PROVE via[i] \notin D
    <3>1. CASE conn[i] = "spawn"
      BY <2>1, <2>3, <3>1 DEF Deliverers, Forwarders
    <3>2. CASE conn[i] = "spawnMem"
      <4>1. sent[i] = 0
        BY <3>2 DEF StartedInv
      <4>2. D = {}
        BY <2>3, <4>1, FS_EmptySet DEF Deliverers
      <4>3. QED BY <4>2
    <3>3. QED BY <2>2, <3>1, <3>2
  <2>4. \A D \in SUBSET (1..starts) : Deliverers(i, D) => Deliverers(i, D)'
    BY <1>0, <2>2, <2>3 DEF Deliverers
  <2>5. \A k \in Items : \A D \in SUBSET (1..starts) : Deliverers(k, D) => Deliverers(k, D)'
    BY <1>0, <2>2, <2>4 DEF Deliverers
  <2>6. QED BY <1>0, <1>2, <2>2, <2>5
<1>12. ASSUME NEW f \in Forwarders, NEW i \in Items, Worker(f, i) PROVE DeliverersInv'
  <2>1. /\ Busy(f, i)
        /\ UNCHANGED <<starts, conn, via>>
        /\ \A g \in Forwarders, k \in Items : g # f \/ k # i => pc'[g][k] = pc[g][k]
        /\ \A k \in Items : k # i => sent'[k] = sent[k]
        /\ \/ sent'[i] = sent[i]
           \/ /\ sent'[i] = sent[i] + 1 /\ pc[f][i] \in {"send", "memSend"}
              /\ pc'[f][i] \in {"none", "removeMeta"}
        /\ pc[f][i] \in {"removeMeta", "removePayload"} => pc'[f][i] \in {"none", "removePayload"}
    BY <1>12, WorkerFrame
  <2>2. ASSUME NEW k \in Items, k # i, NEW D \in SUBSET (1..starts), Deliverers(k, D)
        PROVE  Deliverers(k, D)'
    BY <1>0, <2>1, <2>2 DEF Deliverers
  <2>3. ASSUME sent'[i] = sent[i], NEW D \in SUBSET (1..starts), Deliverers(i, D)
        PROVE  Deliverers(i, D)'
    <3>1. f \in D => pc[f][i] \in {"removeMeta", "removePayload"}
      BY <2>1, <2>3 DEF Deliverers, Busy
    <3>2. QED BY <1>0, <2>1, <2>3, <3>1 DEF Deliverers
  <2>4. ASSUME sent'[i] # sent[i], NEW D \in SUBSET (1..starts), Deliverers(i, D)
        PROVE  \E E \in SUBSET (1..starts) : Deliverers(i, E)'
    <3> DEFINE E == D \cup {f}
    <3>1. f \notin D
      BY <2>1, <2>4 DEF Deliverers
    <3>2. IsFiniteSet(E) /\ Cardinality(E) = Cardinality(D) + 1
      BY <2>4, <3>1, FS_AddElement DEF Deliverers
    <3>3. f \in 1..starts
      BY <1>0, <2>1 DEF StartedInv, Forwarders
    <3>4. conn[i] = "spawn" => f > via[i]
      BY <2>1 DEF StartedInv
    <3> HIDE DEF E
    <3>5. Deliverers(i, E)'
      BY <1>0, <2>1, <2>4, <3>1, <3>2, <3>4 DEF Deliverers, E
    <3>6. E \in SUBSET (1..starts)
      BY <3>3 DEF E
    <3>7. QED BY <3>5, <3>6
  <2>5. QED BY <1>0, <1>2, <2>1, <2>2, <2>3, <2>4
<1>13. CASE UNCHANGED vars
  BY <1>0, <1>3, <1>13 DEF vars
<1>14. Next => DeliverersInv'
  BY <1>4, <1>5, <1>6, <1>7, <1>8, <1>9, <1>10, <1>11, <1>12, NextCases
<1>15. QED BY <1>13, <1>14

\* However many forwarders a job is handed to or replayed by, and however they
\* overlap, each has delivered it at most once.
THEOREM OncePerForwarder == Spec => []DeliveredOncePerForwarder
<1>1. Init => StartedInv /\ DeliverersInv
  BY StartedInit
<1>2. TypeOK /\ StartedInv /\ DeliverersInv /\ [Next]_vars => StartedInv' /\ DeliverersInv'
  BY StartedStep, DeliverersStep
<1>3. TypeOK /\ DeliverersInv => DeliveredOncePerForwarder
  <2> SUFFICES ASSUME TypeOK, DeliverersInv, NEW i \in Items PROVE sent[i] <= starts
    BY DEF DeliveredOncePerForwarder
  <2>1. PICK D \in SUBSET (1..starts) : IsFiniteSet(D) /\ Cardinality(D) = sent[i]
    BY DEF DeliverersInv
  <2>2. starts \in Nat
    BY DEF TypeOK
  <2>3. IsFiniteSet(1..starts) /\ Cardinality(1..starts) = starts
    <3>1. 1 \in Int /\ starts \in Int /\ (1 > starts => starts = 0)
      BY <2>2
    <3>2. IsFiniteSet(1..starts)
          /\ Cardinality(1..starts) = IF 1 > starts THEN 0 ELSE starts - 1 + 1
      BY <3>1, FS_Interval
    <3>3. QED BY <2>2, <3>1, <3>2
  <2>4. Cardinality(D) <= Cardinality(1..starts)
    BY <2>1, <2>3, FS_Subset
  <2>5. QED BY <2>1, <2>3, <2>4
<1>4. QED BY <1>1, <1>2, <1>3, TypeCorrect, PTL DEF Spec, SafeSpec

-----------------------------------------------------------------------------
(* One worker per job *)

LEMMA EngineInit == Init => EngineInv
BY DEF Init, EngineInv, Idle, Quiet, Busy

LEMMA EngineStep ==
    ASSUME Orderly, TypeOK, EngineInv, [Next]_vars
    PROVE  EngineInv'
<1> USE DEF disk, engine, handlers, workers, history, budget
<1>1. ASSUME Start PROVE EngineInv'
  <2>1. /\ starts' = starts + 1 /\ forward' = starts + 1 /\ phase' = "up"
        /\ closers' = {starts + 1} /\ Idle /\ Quiet /\ UNCHANGED <<conn, via>>
    BY <1>1, StartIs DEF Orderly, EngineInv
  <2>2. \A g \in Forwarders, k \in Items : Busy(g, k)' => g = starts + 1
    BY <1>1, <2>1, StartIs DEF Busy, Idle
  <2>3. QED BY <2>1, <2>2 DEF EngineInv, Quiet
<1>2. BeginStop \/ EndStop => EngineInv'
  BY DEF BeginStop, EndStop, EngineInv, Orderly, Quiet, Idle, Busy
<1>3. ASSUME NEW f \in Forwarders, CloseDone(f) PROVE EngineInv'
  BY <1>3 DEF CloseDone, EngineInv, Quiet, Idle, Busy
<1>4. ASSUME NEW f \in Forwarders, CloseWait(f) PROVE EngineInv'
  <2>1. /\ phase = "closing" /\ f = starts /\ closers' = closers \ {f}
        /\ UNCHANGED <<phase, forward, starts, conn, via, pc>>
        /\ \A i \in Items : pc[f][i] = "none"
    BY <1>4 DEF CloseWait, EngineInv
  <2>2. Idle
    BY <2>1 DEF Idle, EngineInv, Busy
  <2>3. QED BY <2>1, <2>2 DEF EngineInv, Quiet, Idle, Busy
<1>5. Crash => EngineInv'
  BY DEF Crash, EngineInv, Quiet, Idle, Busy, TypeOK
<1>6. ASSUME NEW i \in Items, Expire(i) PROVE EngineInv'
  BY <1>6 DEF Expire, EngineInv, Quiet, Idle, Busy
<1>7. ASSUME NEW i \in Items, Connect(i) \/ Handoff(i) \/ PutData(i) \/ PutMeta(i) PROVE EngineInv'
  <2>1. phase = "up"
    BY <1>7 DEF Connect, Handoff, PutData, PutMeta, EngineInv, Quiet, TypeOK
  <2>2. /\ UNCHANGED <<phase, forward, starts, closers, pc>>
        /\ \A k \in Items : k # i => conn'[k] = conn[k] /\ via'[k] = via[k]
    BY <1>7 DEF Connect, Handoff, PutData, PutMeta, TypeOK
  <2>3. conn'[i] \in {"putData", "putMeta", "spawn", "spawnMem"} => via'[i] = starts
    BY <1>7, <2>1 DEF Connect, Handoff, PutData, PutMeta, EngineInv, TypeOK
  <2>4. QED BY <2>1, <2>2, <2>3 DEF EngineInv, Busy
<1>8. ASSUME NEW i \in Items, Spawn(i) PROVE EngineInv'
  <2>1. phase = "up" /\ via[i] = starts /\ via[i] \in Forwarders
    BY <1>8 DEF Spawn, EngineInv, Quiet, TypeOK
  <2>2. /\ UNCHANGED <<phase, forward, starts, closers, via>> /\ conn'[i] = "finished"
        /\ \A k \in Items : k # i => conn'[k] = conn[k]
        /\ \A g \in Forwarders, k \in Items : g # via[i] \/ k # i => pc'[g][k] = pc[g][k]
    BY <1>8, <2>1 DEF Spawn, Goto, TypeOK
  <2>3. \A g \in Forwarders, k \in Items : Busy(g, k)' => g = starts
    BY <2>1, <2>2 DEF EngineInv, Busy
  <2>4. QED BY <2>1, <2>2, <2>3 DEF EngineInv
<1>9. ASSUME NEW f \in Forwarders, NEW i \in Items, Worker(f, i) PROVE EngineInv'
  <2>1. /\ Busy(f, i) /\ UNCHANGED <<phase, forward, closers, starts, conn, via>>
        /\ \A g \in Forwarders, k \in Items : g # f \/ k # i => pc'[g][k] = pc[g][k]
    BY <1>9, WorkerFrame
  <2>2. \A g \in Forwarders, k \in Items : Busy(g, k)' => Busy(g, k)
    BY <2>1 DEF Busy
  <2>3. ~Idle
    BY <2>1 DEF Idle, Busy
  <2>4. QED BY <2>1, <2>2, <2>3 DEF EngineInv, Quiet
<1>10. CASE UNCHANGED vars
  BY <1>10 DEF vars, EngineInv, Quiet, Idle, Busy
<1>11. Next => EngineInv'
  BY <1>1, <1>2, <1>3, <1>4, <1>5, <1>6, <1>7, <1>8, <1>9, NextCases
<1>12. QED BY <1>10, <1>11

-----------------------------------------------------------------------------
(* Files, attempts and deliveries of a job *)

Numbers ==
    /\ crashes \in Nat /\ faults \in Nat /\ Mishaps \in Nat
    /\ MaxAttempts \in Nat /\ MaxAttempts >= 1 /\ NoFile \notin Nat
    /\ \A i \in Items : meta[i] # NoFile => meta[i] \in Nat
    /\ tries \in [Items -> Nat] /\ sent \in [Items -> Nat]
    /\ \A f \in Forwarders, i \in Items : attempts[f][i] \in Nat

LEMMA NumbersAre == TypeOK => Numbers
BY SpoolAssumption DEF TypeOK, Numbers, Mishaps

LEMMA Sums ==
    ASSUME NEW a \in Nat, NEW b \in Nat, NEW c \in Nat, NEW d \in Nat, c >= a, d >= b
    PROVE  c + d >= a + b /\ (d = 0 => b = 0)
OBVIOUS

\* All that is known of a job.
Job(i) == ReceivedInv(i) /\ JobInv(i) /\ \A f \in Forwarders : WorkedInv(f, i)

\* Nothing of a job is broken by what happens elsewhere.
LEMMA Untouched ==
    ASSUME TypeOK, TypeOK', NEW i \in Items, Job(i),
           \A f \in Forwarders : pc'[f][i] = pc[f][i] /\ attempts'[f][i] = attempts[f][i],
           meta'[i] = meta[i], sent'[i] = sent[i], tries'[i] = tries[i], conn'[i] = conn[i],
           i \in payload' <=> i \in payload, i \in accepted' <=> i \in accepted,
           i \in expired => i \in expired', crashes' >= crashes, faults' >= faults
    PROVE  Job(i)'
<1>1. Numbers /\ Numbers' /\ Mishaps' >= Mishaps /\ (faults' = 0 => faults = 0)
  <2>1. Numbers
    BY NumbersAre
  <2>2. Numbers'
    BY NumbersAre, PTL
  <2>3. /\ crashes \in Nat /\ faults \in Nat /\ crashes' \in Nat /\ faults' \in Nat
    BY <2>1, <2>2 DEF Numbers
  <2>4. Mishaps = crashes + faults /\ Mishaps' = crashes' + faults'
    BY DEF Mishaps
  <2>5. crashes' + faults' >= crashes + faults /\ (faults' = 0 => faults = 0)
    BY <2>3, Sums
  <2>6. QED BY <2>1, <2>2, <2>4, <2>5
<1>2. Mishaps' >= Mishaps /\ (faults' = 0 => faults = 0)
  BY <1>1
<1>3. Settled(i) /\ meta[i] # NoFile => Settled(i)'
  BY <1>1, <1>2 DEF Settled, Numbers
<1>4. Strained(i) /\ meta[i] # NoFile => Strained(i)'
  BY <1>1, <1>2 DEF Strained, Numbers
<1>5. ReceivedInv(i)'
  BY <1>2 DEF Job, ReceivedInv
<1>6. JobInv(i)'
  <2>1. tries'[i] <= MaxAttempts + Mishaps' /\ sent'[i] <= 1 + Mishaps'
    BY <1>1, <1>2 DEF Job, JobInv, Numbers
  <2>2. QED BY <1>2, <1>3, <2>1 DEF Job, JobInv
<1>7. ASSUME NEW f \in Forwarders PROVE WorkedInv(f, i)'
  <2>1. WorkedInv(f, i) /\ pc'[f][i] = pc[f][i] /\ attempts'[f][i] = attempts[f][i]
    BY DEF Job
  <2>2. pc[f][i] \in Trying => meta[i] # NoFile
    BY <2>1 DEF WorkedInv, Holding
  <2>3. tries[i] <= attempts[f][i] + Mishaps => tries[i] <= attempts[f][i] + Mishaps'
    BY <1>1, <1>2 DEF Numbers
  <2>4. sent[i] <= Mishaps => sent[i] <= Mishaps'
    BY <1>1, <1>2 DEF Numbers
  <2>5. QED BY <1>2, <1>3, <1>4, <2>1, <2>2, <2>3, <2>4 DEF WorkedInv
<1>8. QED BY <1>5, <1>6, <1>7 DEF Job

\* A step of a worker keeps the invariant of its job.
LEMMA WorkerJob ==
    ASSUME TypeOK, TypeOK', EngineInv, NEW f \in Forwarders, NEW i \in Items, Job(i),
           Worker(f, i)
    PROVE  Job(i)'
<1> DEFINE Sound == /\ tries'[i] <= MaxAttempts + Mishaps' /\ sent'[i] <= 1 + Mishaps'
                    /\ meta'[i] # NoFile /\ pc'[f][i] \notin {"update", "deadMeta", "removeMeta"}
                          => Settled(i)'
                    /\ meta'[i] # NoFile => i \in accepted' /\ (faults' = 0 => i \in payload')
                    /\ WorkedInv(f, i)'
<1> USE DEF disk, engine, handlers, workers, history, budget
<1>1. /\ Busy(f, i) /\ UNCHANGED <<conn, accepted, expired, crashes>>
      /\ \A g \in Forwarders : g # f => pc'[g][i] = pc[g][i] /\ attempts'[g][i] = attempts[g][i]
  BY WorkerFrame
<1>2. \A g \in Forwarders : g # f => pc[g][i] = "none"
  BY <1>1 DEF EngineInv, Busy
<1>3. conn[i] = "finished"
  BY <1>1 DEF Job, ReceivedInv, Busy, TypeOK, Conn
<1>4. /\ Numbers /\ Numbers'
      /\ pc \in [Forwarders -> [Items -> PC]] /\ attempts \in [Forwarders -> [Items -> Nat]]
      /\ meta \in [Items -> Nat \cup {NoFile}]
  <2>1. Numbers'
    BY NumbersAre, PTL
  <2>2. QED BY <2>1, NumbersAre DEF TypeOK
<1>5. JobInv(i) /\ WorkedInv(f, i)
  BY DEF Job
<1>6. /\ NoFault \/ UNCHANGED faults => faults' = faults /\ Mishaps' = Mishaps
      /\ Fault => faults' # 0 /\ Mishaps' = Mishaps + 1
      /\ faults' = 0 => faults = 0
      /\ Mishaps' >= Mishaps
  <2>1. crashes \in Nat /\ faults \in Nat /\ crashes' = crashes
    BY <1>1, <1>4 DEF Numbers
  <2>2. Mishaps = crashes + faults /\ Mishaps' = crashes' + faults'
    BY DEF Mishaps
  <2>3. faults' \in {faults, faults + 1}
    BY WorkerFrame
  <2>4. faults' = faults => crashes' + faults' = crashes + faults
    BY <2>1
  <2>5. crashes' + faults' >= crashes + faults /\ (faults' = 0 => faults = 0)
    <3>1. crashes' \in Nat /\ faults' \in Nat /\ crashes' >= crashes /\ faults' >= faults
      BY <2>1, <2>3
    <3>2. QED BY <2>1, <3>1, Sums
  <2>6. faults' = faults + 1 => crashes' + faults' = crashes + faults + 1 /\ faults' # 0
    BY <2>1
  <2>7. QED BY <2>2, <2>4, <2>5, <2>6 DEF NoFault, Fault
<1>7. /\ \A label : Goto(f, i, label) => pc'[f][i] = label /\ attempts'[f][i] = attempts[f][i]
      /\ Return(f, i) => pc'[f][i] = "none" /\ attempts'[f][i] = 0
  BY <1>4 DEF Goto, Return
<1>8. meta[i] # NoFile /\ pc[f][i] \notin {"update", "deadMeta", "removeMeta"} => Settled(i)
  BY <1>2, <1>5 DEF JobInv
\* The numbers of a job that is not sent by the step.
<1>9. ASSUME sent'[i] = sent[i], tries'[i] = tries[i]
      PROVE  /\ tries'[i] <= MaxAttempts + Mishaps' /\ sent'[i] <= 1 + Mishaps'
             /\ tries[i] <= attempts[f][i] + Mishaps => tries'[i] <= attempts[f][i] + Mishaps'
             /\ sent[i] <= Mishaps => sent'[i] <= Mishaps'
             /\ meta'[i] = meta[i] /\ meta[i] # NoFile =>
                   /\ Settled(i) => Settled(i)' /\ Strained(i)'
                   /\ Strained(i) => Strained(i)'
  <2>1. /\ tries[i] \in Nat /\ sent[i] \in Nat /\ attempts[f][i] \in Nat
        /\ Mishaps \in Nat /\ Mishaps' \in Nat /\ MaxAttempts \in Nat
        /\ meta[i] # NoFile => meta[i] \in Nat
    BY <1>4 DEF Numbers
  <2>2. tries[i] <= MaxAttempts + Mishaps /\ sent[i] <= 1 + Mishaps
    BY <1>5 DEF JobInv
  <2>3. /\ tries'[i] <= MaxAttempts + Mishaps' /\ sent'[i] <= 1 + Mishaps'
        /\ tries[i] <= attempts[f][i] + Mishaps => tries'[i] <= attempts[f][i] + Mishaps'
        /\ sent[i] <= Mishaps => sent'[i] <= Mishaps'
    BY <1>6, <1>9, <2>1, <2>2
  <2>4. ASSUME meta'[i] = meta[i], meta[i] # NoFile
        PROVE  /\ Settled(i) => Settled(i)' /\ Strained(i)'
               /\ Strained(i) => Strained(i)'
    BY <1>6, <1>9, <2>1, <2>4 DEF Settled, Strained
  <2>5. QED BY <2>3, <2>4
\* Steps that change labels only.
<1>10. ASSUME UNCHANGED <<meta, payload, sent, tries>>, attempts'[f][i] = attempts[f][i],
              \/ pc[f][i] = "load" /\ pc'[f][i] \in {"due", "deadMeta"}
              \/ pc[f][i] = "due" /\ pc'[f][i] = "check"
              \/ pc[f][i] = "check" /\ pc'[f][i] \in {"send", "deadMeta"}
              \/ pc[f][i] = "backoff" /\ pc'[f][i] = "check",
              pc'[f][i] = "deadMeta" /\ faults' = 0 => i \in expired
       PROVE  Sound
  <2>1. /\ meta[i] # NoFile /\ Settled(i) /\ Strained(i)
        /\ tries[i] <= attempts[f][i] + Mishaps /\ sent[i] <= Mishaps
    BY <1>5, <1>10 DEF WorkedInv, Holding, Trying
  <2>2. /\ tries'[i] <= MaxAttempts + Mishaps' /\ sent'[i] <= 1 + Mishaps'
        /\ tries'[i] <= attempts'[f][i] + Mishaps' /\ sent'[i] <= Mishaps'
        /\ Settled(i)' /\ Strained(i)'
    BY <1>9, <1>10, <2>1
  <2>3. i \in accepted' /\ (faults' = 0 => i \in payload')
    BY <1>1, <1>5, <1>6, <1>10, <2>1 DEF JobInv
  <2>4. WorkedInv(f, i)'
    BY <1>1, <1>10, <2>1, <2>2 DEF WorkedInv, Holding, Trying, MemPC
  <2>5. QED BY <2>2, <2>3, <2>4
<1>11. LoadPayload(f, i) => Sound
  <2> SUFFICES ASSUME LoadPayload(f, i) PROVE Sound
    OBVIOUS
  <2>1. pc[f][i] = "load" /\ UNCHANGED <<meta, payload, sent, tries>>
    BY DEF LoadPayload
  <2>2. faults = 0 => i \in payload
    BY <1>5, <2>1 DEF JobInv, WorkedInv, Holding, Trying
  <2>3. /\ pc'[f][i] \in {"due", "deadMeta"} /\ attempts'[f][i] = attempts[f][i]
        /\ pc'[f][i] = "deadMeta" => faults' # 0
    BY <1>6, <1>7, <2>2 DEF LoadPayload
  <2> HIDE DEF Sound
  <2>4. QED BY <1>10, <2>1, <2>3
<1>12. Due(f, i) \/ CheckDeadline(f, i) \/ Backoff(f, i) => Sound
  <2> SUFFICES ASSUME Due(f, i) \/ CheckDeadline(f, i) \/ Backoff(f, i) PROVE Sound
    OBVIOUS
  <2>1. UNCHANGED <<meta, payload, sent, tries>> /\ attempts'[f][i] = attempts[f][i]
    BY <1>7 DEF Due, CheckDeadline, Backoff
  <2>2. /\ \/ pc[f][i] = "due" /\ pc'[f][i] = "check"
           \/ pc[f][i] = "check" /\ pc'[f][i] \in {"send", "deadMeta"}
           \/ pc[f][i] = "backoff" /\ pc'[f][i] = "check"
        /\ pc'[f][i] = "deadMeta" => i \in expired
    BY <1>7 DEF Due, CheckDeadline, Backoff
  <2> HIDE DEF Sound
  <2>3. QED BY <1>10, <2>1, <2>2
<1>13. Shutdown(f, i) => Sound
  <2> SUFFICES ASSUME Shutdown(f, i) PROVE Sound
    OBVIOUS
  <2>1. /\ UNCHANGED <<meta, payload, sent, tries, faults>>
        /\ pc[f][i] \in {"due", "backoff", "memBackoff"}
        /\ pc'[f][i] = "none" /\ attempts'[f][i] = 0
    BY <1>7 DEF Shutdown
  <2>2. QED BY <1>1, <1>5, <1>8, <1>9, <2>1 DEF JobInv, WorkedInv, Holding, Trying, MemPC
<1>14. SendOK(f, i) => Sound
  <2> SUFFICES ASSUME SendOK(f, i) PROVE Sound
    OBVIOUS
  <2>1. /\ UNCHANGED <<meta, payload, faults>> /\ pc[f][i] = "send"
        /\ tries'[i] = tries[i] + 1 /\ sent'[i] = sent[i] + 1
        /\ pc'[f][i] = "removeMeta" /\ attempts'[f][i] = attempts[f][i]
    BY <1>4, <1>7 DEF SendOK, Numbers
  <2>2. meta[i] # NoFile /\ Settled(i)
    BY <1>5, <2>1 DEF WorkedInv, Holding, Trying
  <2>3. Mishaps' = Mishaps
    BY <1>6, <2>1
  <2>4. /\ tries[i] \in Nat /\ sent[i] \in Nat /\ Mishaps \in Nat /\ MaxAttempts \in Nat
        /\ meta[i] \in Nat
    BY <1>4, <2>2 DEF Numbers
  <2>5. Strained(i)' /\ tries'[i] <= MaxAttempts + Mishaps' /\ sent'[i] <= 1 + Mishaps'
    BY <2>1, <2>2, <2>3, <2>4 DEF Settled, Strained
  <2>6. WorkedInv(f, i)'
    BY <2>1, <2>2, <2>5 DEF WorkedInv, Holding, Trying, MemPC
  <2>7. QED BY <1>1, <1>5, <2>1, <2>5, <2>6 DEF JobInv
<1>15. SendFails(f, i) => Sound
  <2> SUFFICES ASSUME SendFails(f, i) PROVE Sound
    OBVIOUS
  <2>1. /\ UNCHANGED <<meta, payload, faults, sent>> /\ pc[f][i] = "send"
        /\ tries'[i] = tries[i] + 1
        /\ pc'[f][i] = "update" /\ attempts'[f][i] = attempts[f][i] + 1
    BY <1>4 DEF SendFails, Numbers
  <2>2. /\ meta[i] # NoFile /\ Settled(i)
        /\ tries[i] <= attempts[f][i] + Mishaps /\ sent[i] <= Mishaps
    BY <1>5, <2>1 DEF WorkedInv, Holding, Trying
  <2>3. Mishaps' = Mishaps
    BY <1>6, <2>1
  <2>4. /\ tries[i] \in Nat /\ sent[i] \in Nat /\ Mishaps \in Nat /\ MaxAttempts \in Nat
        /\ meta[i] \in Nat /\ attempts[f][i] \in Nat
    BY <1>4, <2>2 DEF Numbers
  <2>5. /\ Strained(i)' /\ tries'[i] <= MaxAttempts + Mishaps' /\ sent'[i] <= 1 + Mishaps'
        /\ tries'[i] <= attempts'[f][i] + Mishaps' /\ sent'[i] <= Mishaps'
    BY <2>1, <2>2, <2>3, <2>4 DEF Settled, Strained
  <2>6. WorkedInv(f, i)'
    BY <2>1, <2>2, <2>5 DEF WorkedInv, Holding, Trying, MemPC
  <2>7. QED BY <1>1, <1>5, <2>1, <2>5, <2>6 DEF JobInv
<1>16. Update(f, i) => Sound
  <2> SUFFICES ASSUME Update(f, i) PROVE Sound
    OBVIOUS
  <2>1. /\ UNCHANGED <<payload, sent, tries>> /\ pc[f][i] = "update"
        /\ attempts'[f][i] = attempts[f][i]
        /\ pc'[f][i] = IF attempts[f][i] >= MaxAttempts THEN "deadMeta" ELSE "backoff"
        /\ \/ meta'[i] = attempts[f][i]
           \/ Fault /\ meta'[i] = meta[i]
    BY <1>4, <1>7 DEF Update
  <2>2. /\ meta[i] # NoFile /\ Strained(i)
        /\ tries[i] <= attempts[f][i] + Mishaps /\ sent[i] <= Mishaps
    BY <1>5, <2>1 DEF WorkedInv, Holding, Trying
  <2>3. /\ tries[i] \in Nat /\ sent[i] \in Nat /\ Mishaps \in Nat /\ Mishaps' \in Nat
        /\ MaxAttempts \in Nat /\ meta[i] \in Nat /\ attempts[f][i] \in Nat
    BY <1>4, <2>2 DEF Numbers
  <2>4. meta'[i] \in Nat /\ meta'[i] # NoFile
    BY <1>4, <2>1, <2>2, <2>3 DEF Numbers
  <2>5. Strained(i)'
    BY <1>6, <2>1, <2>2, <2>3 DEF Strained
  <2>6. attempts[f][i] < MaxAttempts => Settled(i)'
    BY <1>6, <2>1, <2>2, <2>3 DEF Settled, Strained
  <2>7. /\ tries'[i] <= MaxAttempts + Mishaps' /\ sent'[i] <= 1 + Mishaps'
        /\ tries'[i] <= attempts'[f][i] + Mishaps' /\ sent'[i] <= Mishaps'
    BY <1>9, <2>1, <2>2
  <2>8. faults' = 0 => meta'[i] = attempts[f][i]
    BY <1>6, <2>1
  <2>9. ~(attempts[f][i] >= MaxAttempts) <=> attempts[f][i] < MaxAttempts
    BY <2>3
  <2>10. WorkedInv(f, i)'
    BY <2>1, <2>4, <2>5, <2>6, <2>7, <2>8, <2>9 DEF WorkedInv, Holding, Trying, MemPC
  <2>11. i \in accepted' /\ (faults' = 0 => i \in payload')
    BY <1>1, <1>5, <1>6, <2>1, <2>2 DEF JobInv
  <2>12. pc'[f][i] \notin {"update", "deadMeta", "removeMeta"} => Settled(i)'
    BY <2>1, <2>6, <2>9
  <2>13. QED BY <2>7, <2>10, <2>11, <2>12
<1>18. DeadLetterMeta(f, i) => Sound
  <2> SUFFICES ASSUME DeadLetterMeta(f, i) PROVE Sound
    OBVIOUS
  <2>1. /\ UNCHANGED <<payload, sent, tries>> /\ pc[f][i] = "deadMeta"
        /\ \/ meta'[i] = NoFile /\ pc'[f][i] = "deadPayload"
           \/ Fault /\ meta'[i] = meta[i] /\ pc'[f][i] \in {"deadPayload", "none"}
        /\ pc'[f][i] = "none" => attempts'[f][i] = 0
    BY <1>4, <1>7 DEF DeadLetterMeta
  <2>2. meta[i] # NoFile /\ Strained(i)
    BY <1>5, <2>1 DEF WorkedInv, Holding
  <2>3. Fault /\ meta'[i] = meta[i] => Settled(i)'
    <3> SUFFICES ASSUME Fault, meta'[i] = meta[i] PROVE Settled(i)'
      OBVIOUS
    <3>1. /\ tries[i] \in Nat /\ sent[i] \in Nat /\ Mishaps \in Nat
          /\ MaxAttempts \in Nat /\ meta[i] \in Nat /\ Mishaps' = Mishaps + 1
      BY <1>4, <1>6, <2>2 DEF Numbers
    <3>2. QED BY <2>1, <2>2, <3>1 DEF Settled, Strained
  <2>4. tries'[i] <= MaxAttempts + Mishaps' /\ sent'[i] <= 1 + Mishaps'
    BY <1>9, <2>1
  <2>5. WorkedInv(f, i)'
    BY <1>6, <2>1 DEF WorkedInv, Holding, Trying, MemPC
  <2>6. QED BY <1>1, <1>5, <1>6, <2>1, <2>3, <2>4, <2>5 DEF JobInv
<1>19. DeadLetterPayload(f, i) \/ RemovePayload(f, i) => Sound
  <2> SUFFICES ASSUME DeadLetterPayload(f, i) \/ RemovePayload(f, i) PROVE Sound
    OBVIOUS
  <2>1. /\ UNCHANGED <<meta, sent, tries>> /\ pc[f][i] \in {"deadPayload", "removePayload"}
        /\ pc'[f][i] = "none" /\ attempts'[f][i] = 0
        /\ (Fault /\ payload' = payload) \/ faults' = faults
    BY <1>6, <1>7 DEF DeadLetterPayload, RemovePayload
  <2>2. faults = 0 => meta[i] = NoFile
    BY <1>5, <2>1 DEF WorkedInv
  <2>3. meta[i] # NoFile => Settled(i)'
    BY <1>8, <1>9, <2>1
  <2>4. meta'[i] # NoFile => i \in accepted' /\ (faults' = 0 => i \in payload')
    BY <1>1, <1>5, <1>6, <2>1, <2>2 DEF JobInv
  <2>5. WorkedInv(f, i)'
    BY <2>1 DEF WorkedInv, Holding, Trying, MemPC
  <2>6. QED BY <1>9, <2>1, <2>3, <2>4, <2>5
<1>20. RemoveMeta(f, i) => Sound
  <2> SUFFICES ASSUME RemoveMeta(f, i) PROVE Sound
    OBVIOUS
  <2>1. /\ UNCHANGED <<payload, sent, tries>> /\ pc[f][i] = "removeMeta"
        /\ \/ meta'[i] = NoFile
           \/ Fault /\ meta'[i] = meta[i]
        /\ pc'[f][i] = "removePayload"
    BY <1>4, <1>7 DEF RemoveMeta
  <2>2. meta[i] # NoFile /\ Strained(i)
    BY <1>5, <2>1 DEF WorkedInv, Holding
  <2>3. Fault /\ meta'[i] = meta[i] => Settled(i)'
    <3> SUFFICES ASSUME Fault, meta'[i] = meta[i] PROVE Settled(i)'
      OBVIOUS
    <3>1. /\ tries[i] \in Nat /\ sent[i] \in Nat /\ Mishaps \in Nat
          /\ MaxAttempts \in Nat /\ meta[i] \in Nat /\ Mishaps' = Mishaps + 1
      BY <1>4, <1>6, <2>2 DEF Numbers
    <3>2. QED BY <2>1, <2>2, <3>1 DEF Settled, Strained
  <2>4. tries'[i] <= MaxAttempts + Mishaps' /\ sent'[i] <= 1 + Mishaps'
    BY <1>9, <2>1
  <2>5. WorkedInv(f, i)'
    BY <1>6, <2>1 DEF WorkedInv, Holding, Trying, MemPC
  <2>6. QED BY <1>1, <1>5, <1>6, <2>1, <2>3, <2>4, <2>5 DEF JobInv
\* A worker whose job never reached the queue leaves no file.
<1>21. ASSUME UNCHANGED <<meta, payload, tries>>, pc[f][i] \in MemPC, pc'[f][i] \in MemPC \cup {"none"},
              pc'[f][i] = "none" => attempts'[f][i] = 0,
              \/ sent'[i] = sent[i]
              \/ sent'[i] = sent[i] + 1 /\ pc'[f][i] = "none"
       PROVE  Sound
  <2>1. meta[i] = NoFile /\ i \notin accepted /\ sent[i] <= Mishaps
    BY <1>5, <1>21 DEF WorkedInv
  <2>2. /\ tries[i] \in Nat /\ sent[i] \in Nat /\ Mishaps \in Nat /\ Mishaps' \in Nat
        /\ MaxAttempts \in Nat /\ tries[i] <= MaxAttempts + Mishaps
    BY <1>4, <1>5 DEF Numbers, JobInv
  <2>3. tries'[i] <= MaxAttempts + Mishaps' /\ sent'[i] <= 1 + Mishaps'
    BY <1>6, <1>21, <2>1, <2>2
  <2>4. pc'[f][i] # "none" => sent'[i] <= Mishaps'
    BY <1>6, <1>21, <2>1, <2>2
  <2>5. WorkedInv(f, i)'
    BY <1>1, <1>21, <2>1, <2>4 DEF WorkedInv, Holding, Trying, MemPC
  <2>6. QED BY <1>21, <2>1, <2>3, <2>5
<1>22. MemCheck(f, i) \/ MemSend(f, i) \/ MemBackoff(f, i) => Sound
  <2> SUFFICES ASSUME MemCheck(f, i) \/ MemSend(f, i) \/ MemBackoff(f, i) PROVE Sound
    OBVIOUS
  <2>1. /\ UNCHANGED <<meta, payload, tries>> /\ pc[f][i] \in MemPC
        /\ pc'[f][i] \in MemPC \cup {"none"}
        /\ pc'[f][i] = "none" => attempts'[f][i] = 0
        /\ \/ sent'[i] = sent[i]
           \/ sent'[i] = sent[i] + 1 /\ pc'[f][i] = "none"
    BY <1>4, <1>7 DEF MemCheck, MemSend, MemBackoff, MemPC, Numbers
  <2> HIDE DEF Sound
  <2>2. QED BY <1>21, <2>1
<1>25. Sound
  <2> HIDE DEF Sound
  <2>1. QED BY <1>11, <1>12, <1>13, <1>14, <1>15, <1>16, <1>18, <1>19, <1>20, <1>22,
               WorkerCases
<1>26. ReceivedInv(i)'
  BY <1>1, <1>3 DEF ReceivedInv
<1>27. JobInv(i)'
  BY <1>25 DEF JobInv
<1>28. ASSUME NEW g \in Forwarders PROVE WorkedInv(g, i)'
  <2>1. CASE g = f
    BY <1>25, <2>1
  <2>2. CASE g # f
    <3>1. pc'[g][i] = "none" /\ attempts'[g][i] = 0
      BY <1>1, <1>2, <2>2 DEF Job, WorkedInv
    <3>2. QED BY <3>1 DEF WorkedInv, Holding, Trying, MemPC
  <2>3. QED BY <2>1, <2>2
<1>29. QED BY <1>26, <1>27, <1>28 DEF Job

LEMMA SpoolInit == Init => SpoolInv
<1> SUFFICES ASSUME Init, NEW i \in Items PROVE Job(i)
  BY DEF SpoolInv, Job
<1>1. Mishaps = 0 /\ MaxAttempts \in Nat /\ MaxAttempts >= 1
  BY SpoolAssumption DEF Init, Mishaps
<1>2. QED
  BY <1>1 DEF Init, Job, ReceivedInv, JobInv, WorkedInv, Holding, Trying, MemPC

LEMMA SpoolStep ==
    ASSUME Orderly, TypeOK, TypeOK', EngineInv, SpoolInv, [Next]_vars
    PROVE  SpoolInv'
<1> USE DEF disk, engine, handlers, workers, history, budget
<1>0. /\ \A i \in Items : Job(i)
      /\ (\A i \in Items : Job(i)') => SpoolInv'
  BY DEF SpoolInv, Job
<1>1. Numbers /\ Numbers'
  <2>1. Numbers'
    BY NumbersAre, PTL
  <2>2. QED BY <2>1, NumbersAre
<1>2. crashes \in Nat /\ faults \in Nat
  BY <1>1 DEF Numbers
\* Steps that leave the files, workers and connections alone.
<1>3. ASSUME UNCHANGED <<disk, workers, conn, accepted, tries, sent, budget>>,
             expired \subseteq expired'
      PROVE  SpoolInv'
  <2>1. crashes' >= crashes /\ faults' >= faults
    BY <1>2, <1>3
  <2>2. ASSUME NEW i \in Items PROVE Job(i)'
    BY <1>0, <1>3, <2>1, Untouched
  <2>3. QED BY <1>0, <2>2
<1>4. BeginStop \/ EndStop => SpoolInv'
  BY <1>3 DEF BeginStop, EndStop
<1>5. ASSUME NEW f \in Forwarders, CloseDone(f) \/ CloseWait(f) PROVE SpoolInv'
  BY <1>3, <1>5 DEF CloseDone, CloseWait
<1>6. ASSUME NEW i \in Items, Expire(i) PROVE SpoolInv'
  BY <1>3, <1>6 DEF Expire
<1>7. CASE UNCHANGED vars
  BY <1>3, <1>7 DEF vars
\* Every worker is new, and goes on from what the files say.
<1>8. ASSUME Start PROVE SpoolInv'
  <2>1. Idle
    BY <1>8, StartIs DEF EngineInv
  <2>2. UNCHANGED <<disk, conn, expired, accepted, tries, sent, crashes>> /\ faults' >= faults
    BY <1>8, StartIs
  <2>3. ASSUME NEW f \in Forwarders, NEW i \in Items
        PROVE  \/ pc'[f][i] = "none" /\ attempts'[f][i] = 0
               \/ i \in Replayable /\ pc'[f][i] = "load" /\ attempts'[f][i] = meta[i]
    <3>1. pc[f][i] = "none" /\ attempts[f][i] = 0
      BY <1>0, <2>1 DEF Idle, Job, WorkedInv
    <3>2. QED BY <1>8, <3>1, StartIs
  <2>4. ASSUME NEW i \in Items PROVE Job(i)'
    <3>1. crashes' = crashes /\ Mishaps' >= Mishaps /\ (faults' = 0 => faults = 0)
      <4>1. Mishaps = crashes + faults /\ Mishaps' = crashes' + faults'
        BY DEF Mishaps
      <4>2. crashes' \in Nat /\ faults' \in Nat /\ crashes' >= crashes
        BY <1>1, <1>2, <2>2 DEF Numbers
      <4>3. QED BY <1>2, <2>2, <4>1, <4>2, Sums
    <3>2. /\ tries[i] \in Nat /\ sent[i] \in Nat /\ Mishaps \in Nat /\ Mishaps' \in Nat
          /\ MaxAttempts \in Nat /\ (meta[i] # NoFile => meta[i] \in Nat)
          /\ meta' = meta /\ tries' = tries /\ sent' = sent
      BY <1>1, <2>2 DEF Numbers
    <3>3. meta[i] # NoFile => Settled(i)
      BY <1>0, <2>1 DEF Job, JobInv, Idle
    <3>4. meta[i] # NoFile =>
             /\ Settled(i)' /\ Strained(i)'
             /\ tries'[i] <= meta[i] + Mishaps' /\ sent'[i] <= Mishaps'
      BY <3>1, <3>2, <3>3 DEF Settled, Strained
    <3>5. tries'[i] <= MaxAttempts + Mishaps' /\ sent'[i] <= 1 + Mishaps'
      <4>1. tries[i] <= MaxAttempts + Mishaps /\ sent[i] <= 1 + Mishaps
        BY <1>0 DEF Job, JobInv
      <4>2. QED BY <3>1, <3>2, <4>1
    <3>6. JobInv(i)'
      BY <1>0, <2>2, <3>1, <3>4, <3>5 DEF Job, JobInv
    <3>7. conn[i] \in {"none", "finished"}
      BY <1>8, StartIs DEF EngineInv, Quiet
    <3>8. conn[i] = "none" => meta[i] = NoFile /\ i \notin Replayable
      BY <1>0 DEF Job, ReceivedInv, Replayable
    <3>9. ReceivedInv(i)'
      BY <1>0, <2>2, <2>3, <3>7, <3>8 DEF Job, ReceivedInv
    <3>10. ASSUME NEW f \in Forwarders PROVE WorkedInv(f, i)'
      <4>1. i \in Replayable => meta[i] # NoFile
        BY DEF Replayable
      <4>2. QED BY <2>2, <2>3, <3>4, <4>1 DEF WorkedInv, Holding, Trying, MemPC
    <3>11. QED BY <3>6, <3>9, <3>10 DEF Job
  <2>5. QED BY <1>0, <2>4
\* A crash pays for the attempt or the delivery that no file records.
<1>9. ASSUME Crash PROVE SpoolInv'
  <2>1. /\ UNCHANGED <<disk, expired, accepted, tries, sent, faults>> /\ crashes' = crashes + 1
        /\ \A i \in Items : conn'[i] = IF conn[i] = "none" THEN "none" ELSE "finished"
        /\ \A f \in Forwarders, i \in Items : pc'[f][i] = "none" /\ attempts'[f][i] = 0
    BY <1>9 DEF Crash
  <2>2. Mishaps' = Mishaps + 1
    <3>1. crashes + 1 + faults = crashes + faults + 1
      BY <1>2
    <3>2. QED BY <2>1, <3>1 DEF Mishaps
  <2>3. ASSUME NEW i \in Items PROVE Job(i)'
    <3>1. /\ tries[i] \in Nat /\ sent[i] \in Nat /\ Mishaps \in Nat
          /\ MaxAttempts \in Nat /\ (meta[i] # NoFile => meta[i] \in Nat)
          /\ meta' = meta /\ tries' = tries /\ sent' = sent
      BY <1>1, <2>1 DEF Numbers
    <3>2. meta[i] # NoFile => Settled(i) \/ Strained(i)
      BY <1>0 DEF Job, JobInv, WorkedInv, Holding
    <3>3. meta[i] # NoFile => Settled(i)'
      BY <2>2, <3>1, <3>2 DEF Settled, Strained
    <3>4. tries'[i] <= MaxAttempts + Mishaps' /\ sent'[i] <= 1 + Mishaps'
      <4>1. tries[i] <= MaxAttempts + Mishaps /\ sent[i] <= 1 + Mishaps
        BY <1>0 DEF Job, JobInv
      <4>2. QED BY <2>2, <3>1, <4>1
    <3>5. JobInv(i)'
      BY <1>0, <2>1, <3>3, <3>4 DEF Job, JobInv
    <3>6. ReceivedInv(i)'
      BY <1>0, <2>1 DEF Job, ReceivedInv
    <3>7. \A f \in Forwarders : WorkedInv(f, i)'
      BY <2>1 DEF WorkedInv, Holding, Trying, MemPC
    <3>8. QED BY <3>5, <3>6, <3>7 DEF Job
  <2>4. QED BY <1>0, <2>3
\* A step of the handler that received a job touches that job only.
<1>10. ASSUME NEW i \in Items, NEW k \in Items, k # i,
              Connect(i) \/ Handoff(i) \/ PutData(i) \/ PutMeta(i) \/ Spawn(i)
       PROVE  Job(k)'
  <2>1. UNCHANGED <<sent, tries, expired, crashes>> /\ faults' >= faults
    BY <1>2, <1>10 DEF Connect, Handoff, PutData, PutMeta, Spawn, Fault, NoFault
  <2>2. /\ meta'[k] = meta[k] /\ conn'[k] = conn[k]
        /\ k \in payload' <=> k \in payload
        /\ k \in accepted' <=> k \in accepted
    BY <1>10 DEF Connect, Handoff, PutData, PutMeta, Spawn, TypeOK
  <2>3. \A f \in Forwarders : pc'[f][k] = pc[f][k] /\ attempts'[f][k] = attempts[f][k]
    <3>1. Spawn(i) => via[i] \in Forwarders
      BY DEF Spawn, TypeOK
    <3>2. QED BY <1>10, <3>1 DEF Connect, Handoff, PutData, PutMeta, Spawn, Goto, TypeOK
  <2>4. crashes' >= crashes
    BY <1>2, <2>1
  <2>5. QED BY <1>0, <2>1, <2>2, <2>3, <2>4, Untouched
\* Until its worker starts, a job has been neither sent nor tried.
<1>11. ASSUME NEW i \in Items,
              conn[i] \in {"none", "open", "putData", "putMeta", "spawn", "spawnMem"},
              UNCHANGED <<sent, tries>>
       PROVE  /\ \A f \in Forwarders : pc[f][i] = "none" /\ attempts[f][i] = 0
              /\ sent'[i] = 0 /\ tries'[i] = 0
              /\ tries'[i] <= MaxAttempts + Mishaps' /\ sent'[i] <= 1 + Mishaps' /\ sent'[i] <= Mishaps'
              /\ \A n \in Nat : tries'[i] <= n + Mishaps'
              /\ meta'[i] # NoFile => Settled(i)' /\ Strained(i)'
              /\ conn[i] # "spawn" => meta[i] = NoFile /\ i \notin accepted
  <2>1. /\ \A f \in Forwarders : pc[f][i] = "none"
        /\ sent'[i] = 0 /\ tries'[i] = 0
        /\ conn[i] # "spawn" => meta[i] = NoFile /\ i \notin accepted
    BY <1>0, <1>11 DEF Job, ReceivedInv
  <2>2. \A f \in Forwarders : attempts[f][i] = 0
    BY <1>0, <2>1 DEF Job, WorkedInv
  <2>3. Mishaps' \in Nat /\ MaxAttempts \in Nat /\ MaxAttempts >= 1
    BY <1>1 DEF Numbers
  <2>4. tries'[i] <= MaxAttempts + Mishaps' /\ sent'[i] <= 1 + Mishaps' /\ sent'[i] <= Mishaps'
        /\ \A n \in Nat : tries'[i] <= n + Mishaps'
    BY <2>1, <2>3
  <2>5. meta'[i] # NoFile => Settled(i)' /\ Strained(i)'
    <3> SUFFICES ASSUME meta'[i] # NoFile PROVE Settled(i)' /\ Strained(i)'
      OBVIOUS
    <3>1. meta'[i] \in Nat
      BY <1>1 DEF Numbers
    <3>2. \A a, b \in Nat : /\ 0 <= a + b /\ 0 <= a + 1 + b /\ 0 <= b /\ 0 <= 1 + b
                            /\ a >= 1 => 0 <= a - 1 + b
      OBVIOUS
    <3>3. QED BY <2>1, <2>3, <3>1, <3>2 DEF Settled, Strained
  <2>6. QED BY <2>1, <2>2, <2>4, <2>5
<1>12. ASSUME NEW i \in Items, Connect(i) \/ Handoff(i) \/ PutData(i) PROVE Job(i)'
  <2>1. /\ UNCHANGED <<meta, accepted, pc, attempts, sent, tries>>
        /\ conn[i] \in {"none", "open", "putData"}
        /\ conn'[i] \in {"open", "putData", "putMeta", "spawnMem", "finished"}
        /\ conn'[i] = "putMeta" => i \in payload'
    BY <1>12 DEF Connect, Handoff, PutData, TypeOK
  <2>2. QED BY <1>11, <2>1 DEF Job, ReceivedInv, JobInv, WorkedInv, Holding, Trying, MemPC
<1>13. ASSUME NEW i \in Items, PutMeta(i) PROVE Job(i)'
  <2>1. /\ UNCHANGED <<payload, pc, attempts, sent, tries>> /\ conn[i] = "putMeta"
        /\ \/ meta'[i] = 0 /\ i \in accepted' /\ conn'[i] = "spawn"
           \/ UNCHANGED <<meta, accepted>> /\ conn'[i] = "spawnMem"
    BY <1>13 DEF PutMeta, TypeOK
  <2>2. i \in payload /\ 0 # NoFile
    BY <1>0, <1>1, <2>1 DEF Job, ReceivedInv, Numbers
  <2>3. QED
    BY <1>11, <2>1, <2>2 DEF Job, ReceivedInv, JobInv, WorkedInv, Holding, Trying, MemPC
<1>14. ASSUME NEW i \in Items, Spawn(i) PROVE Job(i)'
  <2>1. /\ UNCHANGED <<disk, accepted, attempts, sent, tries, faults>>
        /\ conn[i] \in {"spawn", "spawnMem"} /\ conn'[i] = "finished"
        /\ via[i] \in Forwarders
        /\ pc'[via[i]][i] = IF conn[i] = "spawn" THEN "load" ELSE "memCheck"
        /\ \A f \in Forwarders : f # via[i] => pc'[f][i] = pc[f][i]
    BY <1>14 DEF Spawn, Goto, TypeOK
  <2>2. conn[i] = "spawn" => meta[i] # NoFile
    BY <1>0 DEF Job, ReceivedInv
  <2>3. ReceivedInv(i)'
    BY <2>1 DEF ReceivedInv
  <2>4. JobInv(i)'
    BY <1>0, <1>11, <2>1 DEF Job, JobInv
  <2>5. ASSUME NEW f \in Forwarders PROVE WorkedInv(f, i)'
    BY <1>11, <2>1, <2>2 DEF WorkedInv, Holding, Trying, MemPC
  <2>6. QED BY <2>3, <2>4, <2>5 DEF Job
<1>15. ASSUME NEW i \in Items, Connect(i) \/ Handoff(i) \/ PutData(i) \/ PutMeta(i) \/ Spawn(i)
       PROVE  SpoolInv'
  <2>1. Job(i)'
    BY <1>12, <1>13, <1>14, <1>15
  <2>2. \A k \in Items : k # i => Job(k)'
    BY <1>10, <1>15
  <2>3. QED BY <1>0, <2>1, <2>2
<1>16. ASSUME NEW f \in Forwarders, NEW i \in Items, Worker(f, i) PROVE SpoolInv'
  <2>1. Job(i)'
    BY <1>0, <1>16, WorkerJob
  <2>2. ASSUME NEW k \in Items, k # i PROVE Job(k)'
    <3>1. /\ UNCHANGED <<conn, accepted, expired, crashes>>
          /\ \A g \in Forwarders : pc'[g][k] = pc[g][k] /\ attempts'[g][k] = attempts[g][k]
          /\ meta'[k] = meta[k] /\ sent'[k] = sent[k] /\ tries'[k] = tries[k]
          /\ k \in payload' <=> k \in payload
          /\ faults' \in {faults, faults + 1}
      BY <1>16, <2>2, WorkerFrame
    <3>2. crashes' >= crashes /\ faults' >= faults
      BY <1>2, <3>1
    <3>3. QED BY <1>0, <3>1, <3>2, Untouched
  <2>3. QED BY <1>0, <2>1, <2>2
<1>17. Next => SpoolInv'
  BY <1>4, <1>5, <1>6, <1>8, <1>9, <1>15, <1>16, NextCases
<1>18. QED BY <1>7, <1>17

-----------------------------------------------------------------------------
(* What the invariants give, for an orderly system *)

\* One worker at most retries a job: a forwarder is closed, and has waited for
\* its workers, before the next one replays the queue.
THEOREM OneWorker == ASSUME Orderly PROVE Spec => []OneWorkerPerItem
<1>1. Init => EngineInv
  BY EngineInit
<1>2. TypeOK /\ EngineInv /\ [Next]_vars => EngineInv'
  BY EngineStep
<1>3. EngineInv => OneWorkerPerItem
  BY DEF EngineInv, OneWorkerPerItem
<1>4. QED BY <1>1, <1>2, <1>3, TypeCorrect, PTL DEF Spec, SafeSpec

LEMMA SpoolAlways == ASSUME Orderly PROVE Spec => [](TypeOK /\ EngineInv /\ SpoolInv)
<1>1. Init => EngineInv /\ SpoolInv
  BY EngineInit, SpoolInit
<1>2. TypeOK /\ TypeOK' /\ EngineInv /\ SpoolInv /\ [Next]_vars => EngineInv' /\ SpoolInv'
  BY EngineStep, SpoolStep
<1>3. QED BY <1>1, <1>2, TypeCorrect, PTL DEF Spec, SafeSpec

\* load never finds metadata without its payload while file operations succeed.
THEOREM ReplayIsWhole == ASSUME Orderly PROVE Spec => []ReplayableWhole
<1>1. SpoolInv => ReplayableWhole
  BY DEF SpoolInv, JobInv, ReplayableWhole
<1>2. QED BY <1>1, SpoolAlways, PTL

\* The attempts spent on a job stay within its limit, plus one per crash or
\* failing file operation.
THEOREM AttemptsAreBounded == ASSUME Orderly PROVE Spec => []AttemptBudget
<1>1. TypeOK /\ SpoolInv => AttemptBudget
  <2> SUFFICES ASSUME TypeOK, SpoolInv, NEW i \in Items
               PROVE  tries[i] <= MaxAttempts + crashes + faults
    BY DEF AttemptBudget
  <2>1. /\ tries[i] <= MaxAttempts + Mishaps /\ tries[i] \in Nat
        /\ MaxAttempts \in Nat /\ crashes \in Nat /\ faults \in Nat
    BY NumbersAre DEF SpoolInv, JobInv, Numbers
  <2>2. MaxAttempts + (crashes + faults) = MaxAttempts + crashes + faults
    BY <2>1
  <2>3. QED BY <2>1, <2>2 DEF Mishaps
<1>2. QED BY <1>1, SpoolAlways, PTL

\* A job is sent to the printer once, plus once per crash or failing file
\* operation.
THEOREM DeliveriesAreBounded == ASSUME Orderly PROVE Spec => []DeliveredOnce
<1>1. TypeOK /\ SpoolInv => DeliveredOnce
  <2> SUFFICES ASSUME TypeOK, SpoolInv, NEW i \in Items
               PROVE  sent[i] <= 1 + crashes + faults
    BY DEF DeliveredOnce
  <2>1. sent[i] <= 1 + Mishaps /\ sent[i] \in Nat /\ crashes \in Nat /\ faults \in Nat
    BY NumbersAre DEF SpoolInv, JobInv, Numbers
  <2>2. 1 + (crashes + faults) = 1 + crashes + faults
    BY <2>1
  <2>3. QED BY <2>1, <2>2 DEF Mishaps
<1>2. QED BY <1>1, SpoolAlways, PTL

\* A job moves to dead/ for a reason: its attempts, its deadline or a failing
\* file operation.
THEOREM GiveUpIsJustified == ASSUME Orderly PROVE Spec => GiveUpJustified
<1> DEFINE A == \A i \in deadMeta' \ deadMeta :
                   meta[i] >= MaxAttempts \/ i \in expired \/ faults > 0
<1> USE DEF disk, engine, handlers, workers, history, budget
<1>1. ASSUME TypeOK, SpoolInv, Next PROVE A
  <2>1. ASSUME NEW f \in Forwarders, NEW i \in Items, Worker(f, i) PROVE A
    <3>1. CASE DeadLetterMeta(f, i)
      <4>1. pc[f][i] = "deadMeta" /\ \A k \in deadMeta' \ deadMeta : k = i
        BY <3>1 DEF DeadLetterMeta
      <4>2. faults = 0 => meta[i] >= MaxAttempts \/ i \in expired
        BY <1>1, <4>1 DEF SpoolInv, WorkedInv
      <4>3. faults # 0 => faults > 0
        BY <1>1, NumbersAre DEF Numbers
      <4>4. QED BY <4>1, <4>2, <4>3
    <3>2. CASE ~DeadLetterMeta(f, i)
      <4>1. deadMeta' = deadMeta
        BY <2>1, <3>2 DEF Worker, retryLoopPersisted, retryLoopMem, LoadPayload, Due, Shutdown,
           CheckDeadline, SendOK, SendFails, Update, Backoff, DeadLetterPayload, RemoveMeta,
           RemovePayload, MemCheck, MemSend, MemBackoff
      <4>2. QED BY <4>1
    <3>3. QED BY <3>1, <3>2
  <2>2. Start \/ BeginStop \/ EndStop \/ Crash => deadMeta' = deadMeta
    BY DEF Start, BeginStop, EndStop, Crash
  <2>3. \A f \in Forwarders : CloseDone(f) \/ CloseWait(f) => deadMeta' = deadMeta
    BY DEF CloseDone, CloseWait
  <2>4. \A i \in Items : Expire(i) \/ Connect(i) \/ Handoff(i) \/ PutData(i) \/ PutMeta(i) \/ Spawn(i)
           => deadMeta' = deadMeta
    BY DEF Expire, Connect, Handoff, PutData, PutMeta, Spawn
  <2>5. deadMeta' = deadMeta => A
    OBVIOUS
  <2> HIDE DEF A
  <2>6. QED BY <1>1, <2>1, <2>2, <2>3, <2>4, <2>5, NextCases
<1>2. TypeOK /\ SpoolInv /\ [Next]_vars => [A]_vars
  BY <1>1
<1>3. QED BY <1>2, SpoolAlways, PTL DEF Spec, SafeSpec, GiveUpJustified

-----------------------------------------------------------------------------
(* The files and workers implement the queue *)

\* The status of a job depends on whether it was accepted, whether it was
\* delivered and whether its metadata is in the queue directory.
LEMMA StatusIs ==
    ASSUME NEW i \in Items
    PROVE  /\ RetryStatus[i] = IF i \notin accepted THEN "new"
                               ELSE IF Delivered(i) THEN "delivered"
                               ELSE IF meta[i] # NoFile THEN "queued" ELSE "dead"
           /\ RetryStatus'[i] = IF i \notin accepted' THEN "new"
                                ELSE IF Delivered(i)' THEN "delivered"
                                ELSE IF meta'[i] # NoFile THEN "queued" ELSE "dead"
BY DEF RetryStatus

\* A step that moves no job's status is a stutter; one that moves one job's
\* along a transition of the queue is a step of the queue.
LEMMA QueueMoves ==
    ASSUME NEW i \in Items,
           \A k \in Items : k # i => RetryStatus'[k] = RetryStatus[k],
           \/ RetryStatus'[i] = RetryStatus[i]
           \/ RetryStatus[i] = "new" /\ RetryStatus'[i] = "queued"
           \/ RetryStatus[i] = "queued" /\ RetryStatus'[i] \in {"delivered", "dead"}
    PROVE  [Queue!Next]_RetryStatus
<1>1. /\ RetryStatus = [k \in Items |-> RetryStatus[k]]
      /\ RetryStatus' = [k \in Items |-> RetryStatus'[k]]
  BY DEF RetryStatus
<1> HIDE DEF RetryStatus
<1>2. CASE RetryStatus'[i] = RetryStatus[i]
  BY <1>1, <1>2
<1>3. CASE RetryStatus'[i] # RetryStatus[i]
  <2>1. RetryStatus' = [RetryStatus EXCEPT ![i] = RetryStatus'[i]]
    BY <1>1
  <2>2. Queue!Enqueue(i) \/ Queue!Deliver(i) \/ Queue!GiveUp(i)
    BY <1>3, <2>1 DEF Queue!Enqueue, Queue!Deliver, Queue!GiveUp, Queue!Move
  <2>3. QED BY <2>2 DEF Queue!Next
<1>4. QED BY <1>2, <1>3

\* A step that neither accepts nor delivers a job, nor makes its metadata come
\* or go, leaves its status.
LEMMA StatusStays ==
    ASSUME NEW i \in Items, i \in accepted' <=> i \in accepted,
           i \in accepted => /\ Delivered(i)' <=> Delivered(i)
                             /\ Delivered(i) \/ (meta'[i] # NoFile <=> meta[i] # NoFile)
    PROVE  RetryStatus'[i] = RetryStatus[i]
BY StatusIs

LEMMA QueueStep ==
    ASSUME TypeOK, TypeOK', SpoolInv, NothingLostInv, [Next]_vars
    PROVE  [Queue!Next]_RetryStatus
<1> USE DEF disk, engine, handlers, workers, history, budget
<1>0. /\ \A i \in Items : Job(i)
      /\ meta \in [Items -> Nat \cup {NoFile}] /\ sent \in [Items -> Nat] /\ 0 # NoFile
  BY SpoolAssumption DEF SpoolInv, Job, TypeOK
<1>1. ASSUME UNCHANGED <<meta, accepted, sent>> PROVE [Queue!Next]_RetryStatus
  BY <1>1 DEF RetryStatus, Delivered
<1>2. Start \/ BeginStop \/ EndStop \/ Crash => [Queue!Next]_RetryStatus
  BY <1>1 DEF Start, BeginStop, EndStop, Crash
<1>3. ASSUME NEW f \in Forwarders, CloseDone(f) \/ CloseWait(f) PROVE [Queue!Next]_RetryStatus
  BY <1>1, <1>3 DEF CloseDone, CloseWait
<1>4. ASSUME NEW i \in Items,
             Expire(i) \/ Connect(i) \/ Handoff(i) \/ PutData(i) \/ Spawn(i)
      PROVE  [Queue!Next]_RetryStatus
  BY <1>1, <1>4 DEF Expire, Connect, Handoff, PutData, Spawn
\* put accepts a job that nobody has sent.
<1>5. ASSUME NEW i \in Items, PutMeta(i) PROVE [Queue!Next]_RetryStatus
  <2>1. CASE UNCHANGED <<meta, accepted>>
    BY <1>1, <1>5, <2>1 DEF PutMeta
  <2>2. CASE meta' = [meta EXCEPT ![i] = 0] /\ accepted' = accepted \cup {i}
    <3>1. sent' = sent /\ sent[i] = 0 /\ i \notin accepted
      BY <1>0, <1>5 DEF PutMeta, Job, ReceivedInv
    <3>2. RetryStatus[i] = "new" /\ RetryStatus'[i] = "queued"
      BY <1>0, <2>2, <3>1, StatusIs DEF Delivered
    <3>3. ASSUME NEW k \in Items, k # i PROVE RetryStatus'[k] = RetryStatus[k]
      BY <1>0, <2>2, <3>1, <3>3, StatusStays DEF Delivered
    <3>4. QED BY <3>2, <3>3, QueueMoves
  <2>3. QED BY <1>5, <2>1, <2>2 DEF PutMeta
\* The worker of a job delivers it or gives it up, once.
<1>6. ASSUME NEW f \in Forwarders, NEW i \in Items, Worker(f, i) PROVE [Queue!Next]_RetryStatus
  <2>1. /\ UNCHANGED accepted
        /\ \A k \in Items : k # i => meta'[k] = meta[k] /\ sent'[k] = sent[k]
        /\ \/ sent'[i] = sent[i]
           \/ sent'[i] = sent[i] + 1 /\ pc[f][i] \in {"send", "memSend"}
    BY <1>6, WorkerFrame
  <2>2. ASSUME NEW k \in Items, k # i PROVE RetryStatus'[k] = RetryStatus[k]
    BY <2>1, <2>2, StatusStays DEF Delivered
  <2>3. /\ pc[f][i] \in Holding => meta[i] # NoFile /\ i \in accepted
        /\ pc[f][i] \in MemPC => i \notin accepted
    BY <1>0 DEF Job, JobInv, WorkedInv
  <2>4. CASE pc[f][i] \in MemPC
    <3>1. RetryStatus'[i] = RetryStatus[i]
      BY <2>1, <2>3, <2>4, StatusStays
    <3>2. QED BY <2>2, <3>1, QueueMoves
  <2>5. CASE SendOK(f, i)
    <3>1. /\ meta' = meta /\ meta[i] # NoFile /\ i \in accepted
          /\ sent'[i] = sent[i] + 1 /\ sent[i] \in Nat
      BY <1>0, <2>3, <2>5 DEF SendOK, Holding, Trying
    <3>2. sent'[i] > 0
      BY <3>1
    <3>3. RetryStatus'[i] = "delivered" /\ RetryStatus[i] \in {"queued", "delivered"}
      BY <2>1, <3>1, <3>2, StatusIs DEF Delivered
    <3>4. QED BY <2>2, <3>3, QueueMoves
  <2>6. CASE DeadLetterMeta(f, i)
    <3>1. sent' = sent /\ i \in accepted /\ meta[i] # NoFile
      BY <2>3, <2>6 DEF DeadLetterMeta, Holding
    <3>2. \/ RetryStatus'[i] = RetryStatus[i]
          \/ RetryStatus[i] = "queued" /\ RetryStatus'[i] = "dead"
      BY <2>1, <3>1, StatusIs DEF Delivered
    <3>3. QED BY <2>2, <3>2, QueueMoves
  <2>7. CASE RemoveMeta(f, i)
    <3>1. sent' = sent /\ Delivered(i)
      BY <2>7 DEF RemoveMeta, NothingLostInv
    <3>2. RetryStatus'[i] = RetryStatus[i]
      BY <2>1, <3>1, StatusStays DEF Delivered
    <3>3. QED BY <2>2, <3>2, QueueMoves
  <2>8. CASE Update(f, i)
    <3>1. /\ sent' = sent /\ meta[i] # NoFile
          /\ meta' = meta \/ meta' = [meta EXCEPT ![i] = attempts[f][i]]
          /\ attempts[f][i] \in Nat /\ NoFile \notin Nat
      BY <2>3, <2>8, SpoolAssumption DEF Update, Holding, TypeOK
    <3>2. meta'[i] # NoFile
      BY <1>0, <3>1
    <3>3. RetryStatus'[i] = RetryStatus[i]
      BY <2>1, <3>1, <3>2, StatusStays DEF Delivered
    <3>4. QED BY <2>2, <3>3, QueueMoves
  <2>9. CASE /\ pc[f][i] \notin MemPC /\ ~SendOK(f, i) /\ ~DeadLetterMeta(f, i)
             /\ ~RemoveMeta(f, i) /\ ~Update(f, i)
    <3>1. UNCHANGED <<meta, sent>>
      BY <1>6, <2>9 DEF Worker, retryLoopPersisted, retryLoopMem, LoadPayload, Due, Shutdown,
         CheckDeadline, SendFails, Backoff, DeadLetterPayload, RemovePayload, MemCheck, MemSend,
         MemBackoff, MemPC
    <3>2. QED BY <1>1, <2>1, <3>1
  <2>10. QED BY <2>4, <2>5, <2>6, <2>7, <2>8, <2>9
<1>7. CASE UNCHANGED vars
  BY <1>1, <1>7 DEF vars
<1>8. Next => [Queue!Next]_RetryStatus
  BY <1>2, <1>3, <1>4, <1>5, <1>6, NextCases
<1>9. QED BY <1>7, <1>8

\* The files, workers, crashes and restarts of an orderly system implement the
\* queue: a job is queued once, and then delivered or given up once.
THEOREM QueueIsImplemented == ASSUME Orderly PROVE Spec => QueueSpec
<1>1. Init => Queue!Init
  BY StatusIs DEF Init, Queue!Init, RetryStatus
<1>2. TypeOK /\ TypeOK' /\ SpoolInv /\ NothingLostInv /\ [Next]_vars => [Queue!Next]_RetryStatus
  BY QueueStep
<1>3. Init => NothingLostInv
  BY InitNothingLost
<1>4. TypeOK /\ TypeOK' /\ NothingLostInv /\ [Next]_vars => NothingLostInv'
  BY NothingLostStep
<1>5. QED BY <1>1, <1>2, <1>3, <1>4, SpoolAlways, TypeCorrect, PTL
          DEF Spec, SafeSpec, QueueSpec, Queue!Spec
=============================================================================
