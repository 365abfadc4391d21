--------------------------- MODULE KeyStoreProofs ---------------------------
(***************************************************************************)
(* Proofs about module KeyStore, for any number of keys, servers and       *)
(* concurrent calls.                                                       *)
(***************************************************************************)
EXTENDS KeyStore, FiniteSetTheorems, TLAPS

(* An empty table, no server running. *)
LEMMA InitInv == Init => IInv
  <1> SUFFICES ASSUME Init PROVE IInv
    OBVIOUS
  <1>1. TypeOK /\ OneSuccessor /\ KeysOK /\ TasksOK /\ SignersOK
    BY KeyStoreAssumption DEF Init, TypeOK, OneSuccessor, KeysOK, TasksOK,
       SignersOK, UnusedKey, IdleTask, Key, KeyState, Reason, Task
  <1>2. BootstrapOK
    BY DEF Init, BootstrapOK, UnusedKey
  <1>3. QED
    BY <1>1, <1>2 DEF IInv

(* A step that only moves one call along keeps the invariant. *)
LEMMA TaskStep ==
  ASSUME IInv, UNCHANGED <<keys, signer, bootAt, overlapped, now>>,
         NEW t \in Tasks, NEW q \in Task, task' = [task EXCEPT ![t] = q],
         q.at = "rotate" => q.kid \in Kids,
         q.goal \in {"due", "load"} => q.server \in Servers,
         q.at = "insert" => CurrentKeys = {}
  PROVE  IInv'
  <1>1. TypeOK' /\ TasksOK'
    BY DEF IInv, TypeOK, TasksOK
  <1>2. OneSuccessor' /\ KeysOK' /\ SignersOK'
    BY DEF IInv, OneSuccessor, KeysOK, SignersOK
  <1>3. BootstrapOK'
    <2>1. \A k \in Kids : ActiveKeys = {k} => CurrentKeys = {k}
      BY DEF CurrentKeys, ActiveKeys, IInv, TypeOK, Key
    <2>2. ActiveKeys' = ActiveKeys
      BY DEF ActiveKeys
    <2>3. QED
      BY <2>1, <2>2 DEF IInv, BootstrapOK, TypeOK
  <1>4. QED
    BY <1>1, <1>2, <1>3 DEF IInv

(* A free slot is a task. *)
LEMMA IdleIsTask == IdleTask \in Task
  BY KeyStoreAssumption DEF IdleTask, Task, Reason

(* What a call becomes after a rotation, won or lost. *)
LEMMA AfterRotateOK ==
  ASSUME IInv, NEW t \in Tasks, NEW g \in {"load", "answer"}
  PROVE  /\ AfterRotate(t, g) \in Task
         /\ AfterRotate(t, g).at \in {"idle", "read"}
         /\ AfterRotate(t, g).goal \in {"due", "load"} =>
                AfterRotate(t, g).server \in Servers
  <1>1. task[t] \in Task
    BY DEF IInv, TypeOK
  <1>2. PICK q \in Task : q = task[t]
    BY <1>1
  <1>3. AfterRotate(t, g) \in
          {IdleTask, [q EXCEPT !.at = "read", !.goal = g, !.kid = NoKid]}
    BY <1>2 DEF AfterRotate
  <1>4. CASE AfterRotate(t, g) = IdleTask
    BY <1>4, IdleIsTask DEF IdleTask
  <1>5. CASE AfterRotate(t, g) = [q EXCEPT !.at = "read", !.goal = g, !.kid = NoKid]
    <2>1. /\ AfterRotate(t, g) \in Task
          /\ AfterRotate(t, g).at = "read" /\ AfterRotate(t, g).goal = g
          /\ AfterRotate(t, g).server = q.server
      BY <1>5 DEF Task
    <2>2. CASE AfterRotate(t, g) = IdleTask
      BY <2>1, <2>2 DEF IdleTask
    <2>3. CASE AfterRotate(t, g) # IdleTask
      <3>1. ~(q.server = NoServer /\ g = "load")
        BY <1>2, <2>3 DEF AfterRotate
      <3>2. QED
        BY <2>1, <3>1 DEF Task
    <2>4. QED
      BY <2>2, <2>3
  <1>6. QED
    BY <1>3, <1>4, <1>5

(* Calls that arrive, read, fail or answer. *)
LEMMA ReadingSteps ==
  ASSUME IInv, NEW t \in Tasks,
         Call(t) \/ FindNone(t) \/ CheckDue(t) \/ ReadForRotate(t)
           \/ RotateLost(t) \/ Answer(t) \/ Fail(t)
  PROVE  IInv'
  <1>1. task[t] \in Task /\ UNCHANGED <<keys, signer, bootAt, overlapped, now>>
    BY DEF IInv, TypeOK, Call, StartServer, RotateManual, RotateEmergency,
           GetPublicJwks, Begin, FindNone, CheckDue, ReadForRotate, RotateLost,
           Answer, Fail
  <1>2. PICK q \in Task : q = task[t]
    BY <1>1
  <1>3. (q.at = "rotate" => q.kid \in Kids)
          /\ (q.goal \in {"due", "load"} => q.server \in Servers)
    BY <1>2 DEF IInv, TasksOK
  <1>4. CASE Call(t)
    <2>1. PICK g \in {"due", "rotate", "answer"}, m \in Reason,
               v \in Servers \union {NoServer} :
            Begin(t, g, m, v) /\ (g = "due" => v \in Servers)
      BY <1>4 DEF Call, StartServer, RotateManual, RotateEmergency,
                  GetPublicJwks, Reason
    <2>2. QED
      BY <1>1, <2>1, TaskStep DEF Begin, Task
  <1>5. CASE FindNone(t)
    <2>1. task' = [task EXCEPT ![t] = [q EXCEPT !.at = "insert"]] /\ CurrentKeys = {}
      BY <1>2, <1>5 DEF FindNone
    <2>2. QED
      BY <1>1, <1>3, <2>1, TaskStep DEF Task
  <1>6. CASE CheckDue(t)
    <2>1. PICK g \in {"load", "rotate"} :
            task' = [task EXCEPT ![t] = [q EXCEPT !.goal = g]]
      BY <1>2, <1>6 DEF CheckDue
    <2>2. q.server \in Servers /\ q.at = "read"
      BY <1>2, <1>3, <1>6 DEF CheckDue
    <2>3. QED
      BY <1>1, <2>1, <2>2, TaskStep DEF Task
  <1>7. CASE ReadForRotate(t)
    <2>1. PICK k \in Kids :
            task' = [task EXCEPT ![t] = [q EXCEPT !.at = "rotate", !.kid = k]]
      BY <1>2, <1>7 DEF ReadForRotate, CurrentKeys, ActiveKeys
    <2>2. QED
      BY <1>1, <1>3, <2>1, TaskStep DEF Task
  <1>8. CASE RotateLost(t) \/ Answer(t)
    <2>1. PICK g \in {"load", "answer"} :
            task' = [task EXCEPT ![t] = AfterRotate(t, g)]
      BY <1>8 DEF RotateLost, Answer
    <2>2. QED
      BY <1>1, <2>1, AfterRotateOK, TaskStep
  <1>9. CASE Fail(t)
    BY <1>1, <1>9, IdleIsTask, TaskStep DEF Fail, IdleTask
  <1>10. QED
    BY <1>4, <1>5, <1>6, <1>7, <1>8, <1>9

(* A bootstrap key takes an unused id: nobody's predecessor, nobody's signer. *)
LEMMA BootstrapStep ==
  ASSUME IInv, NEW t \in Tasks, NEW k \in Kids, Bootstrap(t, k)
  PROVE  IInv'
  <1> USE DEF IInv
  <1>1. /\ keys[k].state = "unused" /\ keys[k].from = NoKid
        /\ UNCHANGED <<signer, bootAt, now>>
    BY DEF Bootstrap, KeysOK, UnusedKey
  <1>2. /\ keys'[k].state = "active" /\ keys'[k].from = NoKid
        /\ \A x \in Kids \ {k} : keys'[x] = keys[x]
        /\ keys' \in [Kids -> Key]
    BY DEF Bootstrap, NewKey, TypeOK, Key, KeyState, Reason
  <1>3. PICK q \in Task : q = task[t] /\ task' = [task EXCEPT ![t] = [q EXCEPT !.at = "read"]]
    BY DEF Bootstrap, TypeOK
  <1>4. [q EXCEPT !.at = "read"] \in Task
    BY DEF Task
  <1>5. TypeOK'
    <2>1. overlapped' \in BOOLEAN
      BY DEF Bootstrap
    <2>2. QED
      BY <1>1, <1>2, <1>3, <1>4, <2>1 DEF TypeOK
  <1>6. TasksOK'
    BY <1>3 DEF TasksOK, TypeOK, Task
  <1>11. BootstrapOK'
    <2> SUFFICES ASSUME ~overlapped'
                 PROVE  /\ \E x \in Kids : ActiveKeys' = {x}
                        /\ \A x \in Tasks : task'[x].at # "insert"
      BY DEF BootstrapOK
    <2>1. ~overlapped /\ \A x \in Tasks \ {t} : task[x].at # "insert"
      BY DEF Bootstrap
    <2>2. \A x \in Kids : keys[x].state = "unused"
      BY <2>1 DEF Bootstrap, BootstrapOK
    <2>3. ActiveKeys' = {k}
      BY <1>2, <2>2 DEF ActiveKeys
    <2>4. \A x \in Tasks : task'[x].at # "insert"
      BY <1>3, <2>1 DEF TypeOK, Task
    <2>5. QED
      BY <2>3, <2>4
  <1>7. KeysOK'
    BY <1>2 DEF KeysOK
  <1>8. OneSuccessor'
    BY <1>1, <1>2, KeyStoreAssumption DEF OneSuccessor, TypeOK, Key
  <1>9. SignersOK'
    <2> SUFFICES ASSUME NEW v \in Servers, signer[v] # NoKid
                 PROVE
        /\ bootAt[v] <= now
        /\ \/ keys'[signer[v]].state = "active"
           \/ \E j \in Kids :
                /\ keys'[j].from = signer[v]
                /\ keys'[j].createdAt >= bootAt[v]
                /\ \/ keys'[signer[v]].state = "revoked"
                   \/ /\ keys'[signer[v]].state = "grace"
                      /\ keys'[signer[v]].expiresAt = keys'[j].createdAt + Grace
      BY <1>1 DEF SignersOK
    <2>1. signer[v] \in Kids \ {k}
      BY <1>1 DEF SignersOK, TypeOK
    <2>2. keys'[signer[v]] = keys[signer[v]]
      BY <1>2, <2>1
    <2>3. \A j \in Kids : keys[j].from = signer[v] => keys'[j] = keys[j]
      BY <1>1, <1>2, <2>1
    <2>4. QED
      BY <2>2, <2>3 DEF SignersOK
  <1>10. QED
    BY <1>5, <1>6, <1>7, <1>8, <1>9, <1>11

(* What the transaction of rotateNow writes. *)
LEMMA RotateShape ==
  ASSUME IInv, NEW t \in Tasks, NEW k \in Kids, Rotate(t, k)
  PROVE  \E old \in Kids \ {k} :
           /\ keys[old].state = "active" /\ keys[k].state = "unused"
           /\ keys' \in [Kids -> Key]
           /\ keys'[k].state = "active" /\ keys'[k].from = old
           /\ keys'[k].createdAt = now
           /\ keys'[old].from = keys[old].from
           /\ keys'[old].createdAt = keys[old].createdAt
           /\ \/ keys'[old].state = "revoked"
              \/ /\ keys'[old].state = "grace"
                 /\ keys'[old].expiresAt = now + Grace
           /\ \A x \in Kids \ {k, old} : keys'[x] = keys[x]
           /\ UNCHANGED <<signer, bootAt, overlapped, now>>
           /\ task' = [task EXCEPT ![t] = AfterRotate(t, "load")]
  <1>1. PICK old \in Kids : old = task[t].kid
    BY DEF Rotate, IInv, TasksOK
  <1>2. /\ keys[old].state = "active" /\ keys[k].state = "unused"
        /\ UNCHANGED <<signer, bootAt, overlapped, now>>
        /\ task' = [task EXCEPT ![t] = AfterRotate(t, "load")]
    BY <1>1 DEF Rotate, CanDeactivate
  <1>3. PICK m \in Reason, key \in Key :
          /\ m = task[t].reason /\ key = keys[old]
          /\ keys' = [keys EXCEPT ![old] = Retired(key, m), ![k] = NewKey(old, m)]
    BY <1>1 DEF Rotate, IInv, TypeOK, Task
  <1>4. now \in Nat /\ now + Grace \in Nat /\ keys \in [Kids -> Key]
    BY KeyStoreAssumption DEF IInv, TypeOK
  <1>5. /\ Retired(key, m) \in Key
        /\ Retired(key, m).from = key.from
        /\ Retired(key, m).createdAt = key.createdAt
        /\ \/ Retired(key, m).state = "revoked"
           \/ /\ Retired(key, m).state = "grace"
              /\ Retired(key, m).expiresAt = now + Grace
    BY <1>4 DEF Retired, Key, KeyState
  <1>6. /\ NewKey(old, m) \in Key
        /\ NewKey(old, m).state = "active" /\ NewKey(old, m).from = old
        /\ NewKey(old, m).createdAt = now
    BY <1>4 DEF NewKey, Key, KeyState
  <1>7. /\ old # k
        /\ keys'[old] = Retired(key, m) /\ keys'[k] = NewKey(old, m)
        /\ \A x \in Kids \ {k, old} : keys'[x] = keys[x]
        /\ keys' \in [Kids -> Key]
    BY <1>2, <1>3, <1>4, <1>5, <1>6
  <1>8. QED
    BY <1>2, <1>3, <1>5, <1>6, <1>7

(* The key a rotation retires had no successor, because it was active; the   *)
(* servers that sign with it learn when it was retired.                      *)
LEMMA RotateStep ==
  ASSUME IInv, NEW t \in Tasks, NEW k \in Kids, Rotate(t, k)
  PROVE  IInv'
  <1> USE DEF IInv
  <1>1. PICK old \in Kids \ {k} :
           /\ keys[old].state = "active" /\ keys[k].state = "unused"
           /\ keys' \in [Kids -> Key]
           /\ keys'[k].state = "active" /\ keys'[k].from = old
           /\ keys'[k].createdAt = now
           /\ keys'[old].from = keys[old].from
           /\ keys'[old].createdAt = keys[old].createdAt
           /\ \/ keys'[old].state = "revoked"
              \/ /\ keys'[old].state = "grace"
                 /\ keys'[old].expiresAt = now + Grace
           /\ \A x \in Kids \ {k, old} : keys'[x] = keys[x]
           /\ UNCHANGED <<signer, bootAt, overlapped, now>>
           /\ task' = [task EXCEPT ![t] = AfterRotate(t, "load")]
    BY RotateShape
  <1>2. keys[k].from = NoKid
    BY <1>1 DEF KeysOK, UnusedKey
  <1>3. \A j \in Kids : keys[j].from # old /\ keys[j].from # k
    BY <1>1, KeyStoreAssumption DEF OneSuccessor
  <1>4. TypeOK' /\ TasksOK'
    BY <1>1, AfterRotateOK DEF TypeOK, TasksOK
  <1>5. KeysOK'
    BY <1>1 DEF KeysOK
  <1>9. BootstrapOK'
    <2> SUFFICES ASSUME ~overlapped
                 PROVE  /\ \E x \in Kids : ActiveKeys' = {x}
                        /\ \A x \in Tasks : task'[x].at # "insert"
      BY <1>1 DEF BootstrapOK
    <2>1. ActiveKeys = {old} /\ \A x \in Tasks : task[x].at # "insert"
      BY <1>1 DEF BootstrapOK, ActiveKeys
    <2>2. ActiveKeys' = {k}
      BY <1>1, <2>1 DEF ActiveKeys
    <2>3. QED
      BY <1>1, <2>1, <2>2, AfterRotateOK DEF TypeOK
  <1>6. OneSuccessor'
    <2> SUFFICES ASSUME NEW j \in Kids, keys'[j].from # NoKid
                 PROVE  /\ keys'[keys'[j].from].state \in {"grace", "revoked"}
                        /\ \A x \in Kids : keys'[x].from = keys'[j].from => j = x
      BY DEF OneSuccessor
    <2>1. \A x \in Kids \ {k} : keys'[x].from = keys[x].from
      BY <1>1
    <2>2. CASE j = k
      BY <1>1, <1>3, <2>1, <2>2
    <2>3. CASE j # k
      <3>1. keys[j].from \in Kids \ {k, old}
        BY <1>3, <2>1, <2>3, KeyStoreAssumption DEF TypeOK, Key
      <3>2. QED
        BY <1>1, <2>1, <2>3, <3>1 DEF OneSuccessor
    <2>4. QED
      BY <2>2, <2>3
  <1>7. SignersOK'
    <2> SUFFICES ASSUME NEW v \in Servers, signer[v] # NoKid
                 PROVE
        /\ bootAt[v] <= now
        /\ \/ keys'[signer[v]].state = "active"
           \/ \E j \in Kids :
                /\ keys'[j].from = signer[v]
                /\ keys'[j].createdAt >= bootAt[v]
                /\ \/ keys'[signer[v]].state = "revoked"
                   \/ /\ keys'[signer[v]].state = "grace"
                      /\ keys'[signer[v]].expiresAt = keys'[j].createdAt + Grace
      BY <1>1 DEF SignersOK
    <2>1. bootAt[v] <= now /\ bootAt[v] \in Nat /\ now \in Nat
      BY DEF SignersOK, TypeOK
    <2>2. CASE signer[v] = old
      BY <1>1, <2>1, <2>2
    <2>3. CASE signer[v] # old
      <3>1. signer[v] \in Kids \ {k, old}
        BY <1>1, <2>3 DEF SignersOK, TypeOK
      <3>2. \A j \in Kids : keys[j].from = signer[v] =>
               keys'[j].from = keys[j].from /\ keys'[j].createdAt = keys[j].createdAt
        <4>1. \A j \in Kids : keys[j].from = signer[v] => j # k
          BY <1>2, <3>1, KeyStoreAssumption
        <4>2. QED
          BY <1>1, <4>1
      <3>3. QED
        BY <1>1, <2>1, <3>1, <3>2 DEF SignersOK
    <2>4. QED
      BY <2>2, <2>3
  <1>8. QED
    BY <1>4, <1>5, <1>6, <1>7, <1>9

(* A server loads a key that is active at that moment; stopping forgets it;  *)
(* time only passes.                                                         *)
LEMMA ServerSteps ==
  ASSUME IInv,
         \/ \E t \in Tasks : LoadSigner(t)
         \/ \E v \in Servers : StopServer(v)
         \/ Tick
  PROVE  IInv'
  <1> USE DEF IInv
  <1>1. CASE \E t \in Tasks : LoadSigner(t)
    <2>1. PICK t \in Tasks : LoadSigner(t)
      BY <1>1
    <2>2. PICK v \in Servers, k \in Kids :
            /\ keys[k].state = "active"
            /\ signer' = [signer EXCEPT ![v] = k]
            /\ bootAt' = [bootAt EXCEPT ![v] = now]
      BY <2>1 DEF LoadSigner, TasksOK, CurrentKeys, ActiveKeys
    <2>3. task' = [task EXCEPT ![t] = IdleTask] /\ UNCHANGED <<keys, overlapped, now>>
      BY <2>1 DEF LoadSigner
    <2>4. TypeOK' /\ TasksOK'
      BY <2>2, <2>3, IdleIsTask DEF TypeOK, TasksOK, IdleTask
    <2>5. OneSuccessor' /\ KeysOK'
      BY <2>3 DEF OneSuccessor, KeysOK
    <2>6. SignersOK'
      BY <2>2, <2>3 DEF SignersOK, TypeOK
    <2>7. BootstrapOK'
      BY <2>3 DEF BootstrapOK, ActiveKeys, TypeOK, IdleTask
    <2>8. QED
      BY <2>4, <2>5, <2>6, <2>7
  <1>2. CASE \E v \in Servers : StopServer(v)
    BY <1>2 DEF StopServer, TypeOK, TasksOK, OneSuccessor, KeysOK, SignersOK,
                BootstrapOK, ActiveKeys
  <1>3. CASE Tick
    BY <1>3 DEF Tick, TypeOK, TasksOK, OneSuccessor, KeysOK, SignersOK,
                BootstrapOK, ActiveKeys
  <1>4. QED
    BY <1>1, <1>2, <1>3

(* Every step keeps the invariant. *)
LEMMA NextInv == IInv /\ [Next]_vars => IInv'
  <1> SUFFICES ASSUME IInv, [Next]_vars PROVE IInv'
    OBVIOUS
  <1>1. CASE UNCHANGED vars
    BY <1>1 DEF vars, IInv, TypeOK, TasksOK, OneSuccessor, KeysOK, SignersOK,
                BootstrapOK, ActiveKeys
  <1>2. QED
    BY <1>1, ReadingSteps, BootstrapStep, RotateStep, ServerSteps
       DEF Next, Continue

-----------------------------------------------------------------------------
(* The theorems. *)

(* The invariant holds in every reachable state. *)
THEOREM Invariance == Spec => []IInv
  <1>1. QED
    BY InitInv, NextInv, PTL DEF Spec

(* Table rows, calls and signers keep their types. *)
THEOREM TypeCorrect == Spec => []TypeOK
  <1>1. IInv => TypeOK
    BY DEF IInv
  <1>2. QED
    BY <1>1, Invariance, PTL

(* However many rotations of one key race, it gets one successor. *)
THEOREM SingleSuccessor == Spec => []OneSuccessor
  <1>1. IInv => OneSuccessor
    BY DEF IInv
  <1>2. QED
    BY <1>1, Invariance, PTL

(* Tokens of a server stay verifiable until its key is revoked or the grace  *)
(* period that began after its start is over.                                *)
THEOREM SignersVerify == Spec => []SignerVerifiable
  <1>1. IInv => SignerVerifiable
    <2> SUFFICES ASSUME IInv, NEW v \in Servers, signer[v] # NoKid,
                        signer[v] \notin PublicJwks
                 PROVE  \E j \in Kids :
                          /\ keys[j].from = signer[v]
                          /\ keys[j].createdAt >= bootAt[v]
                          /\ \/ keys[signer[v]].state = "revoked"
                             \/ keys[j].createdAt + Grace <= now
      BY DEF SignerVerifiable
    <2>1. signer[v] \in Kids /\ keys[signer[v]].expiresAt \in Nat /\ now \in Nat
      BY DEF IInv, TypeOK, Key
    <2>2. /\ keys[signer[v]].state # "active"
          /\ keys[signer[v]].state = "grace" => keys[signer[v]].expiresAt <= now
      BY <2>1 DEF PublicJwks
    <2>3. QED
      BY <2>2 DEF IInv, SignersOK
  <1>2. QED
    BY <1>1, Invariance, PTL

(* What a step may do to a key: only Bootstrap and Rotate touch the table.   *)
LEMMA TableStep ==
  ASSUME IInv, [Next]_vars
  PROVE  \/ UNCHANGED keys
         \/ \E t \in Tasks, k \in Kids : Bootstrap(t, k) \/ Rotate(t, k)
  BY DEF Next, Continue, Call, StartServer, RotateManual, RotateEmergency,
         GetPublicJwks, Begin, FindNone, CheckDue, ReadForRotate, RotateLost,
         Answer, LoadSigner, Fail, StopServer, Tick, vars

(* Retirement and its successor commit together, so there is no moment       *)
(* without an active key once there was one.                                 *)
THEOREM NoGap == Spec => ActiveNeverLost
  <1>1. ASSUME IInv, [Next]_vars PROVE ActiveKeys # {} => ActiveKeys' # {}
    <2>1. CASE UNCHANGED keys
      BY <2>1 DEF ActiveKeys
    <2>2. ASSUME NEW t \in Tasks, NEW k \in Kids, Bootstrap(t, k)
          PROVE  k \in ActiveKeys'
      BY <1>1, <2>2 DEF Bootstrap, NewKey, ActiveKeys, IInv, TypeOK
    <2>3. ASSUME NEW t \in Tasks, NEW k \in Kids, Rotate(t, k)
          PROVE  k \in ActiveKeys'
      BY <1>1, <2>3, RotateShape DEF ActiveKeys
    <2>4. QED
      BY <1>1, <2>1, <2>2, <2>3, TableStep
  <1>2. IInv /\ [Next]_vars => [ActiveKeys # {} => ActiveKeys' # {}]_vars
    BY <1>1
  <1>3. QED
    BY <1>2, Invariance, PTL DEF Spec, ActiveNeverLost

(* No rotation, however late, touches a retired key. *)
THEOREM RetirementIsFinal == Spec => RetiredForGood
  <1> DEFINE Step == \A k \in Kids :
               keys[k].state \in {"grace", "revoked"} => keys'[k] = keys[k]
  <1>1. ASSUME IInv, [Next]_vars PROVE Step
    <2>1. CASE UNCHANGED keys
      BY <2>1
    <2>2. ASSUME NEW t \in Tasks, NEW k \in Kids, Bootstrap(t, k)
          PROVE  Step
      BY <1>1, <2>2 DEF Bootstrap, IInv, TypeOK
    <2>3. ASSUME NEW t \in Tasks, NEW k \in Kids, Rotate(t, k)
          PROVE  Step
      BY <1>1, <2>3, RotateShape
    <2>4. QED
      BY <1>1, <2>1, <2>2, <2>3, TableStep
  <1>2. IInv /\ [Next]_vars => [Step]_vars
    BY <1>1
  <1>3. QED
    BY <1>2, Invariance, PTL DEF Spec, RetiredForGood

-----------------------------------------------------------------------------
(* Counting.  Cardinality needs finite sets: the ids are any set, but only   *)
(* finitely many were ever inserted.                                         *)

(* The keys ensureKeyExists has inserted. *)
BootstrapKeys == {k \in Kids : keys[k].state # "unused" /\ keys[k].from = NoKid}

CountInv ==
    /\ IsFiniteSet(ActiveKeys) /\ IsFiniteSet(BootstrapKeys)
    /\ Cardinality(ActiveKeys) = Cardinality(BootstrapKeys)

(* The table is empty at first. *)
LEMMA CountInit == Init => CountInv
  <1> SUFFICES ASSUME Init PROVE CountInv
    OBVIOUS
  <1>1. ActiveKeys = {} /\ BootstrapKeys = {}
    BY DEF Init, UnusedKey, ActiveKeys, BootstrapKeys
  <1>2. QED
    BY <1>1, FS_EmptySet DEF CountInv

(* A bootstrap adds one key to both sets. *)
LEMMA CountBootstrap ==
  ASSUME IInv, CountInv, NEW t \in Tasks, NEW k \in Kids, Bootstrap(t, k)
  PROVE  CountInv'
  <1>1. keys[k].state = "unused" /\ keys'[k].state = "active" /\ keys'[k].from = NoKid
    BY DEF Bootstrap, NewKey, IInv, TypeOK, Key
  <1>2. \A x \in Kids \ {k} : keys'[x] = keys[x]
    BY DEF Bootstrap, IInv, TypeOK
  <1>3. k \notin ActiveKeys /\ ActiveKeys' = ActiveKeys \union {k}
    BY <1>1, <1>2 DEF ActiveKeys
  <1>4. k \notin BootstrapKeys /\ BootstrapKeys' = BootstrapKeys \union {k}
    BY <1>1, <1>2 DEF BootstrapKeys
  <1>5. /\ IsFiniteSet(ActiveKeys \union {k})
        /\ Cardinality(ActiveKeys \union {k}) = Cardinality(ActiveKeys) + 1
    BY <1>3, FS_AddElement DEF CountInv
  <1>6. /\ IsFiniteSet(BootstrapKeys \union {k})
        /\ Cardinality(BootstrapKeys \union {k}) = Cardinality(BootstrapKeys) + 1
    BY <1>4, FS_AddElement DEF CountInv
  <1>7. QED
    BY <1>3, <1>4, <1>5, <1>6 DEF CountInv

(* A rotation puts one active key in another's place. *)
LEMMA CountRotate ==
  ASSUME IInv, CountInv, NEW t \in Tasks, NEW k \in Kids, Rotate(t, k)
  PROVE  CountInv'
  <1>1. PICK old \in Kids \ {k} :
           /\ keys[old].state = "active" /\ keys[k].state = "unused"
           /\ keys'[k].state = "active" /\ keys'[k].from = old
           /\ keys'[old].from = keys[old].from
           /\ keys'[old].state \in {"revoked", "grace"}
           /\ \A x \in Kids \ {k, old} : keys'[x] = keys[x]
    BY RotateShape
  <1>2. BootstrapKeys' = BootstrapKeys
    BY <1>1, KeyStoreAssumption DEF BootstrapKeys
  <1>3. /\ old \in ActiveKeys /\ k \notin ActiveKeys
        /\ ActiveKeys' = (ActiveKeys \ {old}) \union {k}
    BY <1>1 DEF ActiveKeys
  <1> DEFINE Rest == ActiveKeys \ {old}
  <1>4. IsFiniteSet(Rest) /\ Cardinality(Rest) = Cardinality(ActiveKeys) - 1
    BY <1>3, FS_RemoveElement DEF CountInv
  <1>5. k \notin Rest
    BY <1>3
  <1>6. IsFiniteSet(Rest \union {k}) /\ Cardinality(Rest \union {k}) = Cardinality(Rest) + 1
    BY <1>4, <1>5, FS_AddElement
  <1>7. Cardinality(ActiveKeys) \in Nat
    BY FS_CardinalityType DEF CountInv
  <1>8. ActiveKeys' = Rest \union {k}
    BY <1>3
  <1> HIDE DEF Rest
  <1>9. Cardinality(ActiveKeys') = Cardinality(ActiveKeys)
    BY <1>4, <1>6, <1>7, <1>8
  <1>10. QED
    BY <1>2, <1>6, <1>8, <1>9 DEF CountInv

(* However servers, administrators and readers interleave, there are as many *)
(* active keys as bootstrap INSERTs: rotations neither add nor lose one.  If  *)
(* no two bootstraps overlapped there is never a second active key.          *)
THEOREM RotationsKeepCount == Spec => []OneActivePerBootstrap
  <1>1. ASSUME IInv, CountInv, [Next]_vars PROVE CountInv'
    <2>1. CASE UNCHANGED keys
      <3>1. UNCHANGED <<ActiveKeys, BootstrapKeys>>
        BY <2>1 DEF ActiveKeys, BootstrapKeys
      <3>2. QED
        BY <1>1, <3>1 DEF CountInv
    <2>2. QED
      BY <1>1, <2>1, CountBootstrap, CountRotate, TableStep
  <1>2. IInv /\ CountInv /\ [Next]_vars => CountInv'
    BY <1>1
  <1>3. IInv /\ CountInv => OneActivePerBootstrap
    <2>1. IInv => (~overlapped => \A j, k \in ActiveKeys : j = k)
      BY DEF IInv, BootstrapOK, ActiveKeys
    <2>2. QED
      BY <2>1 DEF CountInv, OneActivePerBootstrap, BootstrapKeys
  <1>4. QED
    BY <1>2, <1>3, CountInit, Invariance, PTL DEF Spec

=============================================================================
