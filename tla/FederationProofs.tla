-------------------------- MODULE FederationProofs --------------------------
(***************************************************************************)
(* Proofs about module Federation, for any number of clients, secrets,     *)
(* administrators, browsers, requests, grants and logins: first the client *)
(* registry, then the provider, then the relying party.  Each has an       *)
(* invariant of its own, which the steps of the others leave alone.        *)
(***************************************************************************)
EXTENDS Federation, FiniteSetTheorems, TLAPS

-----------------------------------------------------------------------------
(* The client registry. *)

ClientRow == [status : {"none", "active", "disabled"}, oidc : {"yes", "no"}]

SecretRow == [of : Clients \union {None}, primary : BOOLEAN, grace : Nat]

Task == [at : {"idle", "update", "demote", "insert"}, client : Clients \union {None},
         status : {"keep", "active", "disabled"}, oidc : {"keep", "yes", "no"},
         found : Secrets \union {None, "active", "disabled"}, grace : Nat]

(* A request about a client: the client is there, and an update has read one *)
(* of the states a client can be in.                                         *)
AdminTask(t) ==
    /\ t.at # "idle" => t.client \in Clients /\ Registered(t.client)
    /\ t.at = "update" => t.found \in {"active", "disabled"}

(* A registered client has one primary secret; a secret belongs to a         *)
(* registered client.                                                        *)
OnePrimary ==
    /\ \A c \in Clients : Registered(c) => \E s \in Secrets : Primaries(c) = {s}
    /\ \A s \in Secrets : secret[s].of # None => Registered(secret[s].of)

ClientsInv ==
    /\ client \in [Clients -> ClientRow]
    /\ secret \in [Secrets -> SecretRow]
    /\ adm \in [Admins -> Task]
    /\ \A a \in Admins : AdminTask(adm[a])
    /\ OnePrimary
    /\ now \in Nat

(* A free slot. *)
LEMMA NoTaskOK == NoTask \in Task /\ AdminTask(NoTask) /\ NoTask.at = "idle"
  BY DEF NoTask, Task, AdminTask

(* The relying party's client is registered with the secret it was given. *)
LEMMA ClientsInitInv == ClientsInit => ClientsInv
  <1> SUFFICES ASSUME ClientsInit PROVE ClientsInv
    OBVIOUS
  <1>1. client \in [Clients -> ClientRow] /\ secret \in [Secrets -> SecretRow] /\ now \in Nat
    BY ClientsAssumption DEF ClientsInit, ClientRow, SecretRow, NoClient, NoSecret
  <1>2. adm \in [Admins -> Task] /\ \A a \in Admins : AdminTask(adm[a])
    BY NoTaskOK DEF ClientsInit
  <1>3. \A c \in Clients : Registered(c) <=> c = AppClient
    BY DEF ClientsInit, Registered, NoClient
  <1>4. \A s \in Secrets : /\ secret[s].of = IF s = AppSecret THEN AppClient ELSE None
                           /\ secret[s].primary <=> s = AppSecret
    BY DEF ClientsInit, NoSecret
  <1>5. Primaries(AppClient) = {AppSecret}
    BY <1>4, ClientsAssumption DEF Primaries
  <1>6. OnePrimary
    BY <1>3, <1>4, <1>5, ClientsAssumption DEF OnePrimary
  <1>7. QED
    BY <1>1, <1>2, <1>6 DEF ClientsInv

(* A request of an administrator moves along and touches no row. *)
LEMMA AdminMoves ==
  ASSUME ClientsInv, UNCHANGED <<client, secret, now>>,
         NEW a \in Admins, NEW t \in Task, AdminTask(t), adm' = [adm EXCEPT ![a] = t]
  PROVE  ClientsInv'
  <1>1. adm' \in [Admins -> Task] /\ \A b \in Admins : adm'[b] = IF b = a THEN t ELSE adm[b]
    BY DEF ClientsInv
  <1>2. AdminTask(t)' /\ \A b \in Admins : AdminTask(adm[b]) => AdminTask(adm[b])'
    BY <1>1 DEF AdminTask, Registered
  <1>3. OnePrimary'
    BY DEF ClientsInv, OnePrimary, Registered, Primaries
  <1>4. QED
    BY <1>1, <1>2, <1>3 DEF ClientsInv

(* Requests that begin, wait for the row, or are rolled back. *)
LEMMA AdminSteps ==
  ASSUME ClientsInv, NEW a \in Admins,
         \/ \E c \in Clients, u \in Updates : UpdateClient(a, c, u)
         \/ \E c \in Clients, days \in GracePeriods : RotateSecret(a, c, days)
         \/ DemotePrimary(a) \/ Cut(a)
  PROVE  ClientsInv'
  <1>1. CASE \E c \in Clients, u \in Updates : UpdateClient(a, c, u)
    <2>1. PICK c \in Clients, u \in Updates : UpdateClient(a, c, u)
      BY <1>1
    <2> DEFINE t == [NoTask EXCEPT !.at = "update", !.client = c, !.oidc = u.oidc,
                                   !.status = u.status, !.found = client[c].status]
    <2>2. u.status \in {"keep", "active", "disabled"} /\ u.oidc \in {"keep", "yes", "no"}
      BY DEF Updates
    <2>3. client[c].status \in {"active", "disabled"} /\ Registered(c)
      BY <2>1 DEF UpdateClient, Registered, ClientsInv, ClientRow
    <2>4. t \in Task /\ AdminTask(t)
      BY <2>2, <2>3 DEF Task, AdminTask, NoTask
    <2>5. adm' = [adm EXCEPT ![a] = t] /\ UNCHANGED <<client, secret, now>>
      BY <2>1 DEF UpdateClient, Start
    <2> HIDE DEF t
    <2>6. QED
      BY <2>4, <2>5, AdminMoves
  <1>2. CASE \E c \in Clients, days \in GracePeriods : RotateSecret(a, c, days)
    <2>1. PICK c \in Clients, days \in GracePeriods : RotateSecret(a, c, days)
      BY <1>2
    <2>2. Registered(c) /\ \E s \in Secrets : Primaries(c) = {s}
      BY <2>1 DEF RotateSecret, ClientsInv, OnePrimary
    <2>3. PICK s \in Secrets : s = CHOOSE x \in Primaries(c) : TRUE
      BY <2>2
    <2>4. PICK d \in Nat : d = IF days > 0 THEN now + days ELSE 0
      BY ClientsAssumption DEF ClientsInv
    <2> DEFINE t == [NoTask EXCEPT !.at = "demote", !.client = c, !.found = s, !.grace = d]
    <2>5. t \in Task /\ AdminTask(t)
      BY <2>2, <2>3, <2>4 DEF Task, AdminTask, NoTask
    <2>6. adm' = [adm EXCEPT ![a] = t] /\ UNCHANGED <<client, secret, now>>
      BY <2>1, <2>3, <2>4 DEF RotateSecret, Start
    <2> HIDE DEF t
    <2>7. QED
      BY <2>5, <2>6, AdminMoves
  <1>3. CASE DemotePrimary(a)
    <2>1. PICK p \in Task : p = adm[a] /\ AdminTask(p) /\ p.at = "demote"
      BY <1>3 DEF ClientsInv, DemotePrimary
    <2>2. PICK f \in Secrets \union {None, "active", "disabled"} :
            f = IF secret[p.found].primary THEN p.found ELSE None
      BY <2>1 DEF Task
    <2> DEFINE t == [p EXCEPT !.at = "insert", !.found = f]
    <2>3. t \in Task /\ AdminTask(t)
      BY <2>1, <2>2 DEF Task, AdminTask
    <2>4. adm' = [adm EXCEPT ![a] = t] /\ UNCHANGED <<client, secret, now>>
      BY <1>3, <2>1, <2>2 DEF DemotePrimary, ClientsInv
    <2> HIDE DEF t
    <2>5. QED
      BY <2>3, <2>4, AdminMoves
  <1>4. CASE Cut(a)
    BY <1>4, NoTaskOK, AdminMoves DEF Cut, End
  <1>5. QED
    BY <1>1, <1>2, <1>3, <1>4

(* A new client comes with its first secret, in one transaction. *)
LEMMA CreateStep ==
  ASSUME ClientsInv, NEW c \in Clients, NEW s \in Secrets, NEW oidc \in {"yes", "no"},
         CreateClient(c, s, oidc)
  PROVE  ClientsInv'
  <1>1. UNCHANGED <<adm, now>> /\ ~Registered(c) /\ secret[s].of = None
    BY DEF CreateClient
  <1>2. /\ client' \in [Clients -> ClientRow]
        /\ client'[c].status = "active" /\ \A x \in Clients \ {c} : client'[x] = client[x]
    BY DEF CreateClient, ClientsInv, ClientRow
  <1>3. /\ secret' \in [Secrets -> SecretRow]
        /\ secret'[s].of = c /\ secret'[s].primary
        /\ \A x \in Secrets \ {s} : secret'[x] = secret[x]
    BY DEF CreateClient, ClientsInv, SecretRow
  <1>4. \A x \in Clients : Registered(x)' <=> (Registered(x) \/ x = c)
    BY <1>2 DEF Registered
  <1>5. \A a \in Admins : AdminTask(adm[a])'
    BY <1>1, <1>4 DEF AdminTask, ClientsInv
  <1>6. \A x \in Secrets : secret[x].of # c
    BY <1>1, ClientsAssumption DEF ClientsInv, OnePrimary
  <1>7. Primaries(c)' = {s} /\ \A x \in Clients \ {c} : Primaries(x)' = Primaries(x)
    BY <1>1, <1>3, <1>6, ClientsAssumption DEF Primaries
  <1>8. OnePrimary'
    <2>1. \A x \in Clients : Registered(x)' => \E y \in Secrets : Primaries(x)' = {y}
      BY <1>4, <1>7 DEF ClientsInv, OnePrimary
    <2>2. \A x \in Secrets : secret'[x].of # None => Registered(secret[x].of)'
      <3> SUFFICES ASSUME NEW x \in Secrets, secret'[x].of # None
                   PROVE  Registered(secret[x].of)'
        OBVIOUS
      <3>1. secret'[x].of \in Clients
        BY <1>3 DEF SecretRow
      <3>2. secret'[x].of = c \/ Registered(secret'[x].of)
        BY <1>3 DEF ClientsInv, OnePrimary
      <3>3. QED
        BY <1>2, <3>1, <3>2 DEF Registered
    <2>3. QED
      BY <2>1, <2>2 DEF OnePrimary
  <1>9. QED
    BY <1>1, <1>2, <1>3, <1>5, <1>8 DEF ClientsInv

(* An update writes one of a client's states: a client stays registered. *)
LEMMA UpdateStep ==
  ASSUME ClientsInv, NEW a \in Admins, CommitUpdate(a)
  PROVE  ClientsInv'
  <1>1. PICK t \in Task : t = adm[a] /\ AdminTask(t) /\ t.at = "update"
    BY DEF ClientsInv, CommitUpdate
  <1>2. UNCHANGED <<secret, now>> /\ adm' = [adm EXCEPT ![a] = NoTask]
    BY DEF CommitUpdate, End
  <1>3. /\ client' \in [Clients -> ClientRow]
        /\ \A x \in Clients : client'[x].status = "none" => client[x].status = "none"
        /\ \A x \in Clients : client[x].status = "none" => client'[x].status = "none"
    <2>1. t.client \in Clients /\ Registered(t.client)
      BY <1>1 DEF AdminTask
    <2>2. PICK st \in {"active", "disabled"} :
            st = IF t.status = "keep" THEN t.found ELSE t.status
      BY <1>1 DEF AdminTask, Task
    <2>3. client[t.client] \in ClientRow
      BY <2>1 DEF ClientsInv
    <2>4. PICK od \in {"yes", "no"} :
            od = IF t.oidc = "keep" THEN client[t.client].oidc ELSE t.oidc
      BY <2>3 DEF Task, ClientRow
    <2>5. client' = [client EXCEPT ![t.client] = [status |-> st, oidc |-> od]]
      BY <1>1, <2>2, <2>4 DEF CommitUpdate
    <2>6. [status |-> st, oidc |-> od] \in ClientRow
      BY DEF ClientRow
    <2>7. QED
      BY <2>1, <2>5, <2>6 DEF ClientsInv, Registered
  <1>4. \A x \in Clients : Registered(x)' <=> Registered(x)
    BY <1>3 DEF Registered
  <1>5. adm' \in [Admins -> Task] /\ \A b \in Admins : adm'[b] \in {adm[b], NoTask}
    BY <1>2, NoTaskOK DEF ClientsInv
  <1>6. \A b \in Admins : AdminTask(adm[b])'
    BY <1>4, <1>5, NoTaskOK DEF AdminTask, ClientsInv
  <1>7. OnePrimary'
    <2>1. \A x \in Clients : Primaries(x)' = Primaries(x)
      BY <1>2 DEF Primaries
    <2>2. \A s \in Secrets : secret'[s].of # None => secret'[s].of \in Clients
      BY <1>2 DEF ClientsInv, SecretRow
    <2>3. \A s \in Secrets : secret'[s].of # None => client'[secret'[s].of].status # "none"
      BY <1>2, <1>3, <2>2 DEF ClientsInv, OnePrimary, Registered
    <2>4. QED
      BY <1>4, <2>1, <2>3 DEF ClientsInv, OnePrimary, Registered
  <1>8. QED
    BY <1>2, <1>3, <1>5, <1>6, <1>7 DEF ClientsInv

(* What a rotation that commits has replaced: the client's one primary. *)
LEMMA RotatedPrimary ==
  ASSUME ClientsInv, NEW a \in Admins, NEW s \in Secrets, InsertSecret(a, s)
  PROVE  /\ adm[a].client \in Clients /\ adm[a].found \in Secrets
         /\ Primaries(adm[a].client) = {adm[a].found}
         /\ s # adm[a].found /\ secret[s].of = None
  <1>1. adm[a].client \in Clients /\ Registered(adm[a].client)
    BY DEF ClientsInv, AdminTask, InsertSecret
  <1>2. PICK p \in Secrets : Primaries(adm[a].client) = {p}
    BY <1>1 DEF ClientsInv, OnePrimary
  <1>3. adm[a].found = p
    BY <1>2 DEF InsertSecret
  <1>4. secret[p].of = adm[a].client
    BY <1>2 DEF Primaries
  <1>5. QED
    BY <1>1, <1>2, <1>3, <1>4, ClientsAssumption DEF InsertSecret

(* The commit of a rotation leaves the new secret as the only primary one. *)
LEMMA InsertStep ==
  ASSUME ClientsInv, NEW a \in Admins, NEW s \in Secrets, InsertSecret(a, s)
  PROVE  ClientsInv'
  <1>1. PICK t \in Task : t = adm[a] /\ AdminTask(t) /\ t.at = "insert"
    BY DEF ClientsInv, InsertSecret
  <1>2. UNCHANGED <<client, now>> /\ adm' = [adm EXCEPT ![a] = NoTask]
    BY DEF InsertSecret, End
  <1>3. /\ t.client \in Clients /\ t.found \in Secrets /\ Primaries(t.client) = {t.found}
        /\ s # t.found /\ secret[s].of = None
    BY <1>1, RotatedPrimary
  <1>4. /\ secret'[s] = [of |-> t.client, primary |-> TRUE, grace |-> 0]
        /\ secret'[t.found] = [secret[t.found] EXCEPT !.primary = FALSE, !.grace = t.grace]
        /\ \A x \in Secrets \ {s, t.found} : secret'[x] = secret[x]
        /\ DOMAIN secret' = Secrets
    BY <1>1, <1>3 DEF InsertSecret
  <1>5. /\ secret' \in [Secrets -> SecretRow]
        /\ secret'[s].of = t.client /\ secret'[s].primary = TRUE
        /\ secret'[t.found].of = secret[t.found].of /\ secret'[t.found].primary = FALSE
    <2>1. PICK o \in SecretRow : o = secret[t.found]
      BY <1>3 DEF ClientsInv
    <2>2. /\ [o EXCEPT !.primary = FALSE, !.grace = t.grace] \in SecretRow
          /\ [o EXCEPT !.primary = FALSE, !.grace = t.grace].of = o.of
          /\ [o EXCEPT !.primary = FALSE, !.grace = t.grace].primary = FALSE
      BY DEF SecretRow, Task
    <2>3. [of |-> t.client, primary |-> TRUE, grace |-> 0] \in SecretRow
      BY <1>3 DEF SecretRow
    <2>4. \A x \in Secrets : secret'[x] \in SecretRow
      BY <1>4, <2>1, <2>2, <2>3 DEF ClientsInv
    <2> DEFINE F(x) ==
          CASE x = s -> [of |-> adm[a].client, primary |-> TRUE, grace |-> 0]
            [] x = adm[a].found -> [secret[x] EXCEPT !.primary = FALSE, !.grace = adm[a].grace]
            [] OTHER -> secret[x]
    <2>5. secret' = [x \in Secrets |-> F(x)]
      BY DEF InsertSecret
    <2> HIDE DEF F
    <2>6. QED
      BY <1>4, <2>1, <2>2, <2>4, <2>5
  <1>6. \A x \in Clients : Registered(x)' <=> Registered(x)
    BY <1>2 DEF Registered
  <1>7. \A b \in Admins : AdminTask(adm[b])' /\ adm'[b] \in Task
    BY <1>2, <1>6, NoTaskOK DEF AdminTask, ClientsInv
  <1>8. secret[t.found].of = t.client
    BY <1>3 DEF Primaries
  <1>9. Primaries(t.client)' = {s}
    <2>1. \A x \in Secrets \ {s, t.found} : ~(secret[x].of = t.client /\ secret[x].primary)
      BY <1>3 DEF Primaries
    <2>2. \A x \in Secrets : (secret'[x].of = t.client /\ secret'[x].primary) <=> x = s
      BY <1>3, <1>4, <1>5, <2>1
    <2>3. QED
      BY <2>2 DEF Primaries
  <1>10. \A c \in Clients \ {t.client} : Primaries(c)' = Primaries(c)
    <2> SUFFICES ASSUME NEW c \in Clients \ {t.client} PROVE Primaries(c)' = Primaries(c)
      OBVIOUS
    <2>1. secret'[s].of # c /\ secret[s].of # c
            /\ secret'[t.found].of # c /\ secret[t.found].of # c
      BY <1>3, <1>5, <1>8, ClientsAssumption
    <2>2. \A x \in Secrets : (secret'[x].of = c /\ secret'[x].primary)
                               <=> (secret[x].of = c /\ secret[x].primary)
      BY <1>4, <2>1
    <2>3. QED
      BY <2>2 DEF Primaries
  <1>11. OnePrimary'
    <2>1. \A x \in Secrets : secret'[x].of # None => Registered(secret'[x].of)
      <3>1. Registered(t.client)
        BY <1>1 DEF AdminTask
      <3>2. \A x \in Secrets : secret'[x].of \in {t.client, secret[x].of}
        BY <1>4, <1>5, <1>8
      <3>3. QED
        BY <3>1, <3>2 DEF ClientsInv, OnePrimary
    <2>2. \A x \in Secrets : secret'[x].of # None => Registered(secret[x].of)'
      BY <1>2, <2>1 DEF Registered
    <2>3. \A c \in Clients : Registered(c)' => \E x \in Secrets : Primaries(c)' = {x}
      BY <1>6, <1>9, <1>10 DEF ClientsInv, OnePrimary
    <2>4. QED
      BY <2>2, <2>3 DEF OnePrimary
  <1>12. QED
    BY <1>2, <1>5, <1>7, <1>11 DEF ClientsInv

(* The provider, the relying party and the clock only read the registry. *)
LEMMA RegistryFrame ==
  ASSUME [Next]_vars, now \in Nat
  PROVE  ClientsNext \/ (UNCHANGED clientVars /\ now' \in Nat)
  <1>1. ASSUME NEW r \in Requests, NEW q, Goto(r, q) \/ Open(r, q)
        PROVE  UNCHANGED clientVars /\ now' = now
    BY <1>1 DEF Goto, Open
  <1>2. ASSUME NEW r \in Requests, NEW q, Ask(r, q)
        PROVE  UNCHANGED clientVars /\ now' = now
    BY <1>1, <1>2 DEF Ask
  <1>3. ASSUME NEW b \in Browsers, Consent(b) \/ EndSession(b) \/ \E l : IssueCode(b, l)
        PROVE  UNCHANGED clientVars /\ now' = now
    BY <1>3 DEF Consent, EndSession, IssueCode
  <1>4. ASSUME NEW r \in Requests,
               \/ \E goal, i, c, s : Present(r, goal, i, c, s)
               \/ CheckSecret(r) \/ FindRow(r) \/ CheckGrant(r) \/ Consume(r)
        PROVE  UNCHANGED clientVars /\ now' = now
    BY <1>1, <1>2, <1>4 DEF Present, CheckSecret, FindRow, CheckGrant, Consume, Done
  <1>5. ASSUME NEW r \in Requests,
               \/ SaveAccess(r) \/ SaveRefresh(r) \/ Respond(r)
               \/ Destroy(r) \/ Revoke(r) \/ DestroyGrant(r) \/ Fail(r)
        PROVE  UNCHANGED clientVars /\ now' = now
    BY <1>1, <1>5 DEF SaveAccess, SaveRefresh, Respond, Destroy, Revoke, DestroyGrant,
                      Fail, Done
  <1>6. ASSUME NEW r \in Requests,
               \/ \E b, l : Login(r, b, l)
               \/ \E b, i : Callback(r, b, i)
               \/ \E b : Logout(r, b)
               \/ FinishCallback(r) \/ TimeOut(r) \/ Deliver(r)
        PROVE  UNCHANGED clientVars /\ now' = now
    BY <1>1, <1>2, <1>6 DEF Login, Callback, Logout, FinishCallback, TimeOut, Deliver, Done
  <1>7. CASE ProviderNext
    BY <1>3, <1>4, <1>5, <1>7 DEF ProviderNext
  <1>8. CASE PartyNext
    BY <1>3, <1>6, <1>8 DEF PartyNext, Authorize
  <1>9. CASE Tick \/ UNCHANGED vars
    BY <1>9 DEF Tick, vars
  <1>10. QED
    BY <1>7, <1>8, <1>9 DEF Next

(* Every step of the system keeps the registry's invariant. *)
LEMMA ClientsKept == ClientsInv /\ [Next]_vars => ClientsInv'
  <1> SUFFICES ASSUME ClientsInv, [Next]_vars PROVE ClientsInv'
    OBVIOUS
  <1>1. CASE ClientsNext
    BY <1>1, AdminSteps, CreateStep, UpdateStep, InsertStep DEF ClientsNext
  <1>2. CASE UNCHANGED clientVars /\ now' \in Nat
    <2>1. client' = client /\ secret' = secret /\ adm' = adm
      BY <1>2 DEF clientVars
    <2>2. (\A a \in Admins : AdminTask(adm[a])') /\ OnePrimary'
      BY <2>1 DEF ClientsInv, AdminTask, OnePrimary, Registered, Primaries
    <2>3. QED
      BY <1>2, <2>1, <2>2 DEF ClientsInv
  <1>3. QED
    BY <1>1, <1>2, RegistryFrame DEF ClientsInv

(* The registry's inductive invariant. *)
THEOREM ClientsInvariance == Spec => []ClientsInv
  <1>1. Init => ClientsInv
    BY ClientsInitInv DEF Init
  <1>2. QED
    BY <1>1, ClientsKept, PTL DEF Spec

(* A rotation demotes a secret once: exactly one primary is left to every    *)
(* registered client, and a secret that was demoted never changes again.     *)
THEOREM SecretsRetire == Spec => SecretsRetireOnce
  <1> DEFINE Step ==
        /\ \A c \in Clients : Registered(c)' => Cardinality(Primaries(c)') = 1
        /\ \A s \in Secrets : (secret[s].of # None /\ ~secret[s].primary)
                                 => secret'[s] = secret[s]
  <1>1. ASSUME ClientsInv, ClientsInv', [Next]_vars PROVE Step
    <2>1. \A c \in Clients : Registered(c)' => Cardinality(Primaries(c)') = 1
      <3> SUFFICES ASSUME NEW c \in Clients, Registered(c)'
                   PROVE  Cardinality(Primaries(c)') = 1
        OBVIOUS
      <3>1. PICK s \in Secrets : Primaries(c)' = {s}
        BY <1>1 DEF ClientsInv, OnePrimary
      <3>2. QED
        BY <3>1, FS_Singleton
    <2>2. ASSUME NEW s \in Secrets, secret[s].of # None, ~secret[s].primary
          PROVE  secret'[s] = secret[s]
      <3>1. CASE UNCHANGED secret
        BY <3>1
      <3>2. CASE \E a \in Admins, x \in Secrets : InsertSecret(a, x)
        <4>1. PICK a \in Admins, x \in Secrets : InsertSecret(a, x)
          BY <3>2
        <4>2. s # x /\ s # adm[a].found
          BY <1>1, <2>2, <4>1, RotatedPrimary DEF Primaries
        <4>3. QED
          BY <4>1, <4>2 DEF InsertSecret
      <3>3. CASE \E c \in Clients, x \in Secrets, o \in {"yes", "no"} : CreateClient(c, x, o)
        BY <1>1, <2>2, <3>3 DEF CreateClient, ClientsInv
      <3>4. \/ ClientsNext
            \/ UNCHANGED clientVars
        BY <1>1, RegistryFrame DEF ClientsInv
      <3>5. QED
        BY <3>1, <3>2, <3>3, <3>4
        DEF ClientsNext, clientVars, UpdateClient, RotateSecret, CommitUpdate,
            DemotePrimary, Cut
    <2>3. QED
      BY <2>1, <2>2
  <1>2. ClientsInv /\ ClientsInv' /\ [Next]_vars => [Step]_vars
    BY <1>1
  <1>3. QED
    BY <1>2, ClientsInvariance, PTL DEF Spec, SecretsRetireOnce

(* A client is disabled, and whatever update of another field is under way   *)
(* has read it so: no write that is still to come can enable it unasked.     *)
Shut(c) ==
    /\ client[c].status = "disabled"
    /\ \A a \in Admins :
          (adm[a].at = "update" /\ adm[a].client = c /\ adm[a].status = "keep")
             => adm[a].found = "disabled"

ShutInv ==
    /\ shut \in [Clients -> {"no", "overlapped", "clean"}]
    /\ \A c \in Clients : shut[c] = "clean" => Shut(c)

(* Requests that begin, wait or are rolled back: an update that begins reads *)
(* the row as it is.                                                         *)
LEMMA ShutMoves ==
  ASSUME ClientsInv, ShutInv, UNCHANGED <<client, shut>>, NEW a \in Admins, NEW t,
         adm' = [adm EXCEPT ![a] = t],
         t.at = "update" => t.found = client[t.client].status
  PROVE  ShutInv'
  <1>1. \A b \in Admins : adm'[b] = IF b = a THEN t ELSE adm[b]
    BY DEF ClientsInv
  <1>2. \A c \in Clients : Shut(c) => Shut(c)'
    BY <1>1 DEF Shut
  <1>3. QED
    BY <1>2 DEF ShutInv

(* The commit of an update. *)
LEMMA ShutCommits ==
  ASSUME ClientsInv, ShutInv, NEW a \in Admins, CommitUpdate(a)
  PROVE  ShutInv'
  <1>1. PICK t \in Task : t = adm[a] /\ AdminTask(t) /\ t.at = "update"
    BY DEF ClientsInv, CommitUpdate
  <1>2. PICK d \in Clients : d = t.client
    BY <1>1 DEF AdminTask
  <1>3. \A b \in Admins : adm'[b] = IF b = a THEN NoTask ELSE adm[b]
    BY DEF CommitUpdate, End, ClientsInv
  <1>4. /\ client'[d].status = IF t.status = "keep" THEN t.found ELSE t.status
        /\ \A c \in Clients \ {d} : client'[c] = client[c]
    BY <1>1, <1>2 DEF CommitUpdate, ClientsInv
  <1>5. shut' = [shut EXCEPT ![d] = ShutBy(a)]
    BY <1>1, <1>2 DEF CommitUpdate
  <1>6. /\ ShutBy(a) \in {"no", "overlapped", "clean"}
        /\ t.status = "active" => ShutBy(a) = "no"
        /\ t.status = "keep" => ShutBy(a) = shut[d]
        /\ (t.status = "disabled" /\ ShutBy(a) = "clean") =>
              \/ shut[d] = "clean"
              \/ \A b \in Admins \ {a} : ~(adm[b].at = "update" /\ adm[b].client = d)
    <2>1. t.status \in {"keep", "active", "disabled"} /\ shut[d] \in {"no", "overlapped", "clean"}
      BY DEF Task, ShutInv
    <2>2. CASE t.status = "active"
      BY <1>1, <1>2, <2>1, <2>2 DEF ShutBy
    <2>3. CASE t.status = "keep"
      BY <1>1, <1>2, <2>1, <2>3 DEF ShutBy
    <2>4. CASE t.status = "disabled"
      BY <1>1, <1>2, <2>1, <2>4 DEF ShutBy
    <2>5. QED
      BY <2>1, <2>2, <2>3, <2>4
  <1>7. \A c \in Clients \ {d} : Shut(c) => Shut(c)'
    BY <1>3, <1>4, NoTaskOK DEF Shut
  <1>8. ASSUME ShutBy(a) = "clean" PROVE Shut(d)'
    <2>1. t.status \in {"keep", "disabled"}
      BY <1>6, <1>8 DEF Task
    <2>2. CASE shut[d] = "clean"
      <3>1. Shut(d)
        BY <2>2 DEF ShutInv
      <3>2. client'[d].status = "disabled"
        BY <1>1, <1>2, <1>4, <2>1, <3>1 DEF Shut
      <3>3. QED
        BY <1>3, <3>1, <3>2, NoTaskOK DEF Shut
    <2>3. CASE shut[d] # "clean"
      <3>1. /\ t.status = "disabled"
            /\ \A b \in Admins \ {a} : ~(adm[b].at = "update" /\ adm[b].client = d)
        BY <1>6, <1>8, <2>1, <2>3
      <3>2. QED
        BY <1>3, <1>4, <3>1, NoTaskOK DEF Shut
    <2>4. QED
      BY <2>2, <2>3
  <1>9. QED
    BY <1>5, <1>6, <1>7, <1>8 DEF ShutInv

(* Every step of the system keeps what is known of disabled clients. *)
LEMMA ShutKept == ClientsInv /\ ShutInv /\ [Next]_vars => ShutInv'
  <1> SUFFICES ASSUME ClientsInv, ShutInv, [Next]_vars PROVE ShutInv'
    OBVIOUS
  <1>1. CASE \E c \in Clients, s \in Secrets, o \in {"yes", "no"} : CreateClient(c, s, o)
    <2>1. PICK c \in Clients : /\ ~Registered(c)
                               /\ \A x \in Clients \ {c} : client'[x] = client[x]
                               /\ UNCHANGED <<adm, shut>>
      BY <1>1 DEF CreateClient, ClientsInv
    <2>2. shut[c] # "clean"
      BY <2>1 DEF ShutInv, Shut, Registered
    <2>3. \A x \in Clients \ {c} : Shut(x) => Shut(x)'
      BY <2>1 DEF Shut
    <2>4. QED
      BY <2>1, <2>2, <2>3 DEF ShutInv
  <1>2. CASE \E a \in Admins, c \in Clients, u \in Updates : UpdateClient(a, c, u)
    <2>1. PICK a \in Admins, c \in Clients, u \in Updates : UpdateClient(a, c, u)
      BY <1>2
    <2> DEFINE t == [NoTask EXCEPT !.at = "update", !.client = c, !.oidc = u.oidc,
                                   !.status = u.status, !.found = client[c].status]
    <2>2. t.found = client[t.client].status
      BY DEF NoTask
    <2>3. adm' = [adm EXCEPT ![a] = t] /\ UNCHANGED <<client, shut>>
      BY <2>1 DEF UpdateClient, Start
    <2> HIDE DEF t
    <2>4. QED
      BY <2>2, <2>3, ShutMoves
  <1>3. CASE \E a \in Admins, c \in Clients, days \in GracePeriods : RotateSecret(a, c, days)
    <2>1. PICK a \in Admins, c \in Clients, days \in GracePeriods : RotateSecret(a, c, days)
      BY <1>3
    <2> DEFINE t == [NoTask EXCEPT !.at = "demote", !.client = c,
                                   !.found = CHOOSE s \in Primaries(c) : TRUE,
                                   !.grace = IF days > 0 THEN now + days ELSE 0]
    <2>2. t.at = "demote"
      BY DEF NoTask
    <2>3. adm' = [adm EXCEPT ![a] = t] /\ UNCHANGED <<client, shut>>
      BY <2>1 DEF RotateSecret, Start
    <2> HIDE DEF t
    <2>4. QED
      BY <2>2, <2>3, ShutMoves
  <1>4. CASE \E a \in Admins : CommitUpdate(a)
    BY <1>4, ShutCommits
  <1>5. CASE \E a \in Admins : DemotePrimary(a)
    <2>1. PICK a \in Admins : DemotePrimary(a)
      BY <1>5
    <2>2. PICK p \in Task : p = adm[a]
      BY DEF ClientsInv
    <2> DEFINE t == [p EXCEPT !.at = "insert",
                              !.found = IF secret[p.found].primary THEN p.found ELSE None]
    <2>3. t.at = "insert"
      BY DEF Task
    <2>4. adm' = [adm EXCEPT ![a] = t] /\ UNCHANGED <<client, shut>>
      BY <2>1, <2>2 DEF DemotePrimary, ClientsInv
    <2> HIDE DEF t
    <2>5. QED
      BY <2>3, <2>4, ShutMoves
  <1>6. CASE \E a \in Admins : Cut(a) \/ \E s \in Secrets : InsertSecret(a, s)
    <2>1. PICK a \in Admins : adm' = [adm EXCEPT ![a] = NoTask] /\ UNCHANGED <<client, shut>>
      BY <1>6 DEF Cut, InsertSecret, End
    <2>2. QED
      BY <2>1, NoTaskOK, ShutMoves
  <1>7. CASE UNCHANGED clientVars
    BY <1>7 DEF clientVars, ShutInv, Shut
  <1>8. QED
    BY <1>1, <1>2, <1>3, <1>4, <1>5, <1>6, <1>7, RegistryFrame DEF ClientsInv, ClientsNext

(* A client that was disabled with no other update of it under way stays     *)
(* disabled until an update that asks for it to be enabled is committed, for *)
(* any number of administrators and of updates of its other fields.          *)
THEOREM DisabledStays == Spec => []DisableSticks
  <1>1. Init => ShutInv
    BY DEF Init, ClientsInit, ShutInv
  <1>2. ShutInv => DisableSticks
    BY DEF ShutInv, Shut, DisableSticks
  <1>3. QED
    BY <1>1, <1>2, ClientsInvariance, ShutKept, PTL DEF Spec

-----------------------------------------------------------------------------
(* The provider. *)

Row == [model : {"none", "code", "access", "refresh"}, grant : Nat, login : Nat,
        expires : Nat, consumed : BOOLEAN, late : BOOLEAN, after : BOOLEAN]

Request ==
    [at : {"idle", "secrets", "find", "grant", "consume", "save", "access", "refresh",
           "response", "destroy", "revoke", "end", "reply"},
     goal : {"api", "code", "refresh", "revoke"}, client : Clients \union {None},
     secret : Secrets \union {None, EnvSecret}, row : Nat, grant : Nat, login : Nat,
     spent : BOOLEAN, token : Nat, verifier : Nat, browser : Browsers \union {None},
     reply : {"none", "pending", "session", "clear"}, since : Nat,
     after : BOOLEAN, crossed : BOOLEAN]

(* A request that found its code or token once the grant was over does not   *)
(* get past the grant's own lookup.                                          *)
RequestOK(q) ==
    /\ q.goal # "api" => q.row \in Rows
    /\ q.grant <= granted
    /\ (q.at = "grant" /\ q.after) => q.grant \in over
    /\ q.at \in {"consume", "save", "access", "refresh"} => q.after = FALSE

(* Ids of grants are not used again, so a grant that is over stays over. *)
GrantsOK ==
    /\ granted \in Nat
    /\ grants \subseteq 1..granted /\ over \subseteq 0..granted
    /\ over \intersect grants = {}
    /\ psession \in [Browsers -> 0..granted]

RowsOK ==
    /\ row \in [Rows -> Row]
    /\ used \in 0..MaxRows
    /\ \A i \in Rows : row[i].grant <= granted
    /\ ReplayEndsGrant

ProviderInv ==
    /\ req \in [Requests -> Request]
    /\ \A r \in Requests : RequestOK(req[r])
    /\ GrantsOK
    /\ RowsOK

(* A free slot of the provider, and an empty row. *)
LEMMA NoRequestOK ==
  /\ NoRequest \in Request /\ NoRow \in Row
  /\ NoRequest.at = "idle" /\ NoRequest.goal = "api" /\ NoRequest.grant = 0
  /\ NoRequest.browser = None /\ NoRequest.after = FALSE /\ NoRequest.crossed = FALSE
  /\ NoRow.model = "none" /\ NoRow.grant = 0
  BY DEF NoRequest, Request, NoRow, Row

(* No rows, grants or requests at the start. *)
LEMMA ProviderInitInv == ProviderInit => ProviderInv
  <1> SUFFICES ASSUME ProviderInit PROVE ProviderInv
    OBVIOUS
  <1>1. row \in [Rows -> Row] /\ \A i \in Rows : row[i].model = "none" /\ row[i].grant = 0
    BY NoRequestOK DEF ProviderInit
  <1>2. req \in [Requests -> Request] /\ \A r \in Requests : req[r] = NoRequest
    BY NoRequestOK DEF ProviderInit
  <1>3. used \in 0..MaxRows
    BY ProviderAssumption DEF ProviderInit
  <1>4. \A r \in Requests : RequestOK(req[r])
    BY <1>2, NoRequestOK DEF RequestOK, ProviderInit
  <1>5. GrantsOK
    BY DEF GrantsOK, ProviderInit
  <1>6. RowsOK
    BY <1>1, <1>3 DEF RowsOK, ReplayEndsGrant, ProviderInit
  <1>7. QED
    BY <1>2, <1>4, <1>5, <1>6 DEF ProviderInv

(* What a request may be told survives new grants and grants that end. *)
LEMMA RequestStaysOK ==
  ASSUME NEW q \in Request, RequestOK(q), over \subseteq over',
         granted \in Nat, granted' \in Nat, granted <= granted'
  PROVE  RequestOK(q)'
  BY DEF RequestOK, Request, Rows

(* A request the provider is working on becomes q: done with, or the same    *)
(* request for the same browser, with no answer made yet.                    *)
Becomes(p, q) ==
    \/ q = NoRequest
    \/ /\ p.at # "reply" /\ q.at # "reply" /\ q.at # "idle"
       /\ q.goal = p.goal /\ q.browser = p.browser
       /\ q.verifier = p.verifier /\ q.crossed = p.crossed

(* The steps of the provider on one request. *)
ProviderStep(r) ==
    \/ CheckSecret(r) \/ FindRow(r) \/ CheckGrant(r) \/ Consume(r)
    \/ SaveAccess(r) \/ SaveRefresh(r) \/ Respond(r)
    \/ Destroy(r) \/ Revoke(r) \/ DestroyGrant(r) \/ Fail(r)

(* Every step of the provider on a request leaves it well formed. *)
LEMMA ProviderMoves ==
  ASSUME ProviderInv, NEW r \in Requests, ProviderStep(r)
  PROVE  \E q \in Request : /\ req' = [req EXCEPT ![r] = q]
                            /\ RequestOK(q) /\ Becomes(req[r], q)
  <1>1. PICK p \in Request : p = req[r] /\ RequestOK(p)
    BY DEF ProviderInv
  <1>2. RequestOK(NoRequest)
    BY NoRequestOK DEF RequestOK, ProviderInv, GrantsOK
  <1>3. CASE req' = [req EXCEPT ![r] = NoRequest]
    BY <1>2, <1>3, NoRequestOK DEF Becomes
  <1>4. ASSUME NEW q \in Request, req' = [req EXCEPT ![r] = q], RequestOK(q), Becomes(p, q)
        PROVE  \E x \in Request : /\ req' = [req EXCEPT ![r] = x]
                                  /\ RequestOK(x) /\ Becomes(req[r], x)
    BY <1>1, <1>4
  <1>5. CASE CheckSecret(r)
    <2> DEFINE q == [p EXCEPT !.at = "find"]
    <2>1. q \in Request /\ RequestOK(q) /\ (p.at = "secrets" => Becomes(p, q))
      BY <1>1 DEF Request, RequestOK, Becomes
    <2>2. p.at = "secrets" /\ (req' = [req EXCEPT ![r] = NoRequest] \/ req' = [req EXCEPT ![r] = q])
      BY <1>1, <1>5 DEF CheckSecret, Goto, Done
    <2> HIDE DEF q
    <2>3. QED
      BY <1>3, <1>4, <2>1, <2>2
  <1>6. CASE FindRow(r)
    <2>1. CASE req' = [req EXCEPT ![r] = NoRequest]
      BY <1>3, <2>1
    <2>2. CASE req' # [req EXCEPT ![r] = NoRequest]
      <3>1. p.at = "find" /\ p.goal # "api" /\ p.row \in Rows
        BY <1>1, <1>6, <2>2 DEF FindRow, Done, Goto, RequestOK
      <3>2. PICK w \in Row : w = row[p.row] /\ w.grant <= granted
        BY <3>1 DEF ProviderInv, RowsOK
      <3>3. PICK at \in {"destroy", "grant"} : at = IF p.goal = "revoke" THEN "destroy" ELSE "grant"
        <4>1. CASE p.goal = "revoke"
          BY <4>1
        <4>2. CASE p.goal # "revoke"
          BY <4>2
        <4>3. QED
          BY <4>1, <4>2
      <3>4. PICK after \in BOOLEAN : after = (w.grant \in over)
        <4>1. (w.grant \in over) \in BOOLEAN
          OBVIOUS
        <4>2. QED
          BY <4>1
      <3> DEFINE q == [p EXCEPT !.at = at, !.grant = w.grant, !.login = w.login,
                                !.spent = w.consumed, !.after = after]
      <3>5. req' = [req EXCEPT ![r] = q]
        BY <1>1, <1>6, <2>2, <3>2, <3>3, <3>4 DEF FindRow, Goto, Done
      <3>6. /\ q \in Request /\ q.at = at /\ q.goal = p.goal /\ q.row = p.row
            /\ q.grant = w.grant /\ q.after = after
            /\ q.browser = p.browser /\ q.verifier = p.verifier /\ q.crossed = p.crossed
        BY ZenonT(60) DEF Request, Row
      <3> HIDE DEF q
      <3>7. RequestOK(q) /\ Becomes(p, q)
        BY <3>1, <3>2, <3>4, <3>6 DEF RequestOK, Becomes
      <3>8. QED
        BY <1>4, <3>5, <3>6, <3>7
    <2>3. QED
      BY <2>1, <2>2
  <1>7. CASE CheckGrant(r)
    <2>1. CASE req' = [req EXCEPT ![r] = NoRequest]
      BY <1>3, <2>1
    <2>2. CASE req' # [req EXCEPT ![r] = NoRequest]
      <3>1. p.at = "grant" /\ p.grant \in grants
        BY <1>1, <1>7, <2>2 DEF CheckGrant, Done, Goto
      <3>2. p.after = FALSE
        BY <1>1, <3>1 DEF RequestOK, ProviderInv, GrantsOK, Request
      <3>3. PICK at \in {"revoke", "consume"} : req' = [req EXCEPT ![r] = [p EXCEPT !.at = at]]
        BY <1>1, <1>7, <2>2 DEF CheckGrant, Goto, Done
      <3> DEFINE q == [p EXCEPT !.at = at]
      <3>4. q \in Request /\ RequestOK(q) /\ Becomes(p, q)
        BY <1>1, <3>1, <3>2 DEF Request, RequestOK, Becomes
      <3> HIDE DEF q
      <3>5. QED
        BY <1>4, <3>3, <3>4 DEF q
    <2>3. QED
      BY <2>1, <2>2
  <1>8. CASE Consume(r) \/ SaveRefresh(r) \/ Revoke(r)
    <2>1. p.at \in {"consume", "refresh", "revoke"}
      BY <1>1, <1>8 DEF Consume, SaveRefresh, Revoke
    <2>2. PICK at \in {"save", "access", "response", "end"} :
            /\ req' = [req EXCEPT ![r] = [p EXCEPT !.at = at]]
            /\ p.at = "revoke" => at = "end"
      BY <1>1, <1>8 DEF Consume, SaveRefresh, Revoke, Goto
    <2> DEFINE q == [p EXCEPT !.at = at]
    <2>3. q \in Request /\ RequestOK(q) /\ Becomes(p, q)
      BY <1>1, <2>1, <2>2 DEF Request, RequestOK, Becomes
    <2> HIDE DEF q
    <2>4. QED
      BY <1>4, <2>2, <2>3 DEF q
  <1>9. CASE SaveAccess(r)
    <2>1. PICK at \in {"refresh", "response"} :
            req' = [req EXCEPT ![r] = [p EXCEPT !.token = used + 1, !.at = at]]
      BY <1>1, <1>9 DEF SaveAccess, Goto
    <2>2. p.at \in {"save", "access"} /\ used + 1 \in Nat
      BY <1>1, <1>9, ProviderAssumption DEF SaveAccess, ProviderInv, RowsOK
    <2> DEFINE q == [p EXCEPT !.token = used + 1, !.at = at]
    <2>3. q \in Request /\ RequestOK(q) /\ Becomes(p, q)
      BY <1>1, <2>2, ZenonT(60) DEF Request, RequestOK, Becomes
    <2> HIDE DEF q
    <2>4. QED
      BY <1>4, <2>1, <2>3 DEF q
  <1>10. CASE Destroy(r)
    <2> DEFINE q == [p EXCEPT !.at = "revoke"]
    <2>1. q \in Request /\ RequestOK(q) /\ (p.at = "destroy" => Becomes(p, q))
      BY <1>1 DEF Request, RequestOK, Becomes
    <2>2. p.at = "destroy" /\ (req' = [req EXCEPT ![r] = NoRequest] \/ req' = [req EXCEPT ![r] = q])
      BY <1>1, <1>10 DEF Destroy, Goto, Done
    <2> HIDE DEF q
    <2>3. QED
      BY <1>3, <1>4, <2>1, <2>2
  <1>11. CASE Respond(r) \/ DestroyGrant(r) \/ Fail(r)
    BY <1>3, <1>11 DEF Respond, DestroyGrant, Fail, Done, Goto
  <1>12. QED
    BY <1>5, <1>6, <1>7, <1>8, <1>9, <1>10, <1>11 DEF ProviderStep

(* A row the adapter inserts. *)
LEMMA UpsertRows ==
  ASSUME ProviderInv, UNCHANGED <<granted, revoked>>, NEW w \in Row, Upsert(w),
         w.grant <= granted,
         (w.model \in {"access", "refresh"} /\ w.grant \in revoked) => w.late /\ ~w.after
  PROVE  RowsOK'
  <1>1. used + 1 \in Rows /\ used' \in 0..MaxRows
    BY ProviderAssumption DEF ProviderInv, RowsOK, Upsert, Rows
  <1>2. /\ row' \in [Rows -> Row]
        /\ \A i \in Rows : row'[i] = IF i = used + 1 THEN w ELSE row[i]
    BY <1>1 DEF ProviderInv, RowsOK, Upsert
  <1>3. \A i \in Rows : row'[i].grant <= granted
    BY <1>2 DEF ProviderInv, RowsOK
  <1>4. ReplayEndsGrant'
    BY <1>2 DEF ProviderInv, RowsOK, ReplayEndsGrant
  <1>5. QED
    BY <1>1, <1>2, <1>3, <1>4 DEF RowsOK

(* Rows that are only marked or emptied. *)
LEMMA FewerRows ==
  ASSUME ProviderInv, UNCHANGED <<granted, used>>, row' \in [Rows -> Row],
         \A i \in Rows : \/ row'[i] = NoRow
                         \/ /\ row'[i].grant = row[i].grant /\ row'[i].model = row[i].model
                            /\ row'[i].late = row[i].late /\ row'[i].after = row[i].after
                            /\ row[i].grant \in revoked' => row[i].grant \in revoked
  PROVE  RowsOK'
  <1>1. \A i \in Rows : row'[i].grant <= granted
    BY NoRequestOK DEF ProviderInv, RowsOK, GrantsOK
  <1>2. ReplayEndsGrant'
    BY NoRequestOK DEF ProviderInv, RowsOK, ReplayEndsGrant
  <1>3. QED
    BY <1>1, <1>2 DEF ProviderInv, RowsOK

(* What the steps on one request do to the rows. *)
LEMMA ProviderRows ==
  ASSUME ProviderInv, NEW r \in Requests, ProviderStep(r)
  PROVE  RowsOK'
  <1>1. PICK p \in Request : p = req[r] /\ RequestOK(p)
    BY DEF ProviderInv
  <1>2. row \in [Rows -> Row] /\ granted \in Nat
    BY DEF ProviderInv, RowsOK, GrantsOK
  <1>3. CASE UNCHANGED <<row, used, granted, revoked>>
    BY <1>3 DEF ProviderInv, RowsOK, ReplayEndsGrant
  <1>4. CASE Consume(r)
    <2>1. UNCHANGED <<used, granted, revoked>> /\ (row' = row \/ row' = ConsumeRow(p.row))
      BY <1>1, <1>4 DEF Consume, Goto
    <2>2. CASE row' = row
      BY <1>3, <2>1, <2>2
    <2>3. CASE row' = ConsumeRow(p.row)
      <3>1. \A i \in Rows : /\ row'[i] \in Row
                            /\ row'[i].grant = row[i].grant /\ row'[i].model = row[i].model
                            /\ row'[i].late = row[i].late /\ row'[i].after = row[i].after
        BY <1>2, <2>3 DEF ConsumeRow, Row
      <3>2. row' \in [Rows -> Row]
        BY <1>2, <2>3, <3>1 DEF ConsumeRow
      <3>3. QED
        BY <2>1, <3>1, <3>2, FewerRows
    <2>4. QED
      BY <2>1, <2>2, <2>3
  <1>5. CASE SaveAccess(r) \/ SaveRefresh(r)
    <2>1. PICK m \in {"access", "refresh"} : Upsert(Token(p, m))
      BY <1>1, <1>5 DEF SaveAccess, SaveRefresh
    <2>2. UNCHANGED <<granted, revoked>> /\ p.after = FALSE /\ p.grant <= granted
      BY <1>1, <1>5 DEF SaveAccess, SaveRefresh, RequestOK
    <2>3. PICK late \in BOOLEAN : late = (p.grant \in revoked)
      <3>1. (p.grant \in revoked) \in BOOLEAN
        OBVIOUS
      <3>2. QED
        BY <3>1
    <2> DEFINE w == [NoRow EXCEPT !.model = m, !.grant = p.grant, !.expires = MaxTime + 1,
                                  !.late = late, !.after = FALSE]
    <2>4. Token(p, m) = w
      BY <2>2, <2>3 DEF Token
    <2>5. w \in Row /\ w.grant = p.grant /\ w.late = late /\ w.after = FALSE
      <3>1. MaxTime + 1 \in Nat /\ p.grant \in Nat /\ NoRow \in Row
        BY ClientsAssumption, NoRequestOK DEF Request
      <3>2. QED
        BY <3>1 DEF Row
    <2> HIDE DEF w
    <2>6. QED
      BY <2>1, <2>2, <2>3, <2>4, <2>5, UpsertRows
  <1>6. CASE Destroy(r)
    BY <1>2, <1>6, NoRequestOK, FewerRows DEF Destroy, DestroyRow
  <1>7. CASE Revoke(r)
    <2>1. /\ row' = RevokeByGrantId(p.grant) /\ revoked' = revoked \union {p.grant}
          /\ UNCHANGED <<used, granted>>
      BY <1>1, <1>7 DEF Revoke
    <2>2. row' \in [Rows -> Row]
      BY <1>2, <2>1, NoRequestOK DEF RevokeByGrantId
    <2>3. \A i \in Rows : row'[i] = NoRow \/ (row'[i] = row[i] /\ row[i].grant # p.grant)
      BY <2>1 DEF RevokeByGrantId
    <2>4. QED
      BY <2>1, <2>2, <2>3, FewerRows
  <1>8. QED
    BY <1>3, <1>4, <1>5, <1>6, <1>7
    DEF ProviderStep, CheckSecret, FindRow, CheckGrant, Respond, DestroyGrant, Fail

(* A step on one request keeps the provider's invariant. *)
LEMMA ProviderStepInv ==
  ASSUME ProviderInv, NEW r \in Requests, ProviderStep(r)
  PROVE  ProviderInv'
  <1>1. PICK q \in Request : req' = [req EXCEPT ![r] = q] /\ RequestOK(q)
    BY ProviderMoves
  <1>2. /\ UNCHANGED <<psession, granted>> /\ granted \in Nat
        /\ \/ UNCHANGED <<grants, over>>
           \/ grants' = grants \ {req[r].grant} /\ over' = over \union {req[r].grant}
    BY DEF ProviderStep, CheckSecret, FindRow, CheckGrant, Consume, SaveAccess, SaveRefresh,
           Respond, Destroy, Revoke, DestroyGrant, Fail, ProviderInv, GrantsOK
  <1>3. req[r].grant \in 0..granted
    BY <1>2 DEF ProviderInv, RequestOK, Request
  <1>4. GrantsOK'
    BY <1>2, <1>3 DEF ProviderInv, GrantsOK
  <1>5. req' \in [Requests -> Request] /\ \A s \in Requests : req'[s] = IF s = r THEN q ELSE req[s]
    BY <1>1 DEF ProviderInv
  <1>6. \A s \in Requests : RequestOK(req[s])'
    <2> SUFFICES ASSUME NEW s \in Requests PROVE RequestOK(req[s])'
      OBVIOUS
    <2>1. PICK x \in Request : x = req'[s] /\ RequestOK(x)
      BY <1>1, <1>5 DEF ProviderInv
    <2>2. RequestOK(x)'
      BY <1>2, <2>1, RequestStaysOK
    <2>3. QED
      BY <2>1, <2>2 DEF RequestOK
  <1>7. QED
    BY <1>4, <1>5, <1>6, ProviderRows DEF ProviderInv

-----------------------------------------------------------------------------
(* The relying party. *)

LoginRow == [by : Browsers \union {None}, sent : BOOLEAN]

Cookies == [pending : [login : Nat, created : Nat],
            session : [login : Nat, expires : Nat, late : BOOLEAN]]

(* What a request carries for a browser is about a login of that browser;    *)
(* its callback knows of a logout that overtook it.                          *)
CallbackOK(q) ==
    /\ q.browser # None => \/ q.goal = "code"
                           \/ q.at = "reply" /\ q.reply \in {"pending", "clear"}
    /\ (q.browser # None /\ q.goal = "code") =>
          /\ q.verifier \in Logins /\ login[q.verifier].by = q.browser
          /\ q.verifier \in past => q.crossed = TRUE
    /\ q.at = "reply" => q.browser \in Browsers /\ q.reply \in {"pending", "session", "clear"}
    /\ (q.at = "reply" /\ q.reply = "session") => q.goal = "code" /\ q.login = q.verifier
    /\ (q.at = "reply" /\ q.reply = "pending") =>
          /\ q.login \in Logins
          /\ login[q.login].by = q.browser /\ login[q.login].sent = FALSE

Pending(q) == q.at = "reply" /\ q.reply = "pending"

(* The pending cookie of a login is sent once. *)
OnePending ==
    \A r, s \in Requests :
        (Pending(req[r]) /\ Pending(req[s]) /\ req[r].login = req[s].login) => r = s

(* A browser's cookies are about its own logins, and a pending cookie is one *)
(* that came after its last logout.                                          *)
JarOK ==
    \A b \in Browsers :
        /\ jar[b].pending.login # 0 =>
              /\ jar[b].pending.login \in Logins \ past
              /\ login[jar[b].pending.login].by = b
        /\ jar[b].session.login # 0 =>
              /\ jar[b].session.login \in Logins
              /\ login[jar[b].session.login].by = b
              /\ jar[b].session.login \in past => jar[b].session.late = TRUE

PastOK == \A l \in past : login[l].by # None /\ login[l].sent = TRUE

PartyInv ==
    /\ login \in [Logins -> LoginRow]
    /\ jar \in [Browsers -> Cookies]
    /\ past \subseteq Logins
    /\ \A r \in Requests : CallbackOK(req[r])
    /\ OnePending
    /\ JarOK
    /\ PastOK

(* No login, no cookie. *)
LEMMA PartyInitInv == ProviderInit /\ PartyInit => PartyInv
  <1> SUFFICES ASSUME ProviderInit, PartyInit PROVE PartyInv
    OBVIOUS
  <1>1. login \in [Logins -> LoginRow] /\ past = {}
    BY DEF PartyInit, LoginRow
  <1>2. jar \in [Browsers -> Cookies]
    BY DEF PartyInit, Cookies, NoPending, NoSession
  <1>3. \A b \in Browsers : jar[b].pending.login = 0 /\ jar[b].session.login = 0
    BY DEF PartyInit, NoPending, NoSession
  <1>4. \A r \in Requests : req[r] = NoRequest
    BY DEF ProviderInit
  <1>5. (\A r \in Requests : CallbackOK(req[r])) /\ OnePending
    BY <1>4, NoRequestOK DEF CallbackOK, OnePending, Pending
  <1>6. QED
    BY <1>1, <1>2, <1>3, <1>5 DEF PartyInv, JarOK, PastOK

(* One request changes and nothing else that the two invariants speak of. *)
LEMMA RequestMove ==
  ASSUME ProviderInv, PartyInv, NEW r \in Requests, NEW q \in Request,
         req' = [req EXCEPT ![r] = q], RequestOK(q), CallbackOK(q), ~Pending(q),
         UNCHANGED <<row, grants, psession, used, granted, revoked, over>>,
         UNCHANGED <<login, jar, past>>
  PROVE  ProviderInv' /\ PartyInv'
  <1>1. req' \in [Requests -> Request] /\ \A s \in Requests : req'[s] = IF s = r THEN q ELSE req[s]
    BY DEF ProviderInv
  <1>2. \A s \in Requests : RequestOK(req[s])' /\ CallbackOK(req[s])'
    BY <1>1 DEF RequestOK, CallbackOK, ProviderInv, PartyInv
  <1>3. GrantsOK' /\ RowsOK'
    BY DEF ProviderInv, GrantsOK, RowsOK, ReplayEndsGrant
  <1>4. OnePending'
    BY <1>1 DEF PartyInv, OnePending, Pending
  <1>5. JarOK' /\ PastOK'
    BY DEF PartyInv, JarOK, PastOK
  <1>6. QED
    BY <1>1, <1>2, <1>3, <1>4, <1>5 DEF ProviderInv, PartyInv

(* The provider's steps are for the relying party moves of a request that    *)
(* keep its browser, verifier and mark.                                      *)
LEMMA ProviderStepParty ==
  ASSUME ProviderInv, PartyInv, NEW r \in Requests, ProviderStep(r), UNCHANGED partyVars
  PROVE  PartyInv'
  <1>1. PICK q \in Request : req' = [req EXCEPT ![r] = q] /\ Becomes(req[r], q)
    BY ProviderMoves
  <1>2. CallbackOK(q) /\ ~Pending(q)
    <2>1. CASE q = NoRequest
      BY <2>1, NoRequestOK DEF CallbackOK, Pending
    <2>2. CASE q # NoRequest
      BY <1>1, <2>2 DEF Becomes, CallbackOK, Pending, PartyInv
    <2>3. QED
      BY <2>1, <2>2
  <1>3. login' = login /\ jar' = jar /\ past' = past
    BY DEF partyVars
  <1>4. \A s \in Requests : req'[s] = IF s = r THEN q ELSE req[s]
    BY <1>1 DEF ProviderInv
  <1>5. \A s \in Requests : CallbackOK(req[s])'
    BY <1>2, <1>3, <1>4 DEF CallbackOK, PartyInv
  <1>6. OnePending'
    BY <1>2, <1>4 DEF PartyInv, OnePending, Pending
  <1>7. JarOK' /\ PastOK'
    BY <1>3 DEF PartyInv, JarOK, PastOK
  <1>8. QED
    BY <1>3, <1>5, <1>6, <1>7 DEF PartyInv

(* A new request to the provider: its client was found, or is the one of the *)
(* environment.                                                              *)
LEMMA AskOpens ==
  ASSUME NEW r \in Requests, NEW q \in Request, Ask(r, q)
  PROVE  \E at \in {"find", "secrets"} : req' = [req EXCEPT ![r] = [q EXCEPT !.at = at]]
  BY DEF Ask, Open

(* Requests of a client through the SDK, and callbacks of browsers. *)
LEMMA AskSteps ==
  ASSUME ProviderInv, PartyInv, NEW r \in Requests,
         \/ /\ \E goal \in {"api", "refresh", "revoke"}, i \in 0..MaxRows,
                  c \in Clients, s \in Secrets \union {EnvSecret} : Present(r, goal, i, c, s)
            /\ UNCHANGED partyVars
         \/ \E b \in Browsers, i \in Rows : Callback(r, b, i)
  PROVE  ProviderInv' /\ PartyInv'
  <1>1. PICK q \in Request : /\ Ask(r, q)
                             /\ RequestOK(q) /\ q.after = FALSE
                             /\ q.browser = None \/
                                   /\ q.goal = "code" /\ q.browser \in Browsers
                                   /\ q.verifier \in Logins \ past
                                   /\ login[q.verifier].by = q.browser
    <2>1. granted \in Nat
      BY DEF ProviderInv, GrantsOK
    <2>2. CASE \E goal \in {"api", "refresh", "revoke"}, i \in 0..MaxRows,
                  c \in Clients, s \in Secrets \union {EnvSecret} : Present(r, goal, i, c, s)
      <3>1. PICK goal \in {"api", "refresh", "revoke"}, i \in 0..MaxRows,
                 c \in Clients, s \in Secrets \union {EnvSecret} : Present(r, goal, i, c, s)
        BY <2>2
      <3> DEFINE q == [NoRequest EXCEPT !.goal = goal, !.row = i, !.client = c, !.secret = s]
      <3>2. /\ q \in Request /\ q.goal = goal /\ q.row = i /\ q.grant = 0
            /\ q.at = "idle" /\ q.after = FALSE /\ q.browser = None
        <4>1. i \in Nat /\ s \in Secrets \union {None, EnvSecret} /\ c \in Clients \union {None}
          BY ProviderAssumption
        <4>2. q \in Request
          BY <4>1, NoRequestOK, ZenonT(60) DEF Request
        <4>3. QED
          BY <4>2, NoRequestOK DEF Request
      <3>3. Ask(r, q) /\ (goal # "api" => i \in Rows)
        BY <3>1 DEF Present
      <3> HIDE DEF q
      <3>4. QED
        BY <2>1, <3>2, <3>3 DEF RequestOK
    <2>3. CASE \E b \in Browsers, i \in Rows : Callback(r, b, i)
      <3>1. PICK b \in Browsers, i \in Rows : Callback(r, b, i)
        BY <2>3
      <3>2. PICK v \in Nat : v = jar[b].pending.login /\ v \in Logins \ past /\ login[v].by = b
        <4>1. jar[b].pending.login # 0
          BY <3>1 DEF Callback
        <4>2. QED
          BY <4>1 DEF PartyInv, JarOK, Logins
      <3> DEFINE q == [NoRequest EXCEPT !.goal = "code", !.row = i, !.client = AppClient,
                                !.secret = AppSecret, !.browser = b, !.verifier = v]
      <3>3. /\ q \in Request /\ q.goal = "code" /\ q.row = i /\ q.grant = 0
            /\ q.at = "idle" /\ q.after = FALSE /\ q.browser = b /\ q.verifier = v
        <4>1. i \in Nat /\ AppSecret \in Secrets \union {None, EnvSecret}
                /\ AppClient \in Clients \union {None}
          BY ClientsAssumption, ProviderAssumption DEF Rows
        <4>2. q \in Request
          BY <4>1, NoRequestOK, ZenonT(60) DEF Request
        <4>3. QED
          BY <4>2, NoRequestOK DEF Request
      <3>4. Ask(r, q)
        BY <3>1, <3>2 DEF Callback
      <3> HIDE DEF q
      <3>5. QED
        BY <2>1, <3>2, <3>3, <3>4 DEF RequestOK
    <2>4. QED
      BY <2>2, <2>3
  <1>2. PICK at \in {"find", "secrets"} : req' = [req EXCEPT ![r] = [q EXCEPT !.at = at]]
    BY <1>1, AskOpens
  <1> DEFINE x == [q EXCEPT !.at = at]
  <1>3. /\ x \in Request /\ x.at = at /\ x.goal = q.goal /\ x.row = q.row
        /\ x.grant = q.grant /\ x.after = q.after
        /\ x.browser = q.browser /\ x.verifier = q.verifier
    BY DEF Request
  <1>4. req' = [req EXCEPT ![r] = x]
    BY <1>2
  <1> HIDE DEF x
  <1>5. RequestOK(x) /\ CallbackOK(x) /\ ~Pending(x)
    BY <1>1, <1>3 DEF RequestOK, CallbackOK, Pending
  <1>6. /\ UNCHANGED <<row, grants, psession, used, granted, revoked, over>>
        /\ UNCHANGED <<login, jar, past>>
    BY DEF Present, Callback, partyVars
  <1>7. QED
    BY <1>3, <1>4, <1>5, <1>6, RequestMove

(* What /login and /logout answer with. *)
PendingOf(n, b, l, t) ==
    [n EXCEPT !.at = "reply", !.reply = "pending", !.browser = b, !.login = l, !.since = t]

(* The request that answers a login. *)
LEMMA PendingReply ==
  ASSUME NEW n \in Request, NEW b \in Browsers, NEW l \in Nat, NEW t \in Nat
  PROVE  /\ PendingOf(n, b, l, t) \in Request
         /\ PendingOf(n, b, l, t).at = "reply" /\ PendingOf(n, b, l, t).reply = "pending"
         /\ PendingOf(n, b, l, t).browser = b /\ PendingOf(n, b, l, t).login = l
         /\ PendingOf(n, b, l, t).goal = n.goal /\ PendingOf(n, b, l, t).grant = n.grant
  BY ZenonT(60) DEF PendingOf, Request

(* The request that answers a logout. *)
LEMMA ClearReply ==
  ASSUME NEW n \in Request, NEW b \in Browsers
  PROVE  LET q == [n EXCEPT !.at = "reply", !.reply = "clear", !.browser = b]
         IN  /\ q \in Request /\ q.at = "reply" /\ q.reply = "clear" /\ q.browser = b
             /\ q.goal = n.goal /\ q.grant = n.grant
  BY ZenonT(60) DEF Request

(* A login takes a new name, which no cookie and no request carries yet. *)
LEMMA LoginStep ==
  ASSUME ProviderInv, PartyInv, now \in Nat,
         NEW r \in Requests, NEW b \in Browsers, NEW l \in Logins, Login(r, b, l)
  PROVE  ProviderInv' /\ PartyInv'
  <1>1. l \in Nat /\ NoRequest \in Request /\ NoRequest.goal = "api" /\ NoRequest.grant = 0
    BY NoRequestOK DEF Logins
  <1>2. PICK x \in Request :
          /\ x = PendingOf(NoRequest, b, l, now)
          /\ x.at = "reply" /\ x.reply = "pending" /\ x.browser = b
          /\ x.login = l /\ x.goal = "api" /\ x.grant = 0
    BY <1>1, PendingReply
  <1>3. req' = [req EXCEPT ![r] = x]
    BY <1>2 DEF Login, Open, PendingOf
  <1>4. PICK q \in Request :
          /\ q.at = "reply" /\ q.reply = "pending" /\ q.browser = b
          /\ q.login = l /\ q.goal = "api" /\ q.grant = 0
          /\ req' = [req EXCEPT ![r] = q]
    BY <1>2, <1>3, Zenon
  <1>5. req' \in [Requests -> Request] /\ \A s \in Requests : req'[s] = IF s = r THEN q ELSE req[s]
    BY <1>4 DEF ProviderInv
  <1>6. /\ UNCHANGED <<row, grants, psession, used, granted, revoked, over, jar, past>>
        /\ login[l].by = None
    BY DEF Login
  <1>7. /\ login' \in [Logins -> LoginRow]
        /\ login'[l].by = b /\ login'[l].sent = FALSE
        /\ \A k \in Logins \ {l} : login'[k] = login[k]
    BY DEF Login, PartyInv, LoginRow
  <1>8. granted \in Nat
    BY DEF ProviderInv, GrantsOK
  <1>9. ProviderInv'
    <2>1. ASSUME NEW s \in Requests PROVE RequestOK(req[s])'
      <3>1. CASE s = r
        BY <1>4, <1>5, <1>6, <1>8, <3>1 DEF RequestOK
      <3>2. CASE s # r
        BY <1>5, <1>6, <3>2 DEF ProviderInv, RequestOK
      <3>3. QED
        BY <3>1, <3>2
    <2>2. QED
      BY <1>5, <1>6, <2>1 DEF ProviderInv, GrantsOK, RowsOK, ReplayEndsGrant
  <1>10. l \notin past /\ \A k \in past : login'[k] = login[k]
    BY <1>6, <1>7 DEF PartyInv, PastOK
  <1>11. \A k \in Logins : login[k].by \in Browsers => login'[k] = login[k]
    BY <1>6, <1>7, ProviderAssumption
  <1>12. \A s \in Requests : CallbackOK(req[s])'
    <2>1. CallbackOK(q)'
      BY <1>4, <1>6, <1>7, ProviderAssumption DEF CallbackOK
    <2>2. ASSUME NEW s \in Requests, s # r PROVE CallbackOK(req[s])'
      <3>1. req'[s] = req[s] /\ CallbackOK(req[s]) /\ req[s] \in Request
        BY <1>5, <2>2 DEF PartyInv, ProviderInv
      <3>2. req[s].browser # None => req[s].browser \in Browsers
        BY <3>1 DEF Request
      <3>3. QED
        BY <1>6, <1>11, <3>1, <3>2 DEF CallbackOK
    <2>3. QED
      BY <1>5, <2>1, <2>2 DEF CallbackOK
  <1>13. OnePending'
    <2>1. ASSUME NEW s \in Requests, Pending(req[s]) PROVE req[s].login # l
      <3>1. login[req[s].login].by \in Browsers
        BY <2>1 DEF PartyInv, CallbackOK, Pending
      <3>2. QED
        BY <1>6, <3>1, ProviderAssumption
    <2>2. QED
      BY <1>4, <1>5, <2>1 DEF PartyInv, OnePending, Pending
  <1>14. JarOK' /\ PastOK'
    BY <1>6, <1>10, <1>11 DEF PartyInv, JarOK, PastOK
  <1>15. QED
    BY <1>6, <1>7, <1>9, <1>12, <1>13, <1>14 DEF PartyInv

(* A logout is answered, a callback is, or the relying party gives up. *)
LEMMA AnswerSteps ==
  ASSUME ProviderInv, PartyInv, now \in Nat, NEW r \in Requests,
         (\E b \in Browsers : Logout(r, b)) \/ FinishCallback(r) \/ TimeOut(r)
  PROVE  ProviderInv' /\ PartyInv'
  <1>1. PICK p \in Request : p = req[r] /\ RequestOK(p) /\ CallbackOK(p)
    BY DEF ProviderInv, PartyInv
  <1>2. granted \in Nat
    BY DEF ProviderInv, GrantsOK
  <1>3. PICK q \in Request :
          req' = [req EXCEPT ![r] = q] /\ RequestOK(q) /\ CallbackOK(q) /\ ~Pending(q)
    <2>1. CASE \E b \in Browsers : Logout(r, b)
      <3>1. PICK b \in Browsers : Logout(r, b)
        BY <2>1
      <3>2. PICK n \in Request : n = NoRequest
        BY NoRequestOK
      <3> DEFINE q == [n EXCEPT !.at = "reply", !.reply = "clear", !.browser = b]
      <3>3. q \in Request
        BY ClearReply
      <3>4. /\ q.at = "reply" /\ q.reply = "clear" /\ q.browser = b /\ q.goal = "api"
            /\ q.grant = 0
        <4>1. n.goal = "api" /\ n.grant = 0
          BY <3>2, NoRequestOK
        <4>2. QED
          BY <4>1, ClearReply
      <3>5. req' = [req EXCEPT ![r] = q]
        BY <3>1, <3>2 DEF Logout, Open
      <3> HIDE DEF q
      <3>6. RequestOK(q) /\ CallbackOK(q) /\ ~Pending(q)
        BY <1>2, <3>4 DEF RequestOK, CallbackOK, Pending
      <3>7. QED
        BY <3>3, <3>5, <3>6
    <2>2. CASE FinishCallback(r) /\ req' = [req EXCEPT ![r] = NoRequest]
      <3>1. RequestOK(NoRequest) /\ CallbackOK(NoRequest) /\ ~Pending(NoRequest)
        BY <1>2, NoRequestOK DEF RequestOK, CallbackOK, Pending
      <3>2. QED
        BY <2>2, <3>1, NoRequestOK
    <2>3. CASE FinishCallback(r) /\ req' # [req EXCEPT ![r] = NoRequest]
      <3> DEFINE q == [p EXCEPT !.at = "reply", !.reply = "session", !.since = now]
      <3>1. q \in Request
        BY DEF Request
      <3>2. /\ q.at = "reply" /\ q.reply = "session" /\ q.browser = p.browser
            /\ q.goal = p.goal /\ q.grant = p.grant /\ q.row = p.row /\ q.login = p.login
            /\ q.verifier = p.verifier /\ q.crossed = p.crossed
        BY DEF Request
      <3>3. /\ req' = [req EXCEPT ![r] = q]
            /\ p.at = "response" /\ p.browser # None /\ p.login = p.verifier
        BY <1>1, <2>3 DEF FinishCallback, Goto, Done
      <3> HIDE DEF q
      <3>4. RequestOK(q) /\ CallbackOK(q) /\ ~Pending(q)
        BY <1>1, <3>2, <3>3 DEF RequestOK, CallbackOK, Pending, Request
      <3>5. QED
        BY <3>1, <3>3, <3>4
    <2>4. CASE TimeOut(r)
      <3> DEFINE q == [p EXCEPT !.browser = None]
      <3>1. q \in Request
        BY DEF Request
      <3>2. /\ q.at = p.at /\ q.reply = p.reply /\ q.browser = None /\ q.after = p.after
            /\ q.goal = p.goal /\ q.grant = p.grant /\ q.row = p.row /\ q.login = p.login
        BY DEF Request
      <3>3. req' = [req EXCEPT ![r] = q] /\ p.at # "reply"
        BY <1>1, <2>4 DEF TimeOut, Goto
      <3> HIDE DEF q
      <3>4. RequestOK(q) /\ CallbackOK(q) /\ ~Pending(q)
        BY <1>1, <3>2, <3>3 DEF RequestOK, CallbackOK, Pending
      <3>5. QED
        BY <3>1, <3>3, <3>4
    <2>5. QED
      BY <2>1, <2>2, <2>3, <2>4
  <1>4. /\ UNCHANGED <<row, grants, psession, used, granted, revoked, over>>
        /\ UNCHANGED <<login, jar, past>>
    BY DEF Logout, FinishCallback, TimeOut, partyVars
  <1>5. QED
    BY <1>3, <1>4, RequestMove

(* A code for any login, a grant, and the end of a provider's session. *)
LEMMA AuthorizeSteps ==
  ASSUME ProviderInv, PartyInv, now \in Nat, UNCHANGED partyVars,
         NEW b \in Browsers,
         Consent(b) \/ EndSession(b) \/ \E l \in Logins : IssueCode(b, l)
  PROVE  ProviderInv' /\ PartyInv'
  <1>1. req' = req /\ login' = login /\ jar' = jar /\ past' = past
    BY DEF Consent, EndSession, IssueCode, partyVars
  <1>2. PartyInv'
    BY <1>1 DEF PartyInv, CallbackOK, OnePending, Pending, JarOK, PastOK
  <1>3. UNCHANGED <<revoked, over>> /\ granted \in Nat
    BY DEF Consent, EndSession, IssueCode, ProviderInv, GrantsOK
  <1>4. CASE Consent(b)
    <2>1. granted' = granted + 1 /\ grants' = grants \union {granted + 1} /\ UNCHANGED <<row, used>>
            /\ psession' = [psession EXCEPT ![b] = granted + 1]
      BY <1>4 DEF Consent
    <2>2. GrantsOK'
      BY <1>3, <2>1 DEF ProviderInv, GrantsOK
    <2>3. RowsOK'
      BY <1>3, <2>1 DEF ProviderInv, RowsOK, ReplayEndsGrant, Row
    <2>4. \A r \in Requests : RequestOK(req[r])'
      BY <1>1, <1>3, <2>1, RequestStaysOK DEF ProviderInv, RequestOK, Request
    <2>5. QED
      BY <1>1, <1>2, <2>2, <2>3, <2>4 DEF ProviderInv
  <1>5. CASE EndSession(b)
    <2>1. psession' \in [Browsers -> 0..granted] /\ UNCHANGED <<row, used, grants, granted>>
      BY <1>3, <1>5 DEF EndSession, ProviderInv, GrantsOK
    <2>2. GrantsOK' /\ RowsOK'
      BY <1>3, <2>1 DEF ProviderInv, GrantsOK, RowsOK, ReplayEndsGrant
    <2>3. \A r \in Requests : RequestOK(req[r])'
      BY <1>1, <1>3, <2>1 DEF ProviderInv, RequestOK
    <2>4. QED
      BY <1>1, <1>2, <2>2, <2>3 DEF ProviderInv
  <1>6. CASE \E l \in Logins : IssueCode(b, l)
    <2>1. PICK l \in Logins : IssueCode(b, l)
      BY <1>6
    <2>2. UNCHANGED <<grants, psession, granted>> /\ psession[b] \in 0..granted
      BY <2>1 DEF IssueCode, ProviderInv, GrantsOK
    <2> DEFINE w == [NoRow EXCEPT !.model = "code", !.grant = psession[b], !.login = l,
                                  !.expires = now + CodeTtl]
    <2>3. w \in Row /\ w.grant = psession[b] /\ w.model = "code"
      <3>1. now + CodeTtl \in Nat /\ psession[b] \in Nat /\ l \in Nat /\ NoRow \in Row
        BY <1>3, <2>2, ProviderAssumption, NoRequestOK DEF Logins
      <3>2. QED
        BY <3>1 DEF Row
    <2>4. Upsert(w)
      BY <2>1 DEF IssueCode
    <2> HIDE DEF w
    <2>5. RowsOK'
      BY <1>3, <2>2, <2>3, <2>4, UpsertRows
    <2>6. GrantsOK' /\ \A r \in Requests : RequestOK(req[r])'
      BY <1>1, <1>3, <2>2 DEF ProviderInv, GrantsOK, RequestOK
    <2>7. QED
      BY <1>1, <1>2, <2>5, <2>6 DEF ProviderInv
  <1>7. QED
    BY <1>4, <1>5, <1>6

(* A response reaches its browser: what it leaves in the requests, in the    *)
(* slot and, for a logout, the mark of the callbacks it has overtaken.       *)
LEMMA DeliverRequests ==
  ASSUME ProviderInv, NEW r \in Requests, Deliver(r)
  PROVE  /\ req' \in [Requests -> Request]
         /\ req'[r] = NoRequest
         /\ \A s \in Requests \ {r} :
               /\ req'[s].at = req[s].at /\ req'[s].goal = req[s].goal
               /\ req'[s].row = req[s].row /\ req'[s].grant = req[s].grant
               /\ req'[s].login = req[s].login /\ req'[s].after = req[s].after
               /\ req'[s].browser = req[s].browser /\ req'[s].reply = req[s].reply
               /\ req'[s].verifier = req[s].verifier
               /\ req[s].crossed = TRUE => req'[s].crossed = TRUE
               /\ (req[r].reply = "clear" /\ req[s].browser = req[r].browser
                     /\ req[s].goal = "code") => req'[s].crossed = TRUE
  <1> DEFINE Marked(s) == req[r].reply = "clear" /\ req[s].browser = req[r].browser
                            /\ req[s].goal = "code"
  <1> DEFINE F(s) == IF s = r THEN NoRequest
                     ELSE IF Marked(s) THEN [req[s] EXCEPT !.crossed = TRUE]
                     ELSE req[s]
  <1>1. /\ req'[r] = NoRequest
        /\ \A s \in Requests \ {r} :
              req'[s] = IF Marked(s) THEN [req[s] EXCEPT !.crossed = TRUE] ELSE req[s]
        /\ req' = [s \in Requests |-> F(s)]
    <2>1. req' = [s \in Requests |-> F(s)]
      BY DEF Deliver
    <2>2. F(r) = NoRequest
      OBVIOUS
    <2>3. \A s \in Requests \ {r} :
             F(s) = IF Marked(s) THEN [req[s] EXCEPT !.crossed = TRUE] ELSE req[s]
      OBVIOUS
    <2> HIDE DEF F
    <2>4. QED
      BY <2>1, <2>2, <2>3
  <1> HIDE DEF F
  <1>2. ASSUME NEW s \in Requests \ {r}
        PROVE  /\ req'[s] \in Request
               /\ req'[s].at = req[s].at /\ req'[s].goal = req[s].goal
               /\ req'[s].row = req[s].row /\ req'[s].grant = req[s].grant
               /\ req'[s].login = req[s].login /\ req'[s].after = req[s].after
               /\ req'[s].browser = req[s].browser /\ req'[s].reply = req[s].reply
               /\ req'[s].verifier = req[s].verifier
               /\ req[s].crossed = TRUE => req'[s].crossed = TRUE
               /\ Marked(s) => req'[s].crossed = TRUE
    <2>1. PICK p \in Request : p = req[s]
      BY DEF ProviderInv
    <2>2. CASE Marked(s)
      <3> DEFINE x == [p EXCEPT !.crossed = TRUE]
      <3>1. /\ x \in Request /\ x.at = p.at /\ x.goal = p.goal /\ x.row = p.row
            /\ x.grant = p.grant /\ x.login = p.login /\ x.after = p.after
            /\ x.browser = p.browser /\ x.reply = p.reply /\ x.verifier = p.verifier
            /\ x.crossed = TRUE
        BY DEF Request
      <3>2. req'[s] = x
        BY <1>1, <2>1, <2>2
      <3> HIDE DEF x
      <3>3. QED
        BY <2>1, <3>1, <3>2
    <2>3. CASE ~Marked(s)
      BY <1>1, <2>1, <2>3
    <2>4. QED
      BY <2>2, <2>3
  <1>3. \A s \in Requests : req'[s] \in Request
    BY <1>1, <1>2, NoRequestOK
  <1>4. req' \in [Requests -> Request]
    BY <1>1, <1>3
  <1>5. QED
    BY <1>1, <1>2, <1>4

(* The rows and grants do not notice a delivery. *)
LEMMA DeliverProvider ==
  ASSUME ProviderInv, NEW r \in Requests, Deliver(r)
  PROVE  ProviderInv'
  <1>1. UNCHANGED <<row, grants, psession, used, granted, revoked, over>> /\ granted \in Nat
    BY DEF Deliver, ProviderInv, GrantsOK
  <1>2. ASSUME NEW s \in Requests PROVE RequestOK(req[s])'
    <2>1. CASE s = r
      <3>1. req'[r] = NoRequest
        BY DeliverRequests
      <3>2. QED
        BY <1>1, <2>1, <3>1, NoRequestOK DEF RequestOK
    <2>2. CASE s # r
      <3>1. /\ req'[s].at = req[s].at /\ req'[s].goal = req[s].goal
            /\ req'[s].row = req[s].row /\ req'[s].grant = req[s].grant
            /\ req'[s].after = req[s].after
        BY <2>2, DeliverRequests
      <3>2. QED
        BY <1>1, <3>1 DEF RequestOK, ProviderInv
    <2>3. QED
      BY <2>1, <2>2
  <1>3. GrantsOK' /\ RowsOK'
    BY <1>1 DEF ProviderInv, GrantsOK, RowsOK, ReplayEndsGrant
  <1>4. QED
    BY <1>2, <1>3, DeliverRequests DEF ProviderInv

(* What a delivery leaves in the cookies of the browser. *)
LEMMA SetCookiesOK ==
  ASSUME NEW q \in Request, NEW j \in Cookies
  PROVE  /\ q.reply = "pending" =>
              /\ SetCookies(q, j) \in Cookies
              /\ SetCookies(q, j).pending.login = q.login
              /\ SetCookies(q, j).session = j.session
         /\ q.reply = "session" =>
              /\ SetCookies(q, j) \in Cookies
              /\ SetCookies(q, j).pending.login = 0
              /\ SetCookies(q, j).session.login = q.login
              /\ SetCookies(q, j).session.late = q.crossed
         /\ q.reply = "clear" =>
              /\ SetCookies(q, j) \in Cookies
              /\ SetCookies(q, j).pending.login = 0
              /\ SetCookies(q, j).session.login = 0
  <1>1. /\ q.login \in Nat /\ q.since \in Nat /\ q.crossed \in BOOLEAN
        /\ q.since + SessionTtl \in Nat
    BY PartyAssumption DEF Request
  <1>2. CASE q.reply = "pending"
    BY <1>1, <1>2 DEF SetCookies, Cookies
  <1>3. CASE q.reply = "session"
    BY <1>1, <1>3 DEF SetCookies, Cookies, NoPending
  <1>4. CASE q.reply = "clear"
    BY <1>4 DEF SetCookies, ClearCookies, Cookies, NoPending, NoSession
  <1>5. QED
    BY <1>2, <1>3, <1>4

(* A delivery keeps the cookies about the browser's own logins, and a logout *)
(* leaves neither a cookie nor an unmarked callback of an earlier login.     *)
LEMMA DeliverParty ==
  ASSUME ProviderInv, PartyInv, NEW r \in Requests, Deliver(r)
  PROVE  PartyInv'
  <1>1. PICK p \in Request : p = req[r] /\ CallbackOK(p) /\ p.at = "reply"
    BY DEF ProviderInv, PartyInv, Deliver
  <1>2. PICK b \in Browsers : b = p.browser
    BY <1>1 DEF CallbackOK
  <1>3. /\ p.reply \in {"pending", "session", "clear"}
        /\ p.login \in Nat /\ p.crossed \in BOOLEAN
        /\ p.reply = "session" => /\ p.login \in Logins /\ login[p.login].by = b
                                  /\ p.login \in past => p.crossed = TRUE
        /\ p.reply = "pending" => /\ p.login \in Logins /\ login[p.login].by = b
                                  /\ login[p.login].sent = FALSE
    BY <1>1, <1>2, ProviderAssumption DEF CallbackOK, Request
  <1>4. jar[b] \in Cookies
    BY DEF PartyInv
  <1>5. PICK new \in Cookies :
          /\ new = SetCookies(p, jar[b])
          /\ p.reply = "pending" => new.pending.login = p.login /\ new.session = jar[b].session
          /\ p.reply = "session" => /\ new.pending.login = 0 /\ new.session.login = p.login
                                    /\ new.session.late = p.crossed
          /\ p.reply = "clear" => new.pending.login = 0 /\ new.session.login = 0
    BY <1>3, <1>4, SetCookiesOK
  <1>6. /\ jar' \in [Browsers -> Cookies]
        /\ jar'[b] = new /\ \A c \in Browsers \ {b} : jar'[c] = jar[c]
    BY <1>1, <1>2, <1>5 DEF Deliver, PartyInv
  <1>7. /\ login' \in [Logins -> LoginRow]
        /\ \A l \in Logins : login'[l].by = login[l].by
        /\ \A l \in Logins : login[l].sent = TRUE => login'[l].sent = TRUE
        /\ \A l \in Logins : (p.reply # "pending" \/ l # p.login) => login'[l] = login[l]
    <2>1. CASE p.reply # "pending"
      BY <1>1, <2>1 DEF Deliver, PartyInv
    <2>2. CASE p.reply = "pending"
      <3>1. PICK a \in LoginRow : a = login[p.login]
        BY <1>3, <2>2 DEF PartyInv
      <3>2. /\ [a EXCEPT !.sent = TRUE] \in LoginRow
            /\ [a EXCEPT !.sent = TRUE].by = a.by /\ [a EXCEPT !.sent = TRUE].sent = TRUE
        BY DEF LoginRow
      <3>3. login' = [login EXCEPT ![p.login] = [a EXCEPT !.sent = TRUE]]
        BY <1>1, <2>2, <3>1 DEF Deliver
      <3>4. QED
        BY <1>3, <2>2, <3>1, <3>2, <3>3 DEF PartyInv
    <2>3. QED
      BY <2>1, <2>2
  <1>8. past' = IF p.reply = "clear"
                THEN past \union {l \in Logins : login[l].by = b /\ login[l].sent} ELSE past
    BY <1>1, <1>2 DEF Deliver
  <1>9. /\ past' \subseteq Logins /\ past \subseteq past'
        /\ \A l \in past' \ past : /\ p.reply = "clear"
                                   /\ login[l].by = b /\ login[l].sent = TRUE
    BY <1>8 DEF PartyInv, LoginRow
  <1>10. PastOK'
    BY <1>7, <1>9, ProviderAssumption DEF PartyInv, PastOK
  <1>11. JarOK'
    <2> SUFFICES ASSUME NEW c \in Browsers
                 PROVE  /\ jar'[c].pending.login # 0 =>
                             /\ jar'[c].pending.login \in Logins \ past'
                             /\ login'[jar'[c].pending.login].by = c
                        /\ jar'[c].session.login # 0 =>
                             /\ jar'[c].session.login \in Logins
                             /\ login'[jar'[c].session.login].by = c
                             /\ jar'[c].session.login \in past' => jar'[c].session.late = TRUE
      BY DEF JarOK
    <2>1. CASE c # b
      BY <1>6, <1>7, <1>9, <2>1 DEF PartyInv, JarOK
    <2>2. CASE c = b /\ p.reply = "clear"
      BY <1>5, <1>6, <2>2
    <2>3. CASE c = b /\ p.reply = "session"
      BY <1>3, <1>5, <1>6, <1>7, <1>9, <2>3
    <2>4. CASE c = b /\ p.reply = "pending"
      <3>1. p.login \notin past
        BY <1>3, <2>4 DEF PartyInv, PastOK
      <3>2. QED
        BY <1>3, <1>5, <1>6, <1>7, <1>9, <2>4, <3>1 DEF PartyInv, JarOK
    <2>5. QED
      BY <1>3, <2>1, <2>2, <2>3, <2>4
  <1>12. OnePending'
    <2>1. \A s \in Requests : Pending(req[s])' =>
             s # r /\ Pending(req[s]) /\ req'[s].login = req[s].login
      BY DeliverRequests, NoRequestOK DEF Pending
    <2>2. QED
      BY <2>1 DEF PartyInv, OnePending
  <1>13. ASSUME NEW s \in Requests PROVE CallbackOK(req[s])'
    <2>1. CASE s = r
      <3>1. req'[s] = NoRequest
        BY <2>1, DeliverRequests
      <3>2. QED
        BY <3>1, NoRequestOK DEF CallbackOK
    <2>2. CASE s # r
      <3>1. /\ req'[s].at = req[s].at /\ req'[s].goal = req[s].goal
            /\ req'[s].login = req[s].login /\ req'[s].browser = req[s].browser
            /\ req'[s].reply = req[s].reply /\ req'[s].verifier = req[s].verifier
            /\ req[s].crossed = TRUE => req'[s].crossed = TRUE
            /\ (p.reply = "clear" /\ req[s].browser = b /\ req[s].goal = "code")
                  => req'[s].crossed = TRUE
        BY <1>1, <1>2, <2>2, DeliverRequests
      <3>2. CallbackOK(req[s])
        BY DEF PartyInv
      <3>3. ASSUME req[s].browser # None, req[s].goal = "code"
            PROVE  /\ req[s].verifier \in Logins /\ login'[req[s].verifier].by = req[s].browser
                   /\ req[s].verifier \in past' => req'[s].crossed = TRUE
        BY <1>7, <1>9, <3>1, <3>2, <3>3 DEF CallbackOK
      <3>4. ASSUME Pending(req[s])
            PROVE  /\ req[s].login \in Logins
                   /\ login'[req[s].login].by = req[s].browser
                   /\ login'[req[s].login].sent = FALSE
        <4>1. /\ req[s].login \in Logins
              /\ login[req[s].login].by = req[s].browser
              /\ login[req[s].login].sent = FALSE
          BY <3>2, <3>4 DEF CallbackOK, Pending
        <4>2. p.reply = "pending" => req[s].login # p.login
          BY <1>1, <2>2, <3>4 DEF PartyInv, OnePending, Pending
        <4>3. QED
          BY <1>7, <4>1, <4>2
      <3>5. QED
        BY <3>1, <3>2, <3>3, <3>4 DEF CallbackOK, Pending
    <2>3. QED
      BY <2>1, <2>2
  <1>14. QED
    BY <1>6, <1>7, <1>9, <1>10, <1>11, <1>12, <1>13 DEF PartyInv

-----------------------------------------------------------------------------
(* The composition. *)

IInv == ClientsInv /\ ProviderInv /\ PartyInv

(* What neither the provider nor the relying party does leaves their part of *)
(* the invariant alone.                                                      *)
LEMMA ElsewhereKept ==
  ASSUME ProviderInv, PartyInv, UNCHANGED <<providerVars, partyVars>>
  PROVE  ProviderInv' /\ PartyInv'
  <1>1. UNCHANGED <<row, grants, psession, used, granted, req, revoked, over>>
    BY DEF providerVars
  <1>2. UNCHANGED <<login, jar, past>>
    BY DEF partyVars
  <1>3. ProviderInv'
    BY <1>1 DEF ProviderInv, RequestOK, GrantsOK, RowsOK, ReplayEndsGrant
  <1>4. PartyInv'
    BY <1>1, <1>2 DEF PartyInv, CallbackOK, OnePending, Pending, JarOK, PastOK
  <1>5. QED
    BY <1>3, <1>4

(* The three parts hold at the start. *)
LEMMA InitInv == Init => IInv
  BY ClientsInitInv, ProviderInitInv, PartyInitInv DEF Init, IInv

(* Every step of the system keeps them. *)
LEMMA NextInv == IInv /\ [Next]_vars => IInv'
  <1> SUFFICES ASSUME IInv, [Next]_vars PROVE IInv'
    OBVIOUS
  <1>1. ClientsInv'
    BY ClientsKept DEF IInv
  <1>2. ProviderInv /\ PartyInv /\ now \in Nat
    BY DEF IInv, ClientsInv
  <1>3. CASE UNCHANGED <<providerVars, partyVars>>
    BY <1>1, <1>2, <1>3, ElsewhereKept DEF IInv
  <1>4. CASE ProviderNext /\ UNCHANGED partyVars
    <2>1. CASE \E b \in Browsers : Consent(b) \/ EndSession(b)
      <3>1. PICK b \in Browsers : Consent(b) \/ EndSession(b)
        BY <2>1
      <3>2. ProviderInv' /\ PartyInv'
        BY <1>2, <1>4, <3>1, AuthorizeSteps
      <3>3. QED
        BY <1>1, <3>2 DEF IInv
    <2>2. CASE \E r \in Requests, goal \in {"api", "refresh", "revoke"}, i \in 0..MaxRows,
                  c \in Clients, s \in Secrets \union {EnvSecret} : Present(r, goal, i, c, s)
      <3>1. PICK r \in Requests :
              \E goal \in {"api", "refresh", "revoke"}, i \in 0..MaxRows,
                 c \in Clients, s \in Secrets \union {EnvSecret} : Present(r, goal, i, c, s)
        BY <2>2
      <3>2. ProviderInv' /\ PartyInv'
        BY <1>2, <1>4, <3>1, AskSteps
      <3>3. QED
        BY <1>1, <3>2 DEF IInv
    <2>3. CASE \E r \in Requests : ProviderStep(r)
      <3>1. PICK r \in Requests : ProviderStep(r)
        BY <2>3
      <3>2. ProviderInv' /\ PartyInv'
        BY <1>2, <1>4, <3>1, ProviderStepInv, ProviderStepParty
      <3>3. QED
        BY <1>1, <3>2 DEF IInv
    <2>4. QED
      BY <1>4, <2>1, <2>2, <2>3 DEF ProviderNext, ProviderStep
  <1>5. CASE PartyNext
    <2>1. CASE \E b \in Browsers, l \in Logins : Authorize(b, l)
      <3>1. PICK b \in Browsers, l \in Logins : Authorize(b, l)
        BY <2>1
      <3>2. IssueCode(b, l) /\ UNCHANGED partyVars
        BY <3>1 DEF Authorize
      <3>3. ProviderInv' /\ PartyInv'
        BY <1>2, <3>2, AuthorizeSteps
      <3>4. QED
        BY <1>1, <3>3 DEF IInv
    <2>2. CASE \E r \in Requests, b \in Browsers, l \in Logins : Login(r, b, l)
      BY <1>1, <1>2, <2>2, LoginStep DEF IInv
    <2>3. CASE \E r \in Requests, b \in Browsers, i \in Rows : Callback(r, b, i)
      <3>1. PICK r \in Requests : \E b \in Browsers, i \in Rows : Callback(r, b, i)
        BY <2>3
      <3>2. ProviderInv' /\ PartyInv'
        BY <1>2, <3>1, AskSteps
      <3>3. QED
        BY <1>1, <3>2 DEF IInv
    <2>4. CASE \E r \in Requests : (\E b \in Browsers : Logout(r, b))
                                     \/ FinishCallback(r) \/ TimeOut(r)
      <3>1. PICK r \in Requests : (\E b \in Browsers : Logout(r, b))
                                     \/ FinishCallback(r) \/ TimeOut(r)
        BY <2>4
      <3>2. ProviderInv' /\ PartyInv'
        BY <1>2, <3>1, AnswerSteps
      <3>3. QED
        BY <1>1, <3>2 DEF IInv
    <2>5. CASE \E r \in Requests : Deliver(r)
      BY <1>1, <1>2, <2>5, DeliverProvider, DeliverParty DEF IInv
    <2>6. QED
      BY <1>5, <2>1, <2>2, <2>3, <2>4, <2>5 DEF PartyNext
  <1>6. QED
    BY <1>3, <1>4, <1>5 DEF Next, Tick, vars

(* The inductive invariant of the registry, the provider and the relying     *)
(* party together.                                                           *)
THEOREM Invariance == Spec => []IInv
  BY InitInv, NextInv, PTL DEF Spec

(* A code or a refresh token that was used before ends its grant: whatever   *)
(* token of that grant is still there was saved after the rows were deleted, *)
(* by a request that had found its code or token before the grant was over,  *)
(* for any number of requests in flight.                                     *)
THEOREM ReplayIsFinal == Spec => []ReplayEndsGrant
  <1>1. IInv => ReplayEndsGrant
    BY DEF IInv, ProviderInv, RowsOK
  <1>2. QED
    BY <1>1, Invariance, PTL

(* A browser is logged in only by a login it has begun itself, and by one    *)
(* whose cookie it had before a logout only if its callback was under way    *)
(* then, in whatever order responses arrive.                                 *)
THEOREM SessionsAreOwn == Spec => []SessionFromOwnLogin
  <1>1. IInv => SessionFromOwnLogin
    BY DEF IInv, PartyInv, JarOK, SessionFromOwnLogin, LoggedIn
  <1>2. QED
    BY <1>1, Invariance, PTL

=============================================================================
