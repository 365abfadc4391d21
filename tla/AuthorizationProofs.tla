------------------------ MODULE AuthorizationProofs ------------------------
(***************************************************************************)
(* Proofs about module Authorization: for any users, permissions, times to *)
(* live and number of handlers, a wrong decision outlives the moment it    *)
(* became wrong by no more than its own time to live, and no administrator *)
(* acts without a permission.                                              *)
(***************************************************************************)
EXTENDS Authorization, TLAPS

-----------------------------------------------------------------------------
(* The inductive invariant. *)

(* What a handler carries at each of its steps. *)
RequestOK(q) ==
    /\ q.at # "idle" => q.user \in Users
    /\ q.goal = "other" => q.subject \in Users
    /\ Administering(q) => /\ q.q \in {"config", "export", "manage"}
                           /\ q.at \in {"idle", "ask", "group", "set", "act"}
    /\ q.at = "act" => Administering(q)
    /\ q.at = "ask" => q.scope = 1
    /\ q.at = "group" => q.q \in PermissionQuestions
    /\ q.at = "entitlement" => q.q \in EntitlementQuestions /\ q.scope <= Len(ScopesOf(q.q))

(* Unless the rows changed while they were read, what was read is what the   *)
(* tables say now.                                                           *)
FreshOK(q) ==
    /\ (q.at = "group" /\ q.crossed = FALSE) => q.found = direct[q.user]
    /\ (q.at = "entitlement" /\ q.crossed = FALSE) =>
          /\ Decision(direct, grouped, entitled, q.asOf, q.user, q.q) = Due(q.user, q.q)
          /\ \A j \in 1..(q.scope - 1) :
                ~Active(entitled[q.user][ScopesOf(q.q)[j]], q.asOf)
    /\ (q.at = "set" /\ q.crossed = FALSE) => q.answer = Due(q.user, q.q)

(* A permission of an administrator that is due, or was found, is remembered. *)
BackedOK(q) ==
    Administering(q) =>
        /\ (q.at \in {"ask", "group", "set"} /\ Due(q.user, q.q)) => q.held = TRUE
        /\ (q.at = "group" /\ q.found \intersect Covers[q.q] # {}) => q.held = TRUE
        /\ (q.at = "set" /\ q.answer = TRUE) => q.held = TRUE
        /\ q.at = "act" => q.held = TRUE \/ q.excused = TRUE

HandlersOK == \A r \in Requests : RequestOK(req[r]) /\ FreshOK(req[r]) /\ BackedOK(req[r])

(* No decision was cached for longer than its time to live. *)
TtlKept == \A u \in Users, k \in CacheKeys : cache[u][k].expires <= now + Ttl(k, cache[u][k].allowed)

IInv == TypeOK /\ HandlersOK /\ TtlKept /\ StaleAnswersExpire

-----------------------------------------------------------------------------
(* Decisions. *)

(* A decision is a yes or a no. *)
LEMMA DecisionBoolean ==
  ASSUME NEW d, NEW g, NEW e, NEW t, NEW u, NEW q
  PROVE  Decision(d, g, e, t, u, q) \in BOOLEAN
  BY DEF Decision

(* On a permission it is what the two queries find together. *)
LEMMA PermissionDecision ==
  ASSUME NEW u, NEW q \in PermissionQuestions
  PROVE  Due(u, q) = ((direct[u] \union grouped[u]) \intersect Covers[q] # {})
  BY DEF Due, Decision

(* The scopes of an entitlement question. *)
LEMMA ScopesLength ==
  ASSUME NEW q
  PROVE  /\ Len(ScopesOf(q)) \in {2, 3}
         /\ DOMAIN ScopesOf(q) = 1..Len(ScopesOf(q))
  <1>1. CASE q = "seats"
    BY <1>1 DEF ScopesOf
  <1>2. CASE q # "seats"
    BY <1>2 DEF ScopesOf
  <1>3. QED
    BY <1>1, <1>2

(* On an entitlement the first active row decides. *)
LEMMA FirstActiveDecides ==
  ASSUME NEW d, NEW g, NEW e, NEW t, NEW u, NEW q \in EntitlementQuestions,
         NEW i \in 1..Len(ScopesOf(q)),
         \A j \in 1..(i - 1) : ~Active(e[u][ScopesOf(q)[j]], t),
         Active(e[u][ScopesOf(q)[i]], t)
  PROVE  Decision(d, g, e, t, u, q) = Grants(e[u][ScopesOf(q)[i]], q)
  <1> DEFINE n == Len(ScopesOf(q))
             A(j) == Active(e[u][ScopesOf(q)[j]], t)
             G(j) == Grants(e[u][ScopesOf(q)[j]], q)
  <1>1. Decision(d, g, e, t, u, q) = \E k \in 1..n : A(k) /\ (\A j \in 1..(k - 1) : ~A(j)) /\ G(k)
    BY ScopesLength DEF Decision, EntitlementQuestions, PermissionQuestions
  <1>2. n \in {2, 3} /\ i \in 1..n
    BY ScopesLength
  <1>3. A(i) /\ \A j \in 1..(i - 1) : ~A(j)
    OBVIOUS
  <1>4. G(i) \in BOOLEAN
    BY DEF Grants
  <1> HIDE DEF n, A, G
  <1>5. (\E k \in 1..n : A(k) /\ (\A j \in 1..(k - 1) : ~A(j)) /\ G(k)) <=> G(i)
    <2>1. ASSUME NEW k \in 1..n, A(k), \A j \in 1..(k - 1) : ~A(j)
          PROVE  k = i
      BY <1>2, <1>3, <2>1
    <2>2. QED
      BY <1>2, <1>3, <2>1
  <1>6. QED
    BY <1>1, <1>4, <1>5 DEF G

(* Without an active row it is no. *)
LEMMA NoneActiveRefuses ==
  ASSUME NEW d, NEW g, NEW e, NEW t, NEW u, NEW q \in EntitlementQuestions,
         \A j \in 1..Len(ScopesOf(q)) : ~Active(e[u][ScopesOf(q)[j]], t)
  PROVE  Decision(d, g, e, t, u, q) = FALSE
  BY ScopesLength DEF Decision, EntitlementQuestions, PermissionQuestions

(* Questions that share a key have the same times to live. *)
LEMMA TtlOfKey ==
  ASSUME NEW q \in Questions, NEW a \in BOOLEAN
  PROVE  KeyOf(q) \in CacheKeys /\ Ttl(KeyOf(q), a) = Ttl(q, a) /\ Ttl(q, a) \in Nat
  BY AuthorizationAssumption
  DEF KeyOf, CacheKeys, Questions, Ttl, PermissionQuestions, EntitlementQuestions

-----------------------------------------------------------------------------
(* Handlers. *)

(* A free slot. *)
LEMMA IdleOK ==
  /\ Idle \in Request
  /\ Idle.at = "idle" /\ Idle.goal = "check" /\ Idle.scope = 1
  /\ RequestOK(Idle) /\ FreshOK(Idle) /\ BackedOK(Idle)
  BY DEF Idle, Request, Steps, Goals, Questions, PermissionQuestions, EntitlementQuestions,
         RequestOK, FreshOK, BackedOK, Administering

(* A question that is put is well formed, and a permission that is due is    *)
(* remembered.                                                               *)
LEMMA AskOK ==
  ASSUME NEW q \in Request, NEW u \in Users, NEW x \in Questions,
         q.goal = "other" => q.subject \in Users,
         Administering(q) => x \in {"config", "export", "manage"}
  PROVE  /\ Ask(q, u, x) \in Request
         /\ RequestOK(Ask(q, u, x)) /\ FreshOK(Ask(q, u, x)) /\ BackedOK(Ask(q, u, x))
  <1>1. PICK b \in BOOLEAN : b = (Administering(q) /\ Due(u, x))
    OBVIOUS
  <1>2. PICK n \in Request : n = Idle
    BY IdleOK
  <1> DEFINE a == [n EXCEPT !.at = "ask", !.goal = q.goal, !.user = u, !.q = x,
                            !.subject = q.subject, !.want = q.want, !.held = b]
  <1>3. /\ a \in Request
        /\ a.at = "ask" /\ a.goal = q.goal /\ a.user = u /\ a.q = x
        /\ a.subject = q.subject /\ a.scope = n.scope /\ a.held = b
    BY DEF Request, Steps
  <1>4. Ask(q, u, x) = a
    BY <1>1, <1>2 DEF Ask
  <1>5. n.scope = 1
    BY <1>2, IdleOK
  <1> HIDE DEF a
  <1>6. RequestOK(a)
    BY <1>3, <1>5 DEF RequestOK, Administering
  <1>7. FreshOK(a)
    BY <1>3 DEF FreshOK
  <1>8. Administering(a) = Administering(q) /\ Due(a.user, a.q) = Due(u, x)
    BY <1>3 DEF Administering
  <1>9. BackedOK(a)
    BY <1>1, <1>3, <1>8 DEF BackedOK
  <1>10. QED
    BY <1>3, <1>4, <1>6, <1>7, <1>9

(* What a handler does with its decision is well formed, when a permission   *)
(* it accepts is backed.                                                     *)
LEMMA ContinueOK ==
  ASSUME NEW q \in Request, NEW answer \in BOOLEAN, q.at # "idle", RequestOK(q),
         (Administering(q) /\ answer = TRUE) => q.held = TRUE \/ q.excused = TRUE
  PROVE  /\ Continue(q, answer) \in Request
         /\ RequestOK(Continue(q, answer)) /\ FreshOK(Continue(q, answer))
         /\ BackedOK(Continue(q, answer))
  <1>1. q.user \in Users /\ q.want \in Questions /\ "manage" \in Questions
    BY DEF RequestOK, Request, Questions, PermissionQuestions
  <1>2. CASE q.goal = "other" /\ answer
    <2> DEFINE c == [q EXCEPT !.goal = "check"]
    <2>1. c \in Request /\ c.goal = "check"
      BY DEF Request, Goals
    <2>2. q.subject \in Users
      BY <1>2 DEF RequestOK
    <2>3. Continue(q, answer) = Ask(c, q.subject, q.want)
      BY <1>2 DEF Continue
    <2> HIDE DEF c
    <2>4. ~Administering(c)
      BY <2>1 DEF Administering
    <2>5. QED
      BY <1>1, <2>1, <2>2, <2>3, <2>4, AskOK
  <1>3. CASE ~(q.goal = "other" /\ answer) /\ Administering(q) /\ answer
    <2>1. PICK n \in Request : n = Idle
      BY IdleOK
    <2> DEFINE a == [n EXCEPT !.at = "act", !.goal = q.goal, !.user = q.user, !.q = q.q,
                              !.held = q.held, !.excused = q.excused]
    <2>2. /\ a \in Request
          /\ a.at = "act" /\ a.goal = q.goal /\ a.user = q.user /\ a.q = q.q
          /\ a.held = q.held /\ a.excused = q.excused
      BY DEF Request, Steps
    <2>3. Continue(q, answer) = a
      BY <1>3, <2>1 DEF Continue, Admitted
    <2> HIDE DEF a
    <2>4. RequestOK(a) /\ FreshOK(a) /\ BackedOK(a)
      BY <1>1, <1>3, <2>2 DEF RequestOK, FreshOK, BackedOK, Administering
    <2>5. QED
      BY <2>2, <2>3, <2>4
  <1>4. CASE /\ ~(q.goal = "other" /\ answer) /\ ~(Administering(q) /\ answer)
             /\ Administering(q) /\ q.q # "manage" /\ ~SodEnforced
    <2>1. Continue(q, answer) = Ask(q, q.user, "manage")
      BY <1>4 DEF Continue
    <2>2. q.goal = "other" => q.subject \in Users
      BY DEF RequestOK
    <2>3. QED
      BY <1>1, <2>1, <2>2, AskOK
  <1>5. CASE /\ ~(q.goal = "other" /\ answer) /\ ~(Administering(q) /\ answer)
             /\ ~(Administering(q) /\ q.q # "manage" /\ ~SodEnforced)
    <2>1. Continue(q, answer) = Idle
      BY <1>5 DEF Continue
    <2>2. QED
      BY <2>1, IdleOK
  <1>6. QED
    BY <1>2, <1>3, <1>4, <1>5

(* The next state of one handler decides, when tables and clock stay.        *)
LEMMA HandlerMove ==
  ASSUME IInv, NEW r \in Requests, NEW q \in Request, req' = [req EXCEPT ![r] = q],
         RequestOK(q), FreshOK(q), BackedOK(q),
         UNCHANGED <<direct, grouped, entitled, now>>
  PROVE  req' \in [Requests -> Request] /\ HandlersOK'
  <1>1. req' \in [Requests -> Request] /\ \A s \in Requests : req'[s] = IF s = r THEN q ELSE req[s]
    BY DEF IInv, TypeOK
  <1>2. \A u, x : Due(u, x)' = Due(u, x)
    BY DEF Due, Decision, Active
  <1>3. ASSUME NEW s \in Requests
        PROVE  RequestOK(req[s])' /\ FreshOK(req[s])' /\ BackedOK(req[s])'
    <2>1. PICK p \in Request : p = req'[s] /\ RequestOK(p) /\ FreshOK(p) /\ BackedOK(p)
      BY <1>1 DEF IInv, HandlersOK, TypeOK
    <2>2. RequestOK(req[s])'
      BY <2>1 DEF RequestOK, Administering
    <2>3. FreshOK(req[s])' /\ BackedOK(req[s])'
      BY <1>2, <2>1 DEF FreshOK, BackedOK, Administering
    <2>4. QED
      BY <2>2, <2>3
  <1>4. QED
    BY <1>1, <1>3 DEF HandlersOK

(* A step of a handler that touches neither tables, cache nor clock.         *)
LEMMA QuietMove ==
  ASSUME IInv, NEW r \in Requests, NEW q \in Request, req' = [req EXCEPT ![r] = q],
         RequestOK(q), FreshOK(q), BackedOK(q),
         UNCHANGED <<direct, grouped, entitled, cache, now, changes, wrong>>,
         begun' \in Nat, settings' \in Users \union {None}
  PROVE  IInv'
  <1>1. req' \in [Requests -> Request] /\ HandlersOK'
    BY HandlerMove
  <1>2. TypeOK'
    BY <1>1 DEF IInv, TypeOK
  <1>3. TtlKept'
    BY DEF IInv, TtlKept, Ttl
  <1>4. StaleAnswersExpire'
    BY DEF IInv, StaleAnswersExpire, Live, Due
  <1>5. QED
    BY <1>1, <1>2, <1>3, <1>4 DEF IInv

-----------------------------------------------------------------------------
(* Steps of handlers. *)

(* Requests begin well formed. *)
LEMMA BeginSteps ==
  ASSUME IInv, NEW r \in Requests, NEW u \in Clients,
         \/ \E x \in Asked : Check(r, u, x)
         \/ \E v \in Users, x \in Asked : CheckOther(r, u, v, x)
         \/ \E goal \in {"config", "export"} : Administer(r, u, goal)
         \/ Purge(r, u)
  PROVE  IInv'
  <1>1. u \in Users /\ \A x \in Asked : x \in Questions
    BY AuthorizationAssumption
  <1>2. PICK n \in Request : n = Idle /\ n.at = "idle" /\ n.goal = "check"
    BY IdleOK
  <1>3. SUFFICES ASSUME NEW q \in Request, Begin(r, q), RequestOK(q), FreshOK(q), BackedOK(q)
                 PROVE  IInv'
    <2>1. CASE \E x \in Asked : Check(r, u, x)
      <3>1. PICK x \in Asked : Check(r, u, x)
        BY <2>1
      <3> DEFINE c == [n EXCEPT !.goal = "check"]
      <3>2. c \in Request /\ c.goal = "check"
        BY DEF Request, Goals
      <3>3. Begin(r, Ask(c, u, x))
        BY <1>2, <3>1 DEF Check
      <3> HIDE DEF c
      <3>4. ~Administering(c)
        BY <3>2 DEF Administering
      <3>5. QED
        BY <1>1, <1>3, <3>2, <3>3, <3>4, AskOK
    <2>2. CASE \E v \in Users, x \in Asked : CheckOther(r, u, v, x)
      <3>1. PICK v \in Users, x \in Asked : CheckOther(r, u, v, x)
        BY <2>2
      <3>2. x \in Questions /\ "manage" \in Questions
        BY <1>1 DEF Questions, PermissionQuestions
      <3> DEFINE c == [n EXCEPT !.goal = "other", !.subject = v, !.want = x]
      <3>3. c \in Request /\ c.goal = "other" /\ c.subject = v
        BY <3>2 DEF Request, Goals
      <3>4. Begin(r, Ask(c, u, "manage"))
        BY <1>2, <3>1 DEF CheckOther
      <3> HIDE DEF c
      <3>5. ~Administering(c)
        BY <3>3 DEF Administering
      <3>6. QED
        BY <1>1, <1>3, <3>2, <3>3, <3>4, <3>5, AskOK
    <2>3. CASE \E goal \in {"config", "export"} : Administer(r, u, goal)
      <3>1. PICK goal \in {"config", "export"} : Administer(r, u, goal)
        BY <2>3
      <3> DEFINE c == [n EXCEPT !.goal = goal]
      <3>2. c \in Request /\ c.goal = goal
        BY DEF Request, Goals
      <3>3. Begin(r, Ask(c, u, goal))
        BY <1>2, <3>1 DEF Administer
      <3>4. goal \in Questions /\ c.goal # "other"
        BY <3>2 DEF Questions, PermissionQuestions
      <3> HIDE DEF c
      <3>5. QED
        BY <1>1, <1>3, <3>2, <3>3, <3>4, AskOK
    <2>4. CASE Purge(r, u)
      <3> DEFINE c == [n EXCEPT !.goal = "purge", !.at = "scanAuth", !.user = u]
      <3>1. c \in Request /\ c.goal = "purge" /\ c.at = "scanAuth" /\ c.user = u
        BY <1>1 DEF Request, Goals, Steps
      <3>2. Begin(r, c)
        BY <1>2, <2>4 DEF Purge
      <3> HIDE DEF c
      <3>3. RequestOK(c) /\ FreshOK(c) /\ BackedOK(c)
        BY <1>1, <3>1 DEF RequestOK, FreshOK, BackedOK, Administering
      <3>4. QED
        BY <1>3, <3>1, <3>2, <3>3
    <2>5. QED
      BY <2>1, <2>2, <2>3, <2>4
  <1>4. /\ req' = [req EXCEPT ![r] = q] /\ begun' \in Nat /\ settings' \in Users \union {None}
        /\ UNCHANGED <<direct, grouped, entitled, cache, now, changes, wrong>>
    BY <1>3 DEF Begin, IInv, TypeOK
  <1>5. QED
    BY <1>3, <1>4, QuietMove

(* A cached decision: the permission is due, or the answer is stale and not  *)
(* yet out of its time.                                                      *)
LEMMA CacheHitStep ==
  ASSUME IInv, NEW r \in Requests, CacheHit(r)
  PROVE  IInv'
  <1>1. PICK p \in Request : p = req[r] /\ RequestOK(p) /\ BackedOK(p) /\ p.at = "ask"
    BY DEF IInv, TypeOK, HandlersOK, CacheHit
  <1>2. p.user \in Users /\ p.q \in Questions
    BY <1>1 DEF RequestOK, Request
  <1>3. PICK a \in BOOLEAN : a = cache[p.user][KeyOf(p.q)].allowed
    BY <1>2, TtlOfKey DEF IInv, TypeOK, Entry
  <1>4. PICK b \in BOOLEAN : b = (Administering(p) /\ now < wrong[p.user][p.q] + Ttl(p.q, a))
    OBVIOUS
  <1> DEFINE q == [p EXCEPT !.excused = b]
  <1>5. /\ q \in Request /\ q.at = p.at /\ q.goal = p.goal /\ q.user = p.user /\ q.q = p.q
        /\ q.subject = p.subject /\ q.scope = p.scope /\ q.held = p.held /\ q.excused = b
    BY DEF Request
  <1>6. /\ req' = [req EXCEPT ![r] = Continue(q, a)] /\ Live(p.user, KeyOf(p.q))
        /\ UNCHANGED <<direct, grouped, entitled, cache, now, begun, settings, changes, wrong>>
    BY <1>1, <1>3, <1>4 DEF CacheHit, Goto
  <1> HIDE DEF q
  <1>7. RequestOK(q) /\ Administering(q) = Administering(p)
    BY <1>1, <1>5 DEF RequestOK, Administering
  <1>8. ASSUME Administering(p), a = TRUE PROVE p.held = TRUE \/ b = TRUE
    <2>1. p.q \in Questions \ {"alias"} /\ KeyOf(p.q) = p.q
      BY <1>1, <1>2, <1>8 DEF RequestOK, KeyOf
    <2>2. CASE Due(p.user, p.q)
      BY <1>1, <1>8, <2>2 DEF BackedOK
    <2>3. CASE ~Due(p.user, p.q)
      <3>1. cache[p.user][p.q].expires <= wrong[p.user][p.q] + Ttl(p.q, a)
        BY <1>2, <1>3, <1>6, <1>8, <2>1, <2>3 DEF IInv, StaleAnswersExpire
      <3>2. cache[p.user][p.q].expires > now
        BY <1>6, <2>1 DEF Live
      <3>3. /\ cache[p.user][p.q].expires \in Nat /\ now \in Nat
            /\ wrong[p.user][p.q] \in Nat /\ Ttl(p.q, a) \in Nat
        BY <1>2, <2>1, TtlOfKey DEF IInv, TypeOK, Entry
      <3>4. now < wrong[p.user][p.q] + Ttl(p.q, a)
        BY <3>1, <3>2, <3>3
      <3>5. QED
        BY <1>4, <1>8, <3>4
    <2>4. QED
      BY <2>2, <2>3
  <1>9. /\ Continue(q, a) \in Request /\ RequestOK(Continue(q, a))
        /\ FreshOK(Continue(q, a)) /\ BackedOK(Continue(q, a))
    BY <1>1, <1>5, <1>7, <1>8, ContinueOK
  <1>10. QED
    BY <1>6, <1>9, QuietMove DEF IInv, TypeOK

(* A decision goes into the cache, or is used at once. *)
LEMMA DecidedOK ==
  ASSUME NEW q \in Request, NEW answer \in BOOLEAN, RequestOK(q),
         q.at \in {"group", "entitlement"},
         q.crossed = FALSE => answer = Due(q.user, q.q),
         Administering(q) /\ (Due(q.user, q.q) \/ answer = TRUE) => q.held = TRUE
  PROVE  /\ Decided(q, answer) \in Request
         /\ RequestOK(Decided(q, answer)) /\ FreshOK(Decided(q, answer))
         /\ BackedOK(Decided(q, answer))
  <1>1. CASE q.user \notin CachedUsers
    <2>1. Decided(q, answer) = Continue(q, answer)
      BY <1>1 DEF Decided
    <2>2. (Administering(q) /\ answer = TRUE) => q.held = TRUE
      OBVIOUS
    <2>3. QED
      BY <2>1, <2>2, ContinueOK
  <1>2. CASE q.user \in CachedUsers
    <2> DEFINE s == [q EXCEPT !.at = "set", !.answer = answer, !.found = {}, !.scope = 1, !.asOf = 0]
    <2>1. /\ s \in Request /\ s.at = "set" /\ s.goal = q.goal /\ s.user = q.user /\ s.q = q.q
          /\ s.subject = q.subject /\ s.answer = answer /\ s.held = q.held /\ s.crossed = q.crossed
      <3>1. 1 \in 1..3 /\ 0 \in Nat /\ {} \in SUBSET Grantable /\ "set" \in Steps
        BY DEF Steps
      <3>2. QED
        BY <3>1 DEF Request
    <2>2. Decided(q, answer) = s
      BY <1>2 DEF Decided
    <2> HIDE DEF s
    <2>3. RequestOK(s)
      BY <2>1 DEF RequestOK, Administering
    <2>4. FreshOK(s)
      BY <2>1 DEF FreshOK
    <2>5. Administering(s) = Administering(q) /\ Due(s.user, s.q) = Due(q.user, q.q)
      BY <2>1 DEF Administering
    <2>6. BackedOK(s)
      BY <2>1, <2>5 DEF BackedOK
    <2>7. QED
      BY <2>1, <2>2, <2>3, <2>4, <2>6
  <1>3. QED
    BY <1>1, <1>2

(* The two queries for permissions. *)
LEMMA ReadPermissionSteps ==
  ASSUME IInv, NEW r \in Requests, ReadDirect(r) \/ ReadGroup(r)
  PROVE  IInv'
  <1>1. PICK p \in Request : /\ p = req[r] /\ RequestOK(p) /\ FreshOK(p) /\ BackedOK(p)
                             /\ p.at \in {"ask", "group"}
    BY DEF IInv, TypeOK, HandlersOK, ReadDirect, ReadGroup
  <1>2. p.user \in Users /\ p.q \in Questions
    BY <1>1 DEF RequestOK, Request
  <1>3. SUFFICES ASSUME NEW q \in Request, req' = [req EXCEPT ![r] = q],
                        RequestOK(q), FreshOK(q), BackedOK(q)
                 PROVE  IInv'
    <2>1. CASE ReadDirect(r)
      <3>1. direct[p.user] \in SUBSET Grantable /\ p.q \in PermissionQuestions /\ p.at = "ask"
        BY <1>1, <1>2, <2>1 DEF IInv, TypeOK, ReadDirect
      <3>2. PICK f \in SUBSET Grantable : f = direct[p.user]
        BY <3>1
      <3> DEFINE q == [p EXCEPT !.at = "group", !.found = f]
      <3>3. /\ q \in Request /\ q.at = "group" /\ q.found = f /\ q.goal = p.goal /\ q.user = p.user
            /\ q.q = p.q /\ q.subject = p.subject /\ q.held = p.held
        BY DEF Request, Steps
      <3>4. req' = [req EXCEPT ![r] = q]
        BY <1>1, <2>1, <3>2 DEF ReadDirect, Goto
      <3> HIDE DEF q
      <3>5. RequestOK(q)
        BY <1>1, <3>1, <3>3 DEF RequestOK, Administering
      <3>6. FreshOK(q)
        BY <3>2, <3>3 DEF FreshOK
      <3>7. Administering(q) = Administering(p) /\ Due(q.user, q.q) = Due(p.user, p.q)
        BY <3>3 DEF Administering
      <3>8. f \intersect Covers[p.q] # {} => Due(p.user, p.q)
        BY <3>1, <3>2, PermissionDecision
      <3>9. Administering(p) /\ Due(p.user, p.q) => p.held = TRUE
        BY <1>1, <3>1 DEF BackedOK
      <3>10. BackedOK(q)
        BY <3>3, <3>7, <3>8, <3>9 DEF BackedOK
      <3>11. QED
        BY <1>3, <3>3, <3>4, <3>5, <3>6, <3>10
    <2>2. CASE ReadGroup(r)
      <3>1. p.at = "group" /\ p.q \in PermissionQuestions
        BY <1>1, <2>2 DEF ReadGroup, RequestOK
      <3>2. PICK a \in BOOLEAN : a = ((p.found \union grouped[p.user]) \intersect Covers[p.q] # {})
        OBVIOUS
      <3>3. req' = [req EXCEPT ![r] = Decided(p, a)]
        BY <1>1, <2>2, <3>2 DEF ReadGroup, Goto
      <3>4. Due(p.user, p.q) = ((direct[p.user] \union grouped[p.user]) \intersect Covers[p.q] # {})
        BY <3>1, PermissionDecision
      <3>5. p.crossed = FALSE => a = Due(p.user, p.q)
        BY <1>1, <3>1, <3>2, <3>4 DEF FreshOK
      <3>6. Administering(p) =>
              /\ Due(p.user, p.q) => p.held = TRUE
              /\ p.found \intersect Covers[p.q] # {} => p.held = TRUE
        BY <1>1, <3>1 DEF BackedOK
      <3>7. a = TRUE => Due(p.user, p.q) \/ p.found \intersect Covers[p.q] # {}
        BY <3>2, <3>4
      <3>8. Administering(p) /\ (Due(p.user, p.q) \/ a = TRUE) => p.held = TRUE
        BY <3>6, <3>7
      <3>9. QED
        BY <1>1, <1>3, <3>1, <3>3, <3>5, <3>8, DecidedOK
    <2>3. QED
      BY <2>1, <2>2
  <1>4. UNCHANGED <<direct, grouped, entitled, cache, now, begun, settings, changes, wrong>>
    BY DEF ReadDirect, ReadGroup
  <1>5. QED
    BY <1>3, <1>4, QuietMove DEF IInv, TypeOK

(* One query per scope for entitlements, as of the time of the first. *)
LEMMA ReadEntitlementStep ==
  ASSUME IInv, NEW r \in Requests, ReadEntitlement(r)
  PROVE  IInv'
  <1>1. PICK p \in Request : /\ p = req[r] /\ RequestOK(p) /\ FreshOK(p)
                             /\ p.at \in {"ask", "entitlement"} /\ p.q \in EntitlementQuestions
    BY DEF IInv, TypeOK, HandlersOK, ReadEntitlement
  <1>2. PICK t \in Nat : t = IF p.at = "ask" THEN now ELSE p.asOf
    <2>1. now \in Nat /\ p.asOf \in Nat
      BY DEF Request, IInv, TypeOK
    <2>2. QED
      BY <2>1
  <1>3. ~Administering(p) /\ p.user \in Users
    BY <1>1 DEF RequestOK, EntitlementQuestions
  <1>4. p.scope \in 1..3 /\ p.scope <= Len(ScopesOf(p.q)) /\ Len(ScopesOf(p.q)) \in {2, 3}
    <2>1. p.scope \in 1..3
      BY DEF Request
    <2>2. Len(ScopesOf(p.q)) \in {2, 3}
      BY ScopesLength
    <2>3. p.scope = 1 \/ p.scope <= Len(ScopesOf(p.q))
      BY <1>1 DEF RequestOK
    <2>4. p.scope <= Len(ScopesOf(p.q))
      <3>1. PICK m \in {2, 3} : m = Len(ScopesOf(p.q))
        BY <2>2
      <3>2. CASE p.scope = 1
        <4>1. p.scope <= m
          BY <3>2
        <4>2. QED
          BY <3>1, <4>1
      <3>3. QED
        BY <2>3, <3>2
    <2>5. QED
      BY <2>1, <2>2, <2>4
  <1>5. p.crossed = FALSE =>
          /\ Decision(direct, grouped, entitled, t, p.user, p.q) = Due(p.user, p.q)
          /\ \A j \in 1..(p.scope - 1) : ~Active(entitled[p.user][ScopesOf(p.q)[j]], t)
    <2>1. CASE p.at = "ask"
      <3>1. t = now /\ p.scope = 1
        BY <1>1, <1>2, <2>1 DEF RequestOK
      <3>2. QED
        BY <3>1 DEF Due
    <2>2. CASE p.at = "entitlement"
      <3>1. t = p.asOf
        BY <1>2, <2>2
      <3>2. QED
        BY <1>1, <2>2, <3>1 DEF FreshOK
    <2>3. QED
      BY <1>1, <2>1, <2>2
  <1> DEFINE row == entitled[p.user][ScopesOf(p.q)[p.scope]]
  <1>6. PICK q \in Request :
          /\ q = [req[r] EXCEPT !.at = "entitlement",
                                !.asOf = IF req[r].at = "ask" THEN now ELSE @]
          /\ q.at = "entitlement" /\ q.asOf = t /\ q.goal = p.goal
          /\ q.user = p.user /\ q.q = p.q /\ q.subject = p.subject
          /\ q.scope = p.scope /\ q.crossed = p.crossed
    <2> DEFINE c == [p EXCEPT !.at = "entitlement", !.asOf = t]
    <2>1. /\ c \in Request /\ c.at = "entitlement" /\ c.asOf = t /\ c.goal = p.goal
          /\ c.user = p.user /\ c.q = p.q /\ c.subject = p.subject
          /\ c.scope = p.scope /\ c.crossed = p.crossed
      BY DEF Request, Steps
    <2>2. c = [req[r] EXCEPT !.at = "entitlement",
                             !.asOf = IF req[r].at = "ask" THEN now ELSE @]
      BY <1>1, <1>2
    <2> HIDE DEF c
    <2>3. QED
      BY <2>1, <2>2
  <1>7. req' = [req EXCEPT ![r] = IF Active(row, t) THEN Decided(q, Grants(row, p.q))
                                  ELSE IF p.scope = Len(ScopesOf(p.q)) THEN Decided(q, FALSE)
                                  ELSE [q EXCEPT !.scope = p.scope + 1]]
    <2>1. req' = [req EXCEPT ![r] =
                    IF Active(entitled[q.user][ScopesOf(q.q)[q.scope]], q.asOf)
                      THEN Decided(q, Grants(entitled[q.user][ScopesOf(q.q)[q.scope]], q.q))
                    ELSE IF q.scope = Len(ScopesOf(q.q)) THEN Decided(q, FALSE)
                    ELSE [q EXCEPT !.scope = @ + 1]]
      BY <1>6 DEF ReadEntitlement, Goto
    <2>2. QED
      BY <1>6, <2>1
  <1>8. RequestOK(q) /\ ~Administering(q)
    BY <1>1, <1>3, <1>4, <1>6 DEF RequestOK, Administering
  <1>9. PICK n : /\ n \in Request /\ req' = [req EXCEPT ![r] = n]
                 /\ RequestOK(n) /\ FreshOK(n) /\ BackedOK(n)
    <2>1. CASE Active(row, t)
      <3>1. PICK a \in BOOLEAN : a = Grants(row, p.q)
        BY DEF Grants
      <3>2. q.crossed = FALSE => a = Due(q.user, q.q)
        <4>1. ASSUME p.crossed = FALSE
              PROVE  Decision(direct, grouped, entitled, t, p.user, p.q) = a
          <5>1. p.scope \in 1..Len(ScopesOf(p.q))
            BY <1>4
          <5>2. \A j \in 1..(p.scope - 1) : ~Active(entitled[p.user][ScopesOf(p.q)[j]], t)
            BY <1>5, <4>1
          <5>3. Active(entitled[p.user][ScopesOf(p.q)[p.scope]], t)
            BY <2>1
          <5>4. Decision(direct, grouped, entitled, t, p.user, p.q)
                  = Grants(entitled[p.user][ScopesOf(p.q)[p.scope]], p.q)
            BY <1>1, <5>1, <5>2, <5>3, FirstActiveDecides
          <5>5. QED
            BY <3>1, <5>4
        <4>2. QED
          BY <1>5, <1>6, <4>1
      <3>3. req' = [req EXCEPT ![r] = Decided(q, a)]
        BY <1>7, <2>1, <3>1
      <3>4. QED
        BY <1>6, <1>8, <3>2, <3>3, DecidedOK
    <2>2. CASE ~Active(row, t) /\ p.scope = Len(ScopesOf(p.q))
      <3>1. q.crossed = FALSE => FALSE = Due(q.user, q.q)
        <4>1. p.crossed = FALSE =>
                 \A j \in 1..Len(ScopesOf(p.q)) : ~Active(entitled[p.user][ScopesOf(p.q)[j]], t)
          BY <1>4, <1>5, <2>2
        <4>2. p.crossed = FALSE => Decision(direct, grouped, entitled, t, p.user, p.q) = FALSE
          BY <1>1, <4>1, NoneActiveRefuses
        <4>3. QED
          BY <1>5, <1>6, <4>2
      <3>2. req' = [req EXCEPT ![r] = Decided(q, FALSE)]
        BY <1>7, <2>2
      <3>3. QED
        BY <1>6, <1>8, <3>1, <3>2, DecidedOK
    <2>3. CASE ~Active(row, t) /\ p.scope # Len(ScopesOf(p.q))
      <3>1. PICK k \in 1..3 : k = p.scope + 1 /\ k <= Len(ScopesOf(p.q))
        <4>1. PICK m \in {2, 3} : m = Len(ScopesOf(p.q))
          BY <1>4
        <4>2. p.scope \in 1..3 /\ p.scope <= m /\ p.scope # m
          BY <1>4, <2>3, <4>1
        <4>3. p.scope + 1 \in 1..3 /\ p.scope + 1 <= m
          BY <4>2
        <4>4. QED
          BY <4>1, <4>3
      <3> DEFINE n == [q EXCEPT !.scope = k]
      <3>2. /\ n \in Request /\ n.at = "entitlement" /\ n.asOf = t /\ n.goal = p.goal
            /\ n.user = p.user /\ n.q = p.q /\ n.subject = p.subject
            /\ n.scope = k /\ n.crossed = p.crossed
        <4>1. /\ n \in Request /\ n.at = q.at /\ n.asOf = q.asOf /\ n.goal = q.goal
              /\ n.user = q.user /\ n.q = q.q /\ n.subject = q.subject
              /\ n.scope = k /\ n.crossed = q.crossed
          BY DEF Request
        <4>2. QED
          BY <1>6, <4>1
      <3>3. req' = [req EXCEPT ![r] = n]
        BY <1>7, <2>3, <3>1
      <3> HIDE DEF n
      <3>4. RequestOK(n) /\ BackedOK(n)
        BY <1>1, <1>3, <3>1, <3>2 DEF RequestOK, BackedOK, Administering
      <3>5. p.crossed = FALSE =>
              \A j \in 1..(n.scope - 1) : ~Active(entitled[p.user][ScopesOf(p.q)[j]], t)
        <4>1. ASSUME p.crossed = FALSE, NEW j \in 1..(n.scope - 1)
              PROVE  ~Active(entitled[p.user][ScopesOf(p.q)[j]], t)
          <5>1. j \in 1..(p.scope - 1) \/ j = p.scope
            BY <1>4, <3>1, <3>2, <4>1
          <5>2. CASE j = p.scope
            BY <2>3, <5>2
          <5>3. CASE j \in 1..(p.scope - 1)
            BY <1>5, <4>1, <5>3
          <5>4. QED
            BY <5>1, <5>2, <5>3
        <4>2. QED
          BY <4>1
      <3>6. FreshOK(n)
        BY <1>5, <3>2, <3>5 DEF FreshOK
      <3>7. QED
        BY <3>2, <3>3, <3>4, <3>6
    <2>4. QED
      BY <2>1, <2>2, <2>3
  <1>10. UNCHANGED <<direct, grouped, entitled, cache, now, begun, settings, changes, wrong>>
    BY DEF ReadEntitlement
  <1>11. QED
    BY <1>9, <1>10, QuietMove DEF IInv, TypeOK

(* Steps that only move the handler on or end it. *)
LEMMA PlainSteps ==
  ASSUME IInv, NEW r \in Requests, CacheSetFails(r) \/ Scan(r) \/ Act(r) \/ Abort(r)
  PROVE  IInv'
  <1>1. PICK p \in Request : p = req[r] /\ RequestOK(p) /\ BackedOK(p)
    BY DEF IInv, TypeOK, HandlersOK
  <1>2. PICK q : /\ q \in Request /\ req' = [req EXCEPT ![r] = q]
                 /\ RequestOK(q) /\ FreshOK(q) /\ BackedOK(q)
    <2>1. CASE CacheSetFails(r)
      <3>1. p.at = "set" /\ p.answer \in BOOLEAN
        BY <1>1, <2>1 DEF CacheSetFails, Request
      <3>2. req' = [req EXCEPT ![r] = Continue(p, p.answer)]
        BY <1>1, <2>1 DEF CacheSetFails, Goto
      <3>3. (Administering(p) /\ p.answer = TRUE) => p.held = TRUE
        BY <1>1, <3>1 DEF BackedOK
      <3>4. QED
        BY <1>1, <3>1, <3>2, <3>3, ContinueOK
    <2>2. CASE Scan(r)
      <3>1. p.at \in {"scanAuth", "scanEnt"} /\ p.user \in Users /\ ~Administering(p)
        BY <1>1, <2>2 DEF Scan, RequestOK
      <3>2. PICK step \in {"delAuth", "delEnt"} :
              step = IF p.at = "scanAuth" THEN "delAuth" ELSE "delEnt"
        OBVIOUS
      <3>3. PICK K \in SUBSET CacheKeys : K = {k \in KeysOf(p.at) : Live(p.user, k)}
        BY DEF KeysOf
      <3> DEFINE q == [p EXCEPT !.at = step, !.keys = K]
      <3>4. /\ q \in Request /\ q.at = step /\ q.goal = p.goal /\ q.user = p.user
            /\ q.subject = p.subject
        BY DEF Request, Steps
      <3>5. req' = [req EXCEPT ![r] = q]
        BY <1>1, <2>2, <3>2, <3>3 DEF Scan, Goto
      <3> HIDE DEF q
      <3>6. RequestOK(q) /\ FreshOK(q) /\ BackedOK(q)
        BY <1>1, <3>1, <3>4 DEF RequestOK, FreshOK, BackedOK, Administering
      <3>7. QED
        BY <3>4, <3>5, <3>6
    <2>3. CASE Act(r) \/ Abort(r)
      BY <2>3, IdleOK DEF Act, Abort, Done, Goto
    <2>4. QED
      BY <2>1, <2>2, <2>3
  <1>3. settings' \in Users \union {None}
    BY <1>1 DEF CacheSetFails, Scan, Act, Abort, IInv, TypeOK, Request
  <1>4. UNCHANGED <<direct, grouped, entitled, cache, now, begun, changes, wrong>>
    BY DEF CacheSetFails, Scan, Act, Abort
  <1>5. QED
    BY <1>2, <1>3, <1>4, QuietMove DEF IInv, TypeOK

(* A decision is written: either it is the one the tables call for, or the   *)
(* moment is taken down.                                                     *)
LEMMA CacheSetStep ==
  ASSUME IInv, NEW r \in Requests, CacheSet(r)
  PROVE  IInv'
  <1>1. PICK p \in Request : /\ p = req[r] /\ RequestOK(p) /\ FreshOK(p) /\ BackedOK(p)
                             /\ p.at = "set"
    BY DEF IInv, TypeOK, HandlersOK, CacheSet
  <1>2. PICK u \in Users : u = p.user
    BY <1>1 DEF RequestOK
  <1>3. PICK x \in Questions : x = p.q
    BY DEF Request
  <1>4. PICK a \in BOOLEAN : a = p.answer
    BY DEF Request
  <1>5. PICK k \in CacheKeys : k = KeyOf(x) /\ Ttl(k, a) = Ttl(x, a) /\ Ttl(k, a) \in Nat
    BY TtlOfKey
  <1>6. PICK n \in Nat : n = now
    BY DEF IInv, TypeOK
  <1> DEFINE off(y) == /\ KeyOf(y) = k /\ a # Due(u, y)
                       /\ p.crossed \/ y # x
             entry == [allowed |-> a, expires |-> n + Ttl(x, a)]
  <1>7. /\ cache' = [cache EXCEPT ![u][k] = entry]
        /\ wrong' = [wrong EXCEPT ![u] = [y \in Questions |-> IF off(y) THEN n ELSE wrong[u][y]]]
        /\ req' = [req EXCEPT ![r] = Continue(p, a)]
        /\ UNCHANGED <<direct, grouped, entitled, now, begun, settings, changes>>
    BY <1>1, <1>2, <1>3, <1>4, <1>5, <1>6 DEF CacheSet, Goto, Stored
  <1>8. entry \in Entry /\ entry.allowed = a /\ entry.expires = n + Ttl(x, a)
    BY <1>5 DEF Entry
  <1> HIDE DEF entry
  <1>9. /\ cache' \in [Users -> [CacheKeys -> Entry]]
        /\ \A v \in Users, j \in CacheKeys :
              cache'[v][j] = IF v = u /\ j = k THEN entry ELSE cache[v][j]
    BY <1>7, <1>8 DEF IInv, TypeOK
  <1>10. /\ wrong' \in [Users -> [Questions -> Nat]]
         /\ \A v \in Users, y \in Questions :
              wrong'[v][y] = IF v = u /\ off(y) THEN n ELSE wrong[v][y]
    <2> HIDE DEF off
    <2>1. QED
      BY <1>7 DEF IInv, TypeOK
  <1>11. req' \in [Requests -> Request] /\ HandlersOK'
    <2>1. (Administering(p) /\ a = TRUE) => p.held = TRUE
      BY <1>1, <1>4 DEF BackedOK
    <2>2. /\ Continue(p, a) \in Request /\ RequestOK(Continue(p, a))
          /\ FreshOK(Continue(p, a)) /\ BackedOK(Continue(p, a))
      BY <1>1, <2>1, ContinueOK
    <2>3. QED
      BY <1>7, <2>2, HandlerMove
  <1>12. TypeOK'
    BY <1>7, <1>9, <1>10, <1>11 DEF IInv, TypeOK
  <1>13. TtlKept'
    <2>1. ASSUME NEW v \in Users, NEW j \in CacheKeys
          PROVE  cache'[v][j].expires <= n + Ttl(j, cache'[v][j].allowed)
      <3>1. CASE v = u /\ j = k
        <4>1. n + Ttl(x, a) <= n + Ttl(k, a)
          BY <1>5
        <4>2. QED
          BY <1>8, <1>9, <3>1, <4>1
      <3>2. CASE ~(v = u /\ j = k)
        BY <1>6, <1>9, <3>2 DEF IInv, TtlKept
      <3>3. QED
        BY <3>1, <3>2
    <2>2. now' = n /\ \A j, b : Ttl(j, b)' = Ttl(j, b)
      BY <1>6, <1>7 DEF Ttl
    <2>3. QED
      BY <2>1, <2>2 DEF TtlKept
  <1>14. StaleAnswersExpire'
    <2>1. \A v, y : Due(v, y)' = Due(v, y)
      BY <1>7 DEF Due
    <2>2. ASSUME NEW v \in Users, NEW y \in Questions, NEW c \in CacheKeys, c = KeyOf(y),
                 cache'[v][c].expires > n, cache'[v][c].allowed # Due(v, y)
          PROVE  cache'[v][c].expires <= wrong'[v][y] + Ttl(y, cache'[v][c].allowed)
      <3>1. CASE v = u /\ c = k
        <4>1. cache'[v][c] = entry /\ a # Due(u, y)
          BY <1>8, <1>9, <2>2, <3>1
        <4>2. off(y)
          <5>1. CASE y = x
            <6>1. p.crossed # FALSE
              BY <1>1, <1>2, <1>3, <1>4, <4>1, <5>1 DEF FreshOK
            <6>2. p.crossed \in BOOLEAN
              BY DEF Request
            <6>3. QED
              BY <2>2, <3>1, <4>1, <6>1, <6>2
          <5>2. CASE y # x
            BY <2>2, <3>1, <4>1, <5>2
          <5>3. QED
            BY <5>1, <5>2
        <4>3. wrong'[v][y] = n
          BY <1>10, <3>1, <4>2
        <4>4. Ttl(x, a) = Ttl(y, a) /\ Ttl(y, a) \in Nat
          BY <1>5, <2>2, <3>1, TtlOfKey
        <4>5. QED
          BY <1>8, <4>1, <4>3, <4>4
      <3>2. CASE ~(v = u /\ c = k)
        <4>1. cache'[v][c] = cache[v][c] /\ wrong'[v][y] = wrong[v][y]
          BY <1>9, <1>10, <2>2, <3>2
        <4>2. QED
          BY <1>6, <2>2, <4>1 DEF IInv, StaleAnswersExpire, Live
      <3>3. QED
        BY <3>1, <3>2
    <2>3. \A y \in Questions : KeyOf(y) \in CacheKeys
      BY TtlOfKey
    <2>4. now' = n /\ \A j, b : Ttl(j, b)' = Ttl(j, b)
      BY <1>6, <1>7 DEF Ttl
    <2>5. QED
      BY <2>1, <2>2, <2>3, <2>4 DEF StaleAnswersExpire, Live, KeyOf
  <1>15. QED
    BY <1>11, <1>12, <1>13, <1>14 DEF IInv

(* DEL takes what SCAN returned. *)
LEMMA DeleteStep ==
  ASSUME IInv, NEW r \in Requests, Delete(r)
  PROVE  IInv'
  <1>1. PICK p \in Request : /\ p = req[r] /\ RequestOK(p)
                             /\ p.at \in {"delAuth", "delEnt"}
    BY DEF IInv, TypeOK, HandlersOK, Delete
  <1>2. PICK u \in Users : u = p.user
    BY <1>1 DEF RequestOK
  <1>3. PICK K \in SUBSET CacheKeys : K = p.keys
    BY DEF Request
  <1>4. /\ cache' = [cache EXCEPT ![u] = [k \in CacheKeys |-> IF k \in K THEN NoEntry ELSE cache[u][k]]]
        /\ wrong' = [wrong EXCEPT ![u] =
                       [y \in Questions |-> IF KeyOf(y) \in K THEN 0 ELSE wrong[u][y]]]
        /\ UNCHANGED <<direct, grouped, entitled, now, begun, settings, changes>>
    BY <1>1, <1>2, <1>3 DEF Delete
  <1>5. NoEntry \in Entry /\ NoEntry.expires = 0
    BY DEF NoEntry, Entry
  <1>6. /\ cache' \in [Users -> [CacheKeys -> Entry]]
        /\ \A v \in Users, j \in CacheKeys :
              cache'[v][j] = IF v = u /\ j \in K THEN NoEntry ELSE cache[v][j]
    BY <1>4, <1>5 DEF IInv, TypeOK
  <1>7. /\ wrong' \in [Users -> [Questions -> Nat]]
        /\ \A v \in Users, y \in Questions :
              wrong'[v][y] = IF v = u /\ KeyOf(y) \in K THEN 0 ELSE wrong[v][y]
    BY <1>4 DEF IInv, TypeOK
  <1>8. PICK q : /\ q \in Request /\ req' = [req EXCEPT ![r] = q]
                 /\ RequestOK(q) /\ FreshOK(q) /\ BackedOK(q)
    <2>1. CASE p.at = "delAuth"
      <3> DEFINE q == [p EXCEPT !.at = "scanEnt", !.keys = {}]
      <3>1. /\ q \in Request /\ q.at = "scanEnt" /\ q.goal = p.goal /\ q.user = p.user
            /\ q.subject = p.subject
        BY DEF Request, Steps
      <3>2. req' = [req EXCEPT ![r] = q]
        BY <1>1, <2>1 DEF Delete, Goto
      <3> HIDE DEF q
      <3>3. RequestOK(q) /\ FreshOK(q) /\ BackedOK(q)
        BY <1>1, <3>1 DEF RequestOK, FreshOK, BackedOK, Administering
      <3>4. QED
        BY <3>1, <3>2, <3>3
    <2>2. CASE p.at = "delEnt"
      BY <1>1, <2>2, IdleOK DEF Delete, Goto
    <2>3. QED
      BY <1>1, <2>1, <2>2
  <1>9. req' \in [Requests -> Request] /\ HandlersOK'
    BY <1>4, <1>8, HandlerMove
  <1>10. TypeOK'
    BY <1>4, <1>6, <1>7, <1>9 DEF IInv, TypeOK
  <1>11. now \in Nat /\ now' = now
    BY <1>4 DEF IInv, TypeOK
  <1>12. TtlKept'
    <2>1. ASSUME NEW v \in Users, NEW j \in CacheKeys
          PROVE  cache'[v][j].expires <= now + Ttl(j, cache'[v][j].allowed)
      <3>1. CASE cache'[v][j] = NoEntry
        <4>1. NoEntry.allowed \in BOOLEAN
          BY DEF NoEntry
        <4>2. Ttl(j, NoEntry.allowed) \in Nat
          BY <4>1, TtlOfKey DEF CacheKeys
        <4>3. QED
          BY <1>5, <1>11, <3>1, <4>2
      <3>2. CASE cache'[v][j] = cache[v][j]
        BY <3>2 DEF IInv, TtlKept
      <3>3. QED
        BY <1>6, <3>1, <3>2
    <2>2. QED
      BY <1>11, <2>1 DEF TtlKept, Ttl
  <1>13. StaleAnswersExpire'
    <2>1. \A v, y : Due(v, y)' = Due(v, y)
      BY <1>4 DEF Due
    <2>2. ASSUME NEW v \in Users, NEW y \in Questions, NEW c \in CacheKeys, c = KeyOf(y),
                 cache'[v][c].expires > now, cache'[v][c].allowed # Due(v, y)
          PROVE  cache'[v][c].expires <= wrong'[v][y] + Ttl(y, cache'[v][c].allowed)
      <3>1. ~(v = u /\ c \in K)
        BY <1>5, <1>6, <1>11, <2>2
      <3>2. cache'[v][c] = cache[v][c] /\ wrong'[v][y] = wrong[v][y]
        BY <1>6, <1>7, <2>2, <3>1
      <3>3. QED
        BY <2>2, <3>2 DEF IInv, StaleAnswersExpire, Live
    <2>3. \A y \in Questions : KeyOf(y) \in CacheKeys
      BY TtlOfKey
    <2>4. \A j, b : Ttl(j, b)' = Ttl(j, b)
      BY DEF Ttl
    <2>5. QED
      BY <1>11, <2>1, <2>2, <2>3, <2>4 DEF StaleAnswersExpire, Live, KeyOf
  <1>14. QED
    BY <1>9, <1>10, <1>12, <1>13 DEF IInv

-----------------------------------------------------------------------------
(* The tables change or time passes. *)

(* Every decision that changes has its moment taken down, and every handler  *)
(* that was reading is marked.                                               *)
LEMMA DisturbStep ==
  ASSUME IInv, NEW d \in [Users -> SUBSET Grantable], NEW g \in [Users -> SUBSET Grantable],
         NEW e \in [Users -> [Scopes -> Row]], NEW t \in Nat, now <= t,
         Disturb(d, g, e, t), direct' = d, grouped' = g, entitled' = e, now' = t,
         UNCHANGED <<cache, begun, settings>>, changes' \in Nat
  PROVE  IInv'
  <1>1. \A u, x : Due(u, x)' = Decision(d, g, e, t, u, x)
    BY DEF Due
  <1> DEFINE W(u, x) == Decision(d, g, e, t, u, x) # Due(u, x)
  <1>2. wrong' = [u \in Users |-> [x \in Questions |-> IF W(u, x) THEN t ELSE wrong[u][x]]]
    BY DEF Disturb
  <1>3. /\ wrong' \in [Users -> [Questions -> Nat]]
        /\ \A u \in Users, x \in Questions : wrong'[u][x] = IF W(u, x) THEN t ELSE wrong[u][x]
    <2> HIDE DEF W
    <2>1. QED
      BY <1>2 DEF IInv, TypeOK
  <1>4. ASSUME NEW s \in Requests
        PROVE  /\ req'[s] \in Request
               /\ RequestOK(req[s])' /\ FreshOK(req[s])' /\ BackedOK(req[s])'
    <2>1. PICK p \in Request : p = req[s] /\ RequestOK(p) /\ FreshOK(p) /\ BackedOK(p)
      BY DEF IInv, TypeOK, HandlersOK
    <2>2. CASE p.user = None
      <3>1. req'[s] = p
        BY <2>1, <2>2 DEF Disturb
      <3>2. p.at = "idle"
        BY <2>1, <2>2, AuthorizationAssumption DEF RequestOK
      <3>3. QED
        BY <2>1, <3>1, <3>2 DEF RequestOK, FreshOK, BackedOK, Administering
    <2>3. CASE p.user # None
      <3>1. PICK u \in Users : u = p.user
        BY <2>3 DEF Request
      <3>2. PICK x \in BOOLEAN :
              x = (/\ p.at \in {"group", "entitlement", "set"}
                   /\ \/ d[u] # direct[u] \/ g[u] # grouped[u]
                      \/ e[u] # entitled[u]
                      \/ Decision(d, g, e, t, u, p.q) # Due(u, p.q))
        OBVIOUS
      <3>3. PICK y \in BOOLEAN : y = (Administering(p) /\ Decision(d, g, e, t, u, p.q))
        OBVIOUS
      <3>4. PICK c \in BOOLEAN : c = (p.crossed \/ x)
        OBVIOUS
      <3>5. PICK h \in BOOLEAN : h = (p.held \/ y)
        OBVIOUS
      <3> DEFINE n == [p EXCEPT !.crossed = c, !.held = h]
      <3>6. /\ n \in Request /\ n.at = p.at /\ n.goal = p.goal /\ n.user = p.user /\ n.q = p.q
            /\ n.subject = p.subject /\ n.scope = p.scope /\ n.asOf = p.asOf
            /\ n.found = p.found /\ n.answer = p.answer /\ n.excused = p.excused
            /\ n.crossed = c /\ n.held = h
        BY DEF Request
      <3>7. req'[s] = n
        BY <2>1, <2>3, <3>1, <3>2, <3>3, <3>4, <3>5 DEF Disturb
      <3> HIDE DEF n
      <3>8. p.crossed \in BOOLEAN /\ p.held \in BOOLEAN
        BY DEF Request
      <3>9. Due(p.user, p.q)' = Decision(d, g, e, t, p.user, p.q)
        BY <1>1
      <3>10. RequestOK(req[s])'
        BY <2>1, <3>6, <3>7 DEF RequestOK, Administering
      <3>11. ASSUME p.at \in {"group", "entitlement", "set"}, c = FALSE
             PROVE  /\ p.crossed = FALSE /\ d[u] = direct[u] /\ g[u] = grouped[u] /\ e[u] = entitled[u]
                    /\ Decision(d, g, e, t, u, p.q) = Due(u, p.q)
        BY <3>2, <3>4, <3>8, <3>11
      <3>12. FreshOK(req[s])'
        <4>1. ASSUME p.at = "group", c = FALSE PROVE p.found = d[u]
          BY <2>1, <3>1, <3>11, <4>1 DEF FreshOK
        <4>2. ASSUME p.at = "set", c = FALSE PROVE p.answer = Decision(d, g, e, t, u, p.q)
          BY <2>1, <3>1, <3>11, <4>2 DEF FreshOK
        <4>3. ASSUME p.at = "entitlement", c = FALSE
              PROVE  /\ Decision(d, g, e, p.asOf, u, p.q) = Decision(d, g, e, t, u, p.q)
                     /\ \A j \in 1..(p.scope - 1) : ~Active(e[u][ScopesOf(p.q)[j]], p.asOf)
          <5>1. Decision(d, g, e, p.asOf, u, p.q)
                  = Decision(direct, grouped, entitled, p.asOf, u, p.q)
            <6>1. d[u] = direct[u] /\ g[u] = grouped[u] /\ e[u] = entitled[u]
              BY <3>11, <4>3
            <6>2. QED
              BY <6>1 DEF Decision
          <5>2. /\ Decision(direct, grouped, entitled, p.asOf, u, p.q) = Due(u, p.q)
                /\ \A j \in 1..(p.scope - 1) : ~Active(entitled[u][ScopesOf(p.q)[j]], p.asOf)
            BY <2>1, <3>1, <3>11, <4>3 DEF FreshOK
          <5>3. QED
            BY <3>11, <4>3, <5>1, <5>2
        <4>4. QED
          BY <1>1, <3>1, <3>6, <3>7, <4>1, <4>2, <4>3 DEF FreshOK
      <3>13. BackedOK(req[s])'
        <4>1. Administering(n) = Administering(p)
          BY <3>6 DEF Administering
        <4>2. p.held = TRUE => h = TRUE
          BY <3>5
        <4>3. Administering(p) /\ Decision(d, g, e, t, u, p.q) => h = TRUE
          BY <3>3, <3>5
        <4>4. Administering(p) =>
                /\ (p.at \in {"ask", "group", "set"} /\ Decision(d, g, e, t, u, p.q)) => h = TRUE
                /\ (p.at = "group" /\ p.found \intersect Covers[p.q] # {}) => h = TRUE
                /\ (p.at = "set" /\ p.answer = TRUE) => h = TRUE
                /\ p.at = "act" => h = TRUE \/ p.excused = TRUE
          BY <2>1, <4>2, <4>3 DEF BackedOK
        <4>5. QED
          BY <1>1, <3>1, <3>6, <3>7, <4>1, <4>4 DEF BackedOK, Administering
      <3>14. QED
        BY <3>6, <3>7, <3>10, <3>12, <3>13
    <2>4. QED
      BY <2>2, <2>3
  <1>5. req' \in [Requests -> Request]
    BY <1>4 DEF Disturb
  <1>6. TypeOK'
    BY <1>3, <1>5 DEF IInv, TypeOK
  <1>7. ASSUME NEW u \in Users, NEW k \in CacheKeys
        PROVE  /\ cache[u][k].expires <= t + Ttl(k, cache[u][k].allowed)
               /\ cache[u][k].expires \in Nat /\ Ttl(k, cache[u][k].allowed) \in Nat
    <2>1. cache[u][k].expires \in Nat /\ cache[u][k].allowed \in BOOLEAN
      BY DEF IInv, TypeOK, Entry
    <2>2. Ttl(k, cache[u][k].allowed) \in Nat
      BY <2>1, TtlOfKey DEF CacheKeys
    <2>3. now \in Nat /\ cache[u][k].expires <= now + Ttl(k, cache[u][k].allowed)
      BY DEF IInv, TypeOK, TtlKept
    <2>4. QED
      BY <2>1, <2>2, <2>3
  <1>8. \A j, b : Ttl(j, b)' = Ttl(j, b)
    BY DEF Ttl
  <1>9. TtlKept'
    BY <1>7, <1>8 DEF TtlKept
  <1>10. ASSUME NEW u \in Users, NEW y \in Questions, NEW c \in CacheKeys, c = KeyOf(y),
                cache[u][c].expires > t, cache[u][c].allowed # Decision(d, g, e, t, u, y)
         PROVE  cache[u][c].expires <= wrong'[u][y] + Ttl(y, cache[u][c].allowed)
    <2>1. cache[u][c] \in Entry /\ cache[u][c].allowed \in BOOLEAN
      BY DEF IInv, TypeOK, Entry
    <2>2. CASE W(u, y)
      <3>1. Ttl(c, cache[u][c].allowed) = Ttl(y, cache[u][c].allowed)
        BY <1>10, <2>1, TtlOfKey
      <3>2. QED
        BY <1>3, <1>7, <2>2, <3>1
    <2>3. CASE ~W(u, y)
      <3>1. wrong'[u][y] = wrong[u][y] /\ cache[u][c].allowed # Due(u, y)
        BY <1>3, <1>10, <2>3
      <3>2. cache[u][c].expires > now
        BY <1>7, <1>10 DEF IInv, TypeOK
      <3>3. QED
        BY <1>10, <3>1, <3>2 DEF IInv, StaleAnswersExpire, Live
    <2>4. QED
      BY <2>2, <2>3
  <1>11. StaleAnswersExpire'
    <2>1. \A y \in Questions : KeyOf(y) \in CacheKeys
      BY TtlOfKey
    <2>2. QED
      BY <1>1, <1>8, <1>10, <2>1 DEF StaleAnswersExpire, Live, KeyOf
  <1>12. QED
    BY <1>4, <1>6, <1>9, <1>11 DEF IInv, HandlersOK

(* Operators change a row, or the clock advances. *)
LEMMA ChangeSteps ==
  ASSUME IInv,
         \/ \E u \in Users, p \in Grantable, where \in {"direct", "group", "nowhere"} :
               Place(u, p, where)
         \/ \E u \in Users, s \in Scopes, row \in NewRows : Entitle(u, s, row)
         \/ Tick
  PROVE  IInv'
  <1>1. /\ direct \in [Users -> SUBSET Grantable] /\ grouped \in [Users -> SUBSET Grantable]
        /\ entitled \in [Users -> [Scopes -> Row]] /\ now \in Nat /\ changes \in Nat
    BY DEF IInv, TypeOK
  <1>2. ASSUME NEW d \in [Users -> SUBSET Grantable], NEW g \in [Users -> SUBSET Grantable],
               NEW e \in [Users -> [Scopes -> Row]], Change(d, g, e)
        PROVE  IInv'
    <2>1. /\ Disturb(d, g, e, now) /\ direct' = d /\ grouped' = g /\ entitled' = e /\ now' = now
          /\ UNCHANGED <<cache, begun, settings>> /\ changes' \in Nat
      BY <1>1, <1>2 DEF Change
    <2>2. PICK t \in Nat : t = now
      BY <1>1
    <2>3. Disturb(d, g, e, t) /\ now' = t /\ now <= t
      BY <2>1, <2>2
    <2>4. QED
      BY <2>1, <2>3, DisturbStep
  <1>3. CASE \E u \in Users, p \in Grantable, where \in {"direct", "group", "nowhere"} :
                Place(u, p, where)
    <2>1. PICK u \in Users, p \in Grantable, where \in {"direct", "group", "nowhere"} :
            Place(u, p, where)
      BY <1>3
    <2>2. PICK A \in SUBSET Grantable :
            A = IF where = "direct" THEN direct[u] \union {p} ELSE direct[u] \ {p}
      BY <1>1
    <2>3. PICK B \in SUBSET Grantable :
            B = IF where = "group" THEN grouped[u] \union {p} ELSE grouped[u] \ {p}
      BY <1>1
    <2>4. Change([direct EXCEPT ![u] = A], [grouped EXCEPT ![u] = B], entitled)
      BY <2>1, <2>2, <2>3 DEF Place
    <2>5. PICK d \in [Users -> SUBSET Grantable], g \in [Users -> SUBSET Grantable],
               e \in [Users -> [Scopes -> Row]] :
            d = [direct EXCEPT ![u] = A] /\ g = [grouped EXCEPT ![u] = B] /\ e = entitled
      BY <1>1
    <2>6. QED
      BY <1>2, <2>4, <2>5
  <1>4. CASE \E u \in Users, s \in Scopes, row \in NewRows : Entitle(u, s, row)
    <2>1. PICK u \in Users, s \in Scopes, row \in NewRows : Entitle(u, s, row)
      BY <1>4
    <2>2. row \in Row
      BY AuthorizationAssumption DEF NewRows, Row, NoRow
    <2>3. PICK d \in [Users -> SUBSET Grantable], g \in [Users -> SUBSET Grantable],
               e \in [Users -> [Scopes -> Row]] :
            d = direct /\ g = grouped /\ e = [entitled EXCEPT ![u][s] = row]
      BY <1>1, <2>2
    <2>4. QED
      BY <1>2, <2>1, <2>3 DEF Entitle
  <1>5. CASE Tick
    <2>1. PICK d \in [Users -> SUBSET Grantable], g \in [Users -> SUBSET Grantable],
               e \in [Users -> [Scopes -> Row]], t \in Nat :
            d = direct /\ g = grouped /\ e = entitled /\ t = now + 1
      BY <1>1
    <2>2. /\ Disturb(d, g, e, t) /\ direct' = d /\ grouped' = g /\ entitled' = e /\ now' = t
          /\ UNCHANGED <<cache, begun, settings>> /\ changes' \in Nat /\ now <= t
      BY <1>1, <1>5, <2>1 DEF Tick
    <2>3. QED
      BY <2>2, DisturbStep
  <1>6. QED
    BY <1>3, <1>4, <1>5

-----------------------------------------------------------------------------
(* Theorems. *)

(* The seeded tables, an empty cache and no handler. *)
LEMMA InitInv == Init => IInv
  <1> SUFFICES ASSUME Init PROVE IInv
    OBVIOUS
  <1>1. NoEntry \in Entry /\ NoEntry.expires = 0 /\ NoEntry.allowed = FALSE /\ NoRow \in Row
    BY DEF NoEntry, Entry, NoRow, Row
  <1>2. direct \in [Users -> SUBSET Grantable] /\ grouped \in [Users -> SUBSET Grantable]
    BY DEF Init
  <1>3. entitled \in [Users -> [Scopes -> Row]] /\ cache \in [Users -> [CacheKeys -> Entry]]
    BY <1>1 DEF Init
  <1>4. req \in [Requests -> Request]
    BY IdleOK DEF Init
  <1>5. wrong \in [Users -> [Questions -> Nat]] /\ settings \in Users \union {None}
          /\ now \in Nat /\ begun \in Nat /\ changes \in Nat
    BY DEF Init
  <1>6. HandlersOK
    BY IdleOK DEF Init, HandlersOK
  <1>7. \A u \in Users, k \in CacheKeys : cache[u][k] = NoEntry
    BY DEF Init
  <1>8. TtlKept
    <2> SUFFICES ASSUME NEW u \in Users, NEW k \in CacheKeys
                 PROVE  cache[u][k].expires <= now + Ttl(k, cache[u][k].allowed)
      BY DEF TtlKept
    <2>1. cache[u][k] \in Entry /\ cache[u][k].expires = 0
      BY <1>1, <1>7
    <2>2. Ttl(k, cache[u][k].allowed) \in Nat
      BY <2>1, TtlOfKey DEF CacheKeys, Entry
    <2>3. QED
      BY <1>5, <2>1, <2>2
  <1>9. StaleAnswersExpire
    <2>1. \A q \in Questions : KeyOf(q) \in CacheKeys
      BY TtlOfKey
    <2>2. QED
      BY <1>1, <1>5, <1>7, <2>1 DEF StaleAnswersExpire, Live
  <1>10. QED
    BY <1>2, <1>3, <1>4, <1>5, <1>6, <1>8, <1>9 DEF IInv, TypeOK

(* Every step keeps the invariant. *)
LEMMA NextInv == IInv /\ [Next]_vars => IInv'
  <1> SUFFICES ASSUME IInv, [Next]_vars PROVE IInv'
    OBVIOUS
  <1>1. CASE UNCHANGED vars
    <2>1. UNCHANGED <<direct, grouped, entitled, cache, now, req, begun, settings, changes, wrong>>
      BY <1>1 DEF vars
    <2>2. \A u, x : Due(u, x)' = Due(u, x)
      BY <2>1 DEF Due
    <2>3. TypeOK'
      BY <2>1 DEF IInv, TypeOK
    <2>4. HandlersOK'
      BY <2>1, <2>2 DEF IInv, HandlersOK, RequestOK, FreshOK, BackedOK, Administering
    <2>5. TtlKept' /\ StaleAnswersExpire'
      BY <2>1, <2>2 DEF IInv, TtlKept, StaleAnswersExpire, Live, Ttl
    <2>6. QED
      BY <2>3, <2>4, <2>5 DEF IInv
  <1>2. CASE \E r \in Requests, u \in Clients :
                \/ \E x \in Asked : Check(r, u, x)
                \/ \E v \in Users, x \in Asked : CheckOther(r, u, v, x)
                \/ \E goal \in {"config", "export"} : Administer(r, u, goal)
                \/ Purge(r, u)
    BY <1>2, BeginSteps
  <1>3. CASE \E r \in Requests :
                \/ CacheHit(r) \/ ReadDirect(r) \/ ReadGroup(r) \/ ReadEntitlement(r)
                \/ CacheSet(r) \/ CacheSetFails(r) \/ Scan(r) \/ Delete(r) \/ Act(r) \/ Abort(r)
    BY <1>3, CacheHitStep, ReadPermissionSteps, ReadEntitlementStep, CacheSetStep, PlainSteps,
       DeleteStep
  <1>4. CASE \/ \E u \in Users, p \in Grantable, where \in {"direct", "group", "nowhere"} :
                   Place(u, p, where)
             \/ \E u \in Users, s \in Scopes, row \in NewRows : Entitle(u, s, row)
             \/ Tick
    BY <1>4, ChangeSteps
  <1>5. QED
    BY <1>1, <1>2, <1>3, <1>4 DEF Next

(* The inductive invariant holds of every behaviour. *)
THEOREM Invariance == Spec => []IInv
  BY InitInv, NextInv, PTL DEF Spec

(* Tables, decisions and handlers keep their shape. *)
THEOREM TypeCorrect == Spec => []TypeOK
  <1>1. IInv => TypeOK
    BY DEF IInv
  <1>2. QED
    BY <1>1, Invariance, PTL

(* A wrong decision in the cache (RedisRBACCache) expires within its own     *)
(* time to live of the moment it became wrong, however many checks and       *)
(* purges race the change of a role.                                         *)
THEOREM StalenessIsBounded == Spec => []StaleAnswersExpire
  <1>1. IInv => StaleAnswersExpire
    BY DEF IInv
  <1>2. QED
    BY <1>1, Invariance, PTL

(* No administrator's request acts on a permission that was neither due at   *)
(* some moment since it was asked for nor cached and within its time         *)
(* (assertAdminPermission).                                                  *)
THEOREM AdministratorsAreBacked == Spec => []AdminActsBacked
  <1>1. IInv => AdminActsBacked
    <2> SUFFICES ASSUME IInv, NEW r \in Requests, req[r].at = "act"
                 PROVE  req[r].held \/ req[r].excused
      BY DEF AdminActsBacked
    <2>1. BackedOK(req[r]) /\ RequestOK(req[r])
      BY DEF IInv, HandlersOK
    <2>2. QED
      BY <2>1 DEF BackedOK, RequestOK
  <1>2. QED
    BY <1>1, Invariance, PTL

=============================================================================
