--------------------------- MODULE AccountsProofs ---------------------------
(****************************************************************************)
(* Two results about one account.  Attempts at a password that run at once  *)
(* are bounded: the count alone is not inductive, for what can still be     *)
(* added to it are the attempts that have passed the throttle and are not   *)
(* compared yet.  And the refresh tokens that are stored are the cookies of *)
(* the browsers, once no request is under way.                              *)
(****************************************************************************)
EXTENDS Application, FiniteSetTheorems, TLAPS

Comparing == {t \in Tabs : tab[t].pc = "compare"}

TabPcs == {"idle", "insert", "compare", "find", "rotate", "issue", "revoke", "answer"}
TabKinds == {"", "register", "login", "guess", "refresh", "logout"}

TabsTyped ==
  /\ tab \in [Tabs -> [pc : TabPcs, for : TabKinds, token : Nat]]
  /\ cookie \in [Browsers -> Nat] /\ now \in Nat
ThrottleTyped == throttle \in [failures : Nat, over : BOOLEAN]

FailuresInv ==
  /\ TabsTyped /\ ThrottleTyped
  /\ throttle.failures + Cardinality(Comparing) < MaxFailures + Cardinality(Tabs)

LEMMA TabsFinite == IsFiniteSet(Tabs) /\ Cardinality(Tabs) \in Nat
  BY AccountsAssumption, FS_AddElement, FS_CardinalityType DEF Tabs

LEMMA HomeIsBrowser == \A t \in Tabs : Home(t) \in Browsers
<1>1. (CHOOSE b \in Browsers : TRUE) \in Browsers
  BY AccountsAssumption
<1> QED
  BY <1>1 DEF Tabs, Home

LEMMA ComparingFinite ==
  /\ IsFiniteSet(Comparing) /\ Cardinality(Comparing) \in Nat
  /\ Cardinality(Comparing) <= Cardinality(Tabs)
<1>1. Comparing \subseteq Tabs
  BY DEF Comparing
<1> QED
  BY <1>1, TabsFinite, FS_Subset, FS_CardinalityType

LEMMA ComparingFiniteNext ==
  /\ IsFiniteSet(Comparing') /\ Cardinality(Comparing') \in Nat
  /\ Cardinality(Comparing') <= Cardinality(Tabs)
<1>1. Comparing' \subseteq Tabs
  BY DEF Comparing
<1> QED
  BY <1>1, TabsFinite, FS_Subset, FS_CardinalityType

\* What takes nobody past the throttle and records no failure keeps the bound.
LEMMA FewerCompare ==
  ASSUME FailuresInv, Comparing' \subseteq Comparing, throttle'.failures \in Nat,
         throttle'.failures <= throttle.failures
  PROVE  throttle'.failures + Cardinality(Comparing') < MaxFailures + Cardinality(Tabs)
<1>1. Cardinality(Comparing') <= Cardinality(Comparing)
  BY ComparingFinite, FS_Subset
<1> QED
  BY <1>1, ComparingFinite, ComparingFiniteNext, TabsFinite, AccountsAssumption DEF FailuresInv, ThrottleTyped

LEMMA FailuresInit == AccountsInit => FailuresInv
<1> SUFFICES ASSUME AccountsInit PROVE FailuresInv
  OBVIOUS
<1>1. TabsTyped
  BY DEF AccountsInit, TabsTyped, Resting, TabPcs, TabKinds
<1>2. Comparing = {}
  BY DEF AccountsInit, Comparing, Resting
<1>3. Cardinality(Comparing) = 0 /\ Cardinality(Tabs) \in Nat
  BY <1>2, FS_EmptySet, TabsFinite
<1>4. ThrottleTyped /\ throttle.failures = 0
  BY DEF AccountsInit, ThrottleTyped, NoFailures
<1> QED
  BY <1>1, <1>3, <1>4, AccountsAssumption DEF FailuresInv

-----------------------------------------------------------------------------
(* What a request does to its own row *)

LEMMA GoesTyped ==
  ASSUME TabsTyped, NEW t \in Tabs, NEW pc \in TabPcs \ {"compare"}, NEW token \in Nat,
         TabGoes(t, pc, token)
  PROVE  /\ tab' \in [Tabs -> [pc : TabPcs, for : TabKinds, token : Nat]]
         /\ Comparing' = Comparing \ {t}
<1>1. tab[t] \in [pc : TabPcs, for : TabKinds, token : Nat]
  BY DEF TabsTyped
<1>2. [[tab[t] EXCEPT !.pc = pc] EXCEPT !.token = token] \in [pc : TabPcs, for : TabKinds, token : Nat]
  BY <1>1
<1>3. [[tab[t] EXCEPT !.pc = pc] EXCEPT !.token = token].pc = pc
  BY <1>1
<1>4. tab' = [tab EXCEPT ![t] = [[tab[t] EXCEPT !.pc = pc] EXCEPT !.token = token]]
  BY DEF TabsTyped, TabGoes
<1> QED
  BY <1>2, <1>3, <1>4 DEF TabsTyped, Comparing

LEMMA FinishesTyped ==
  ASSUME TabsTyped, NEW t \in Tabs, TabEnds(t)
  PROVE  /\ tab' \in [Tabs -> [pc : TabPcs, for : TabKinds, token : Nat]]
         /\ Comparing' = Comparing \ {t}
  BY DEF TabsTyped, TabEnds, Resting, TabPcs, TabKinds, Comparing

LEMMA BeginsTyped ==
  ASSUME TabsTyped, NEW t \in Tabs, NEW pc \in TabPcs, NEW for \in TabKinds, Asks(t, pc, for)
  PROVE  /\ tab' \in [Tabs -> [pc : TabPcs, for : TabKinds, token : Nat]]
         /\ pc # "compare" => Comparing' = Comparing
<1>1. cookie[Home(t)] \in Nat
  BY HomeIsBrowser DEF TabsTyped
<1>2. tab[t].pc = "idle" /\ tab' = [tab EXCEPT ![t] = [pc |-> pc, for |-> for, token |-> cookie[Home(t)]]]
  BY DEF Asks
<1> QED
  BY <1>1, <1>2 DEF TabsTyped, Comparing

-----------------------------------------------------------------------------
(* The requests *)

\* An attempt passes the throttle of an account that is not locked.
LEMMA LoginBounded ==
  ASSUME FailuresInv, NEW t \in Tabs, NEW right \in BOOLEAN, Login(t, right)
  PROVE  FailuresInv'
<1>1. TabsTyped'
  BY BeginsTyped DEF FailuresInv, TabsTyped, Login, TabPcs, TabKinds
<1>2. ThrottleTyped' /\ throttle'.failures < MaxFailures
  <2>1. CASE throttle.over
    BY <2>1, AccountsAssumption DEF Login, NoFailures, ThrottleTyped
  <2>2. CASE ~throttle.over
    BY <2>2, AccountsAssumption DEF FailuresInv, Login, IsLocked, ThrottleTyped
  <2> QED
    BY <2>1, <2>2
<1>3. throttle'.failures + Cardinality(Comparing') < MaxFailures + Cardinality(Tabs)
  BY <1>2, ComparingFiniteNext, TabsFinite, AccountsAssumption DEF ThrottleTyped
<1> QED
  BY <1>1, <1>2, <1>3 DEF FailuresInv

\* A failure takes one attempt away and adds one to the count.
LEMMA CompareBounded ==
  ASSUME FailuresInv, NEW t \in Tabs, ComparePassword(t)
  PROVE  FailuresInv'
<1>1. TabsTyped' /\ Comparing' = Comparing \ {t}
  <2>1. TabGoes(t, "issue", 0) \/ TabEnds(t)
    BY DEF ComparePassword
  <2>2. UNCHANGED <<cookie, now>>
    BY DEF ComparePassword
  <2> QED
    BY <2>1, <2>2, GoesTyped, FinishesTyped DEF FailuresInv, TabsTyped, TabPcs
<1>2. t \in Comparing
  BY DEF ComparePassword, Comparing
<1>3. Cardinality(Comparing') = Cardinality(Comparing) - 1
  BY <1>1, <1>2, ComparingFinite, FS_RemoveElement
<1>4. ThrottleTyped' /\ throttle'.failures <= throttle.failures + 1
  <2>1. throttle \in [failures : Nat, over : BOOLEAN]
    BY DEF FailuresInv, ThrottleTyped
  <2>2. throttle' \in {throttle, [failures |-> throttle.failures + 1, over |-> FALSE]}
    BY DEF ComparePassword
  <2>3. CASE throttle' = throttle
    BY <2>1, <2>3 DEF ThrottleTyped
  <2>4. CASE throttle' = [failures |-> throttle.failures + 1, over |-> FALSE]
    BY <2>1, <2>4 DEF ThrottleTyped
  <2> QED
    BY <2>2, <2>3, <2>4
<1>5. throttle'.failures + Cardinality(Comparing') < MaxFailures + Cardinality(Tabs)
  BY <1>3, <1>4, ComparingFinite, TabsFinite, AccountsAssumption DEF FailuresInv, ThrottleTyped
<1> QED
  BY <1>1, <1>4, <1>5 DEF FailuresInv

\* The other requests.
LEMMA RequestBounded ==
  ASSUME FailuresInv, NEW t \in Tabs,
         \/ Register(t) \/ InsertUser(t) \/ IssueToken(t) \/ FindToken(t)
         \/ DeleteToken(t) \/ Answer(t) \/ Refresh(t) \/ Logout(t)
  PROVE  FailuresInv'
<1>1. tab[t].token \in Nat /\ now \in Nat /\ Home(t) \in Browsers /\ 0 \in Nat
  BY HomeIsBrowser DEF FailuresInv, TabsTyped
<1>2. tab' \in [Tabs -> [pc : TabPcs, for : TabKinds, token : Nat]] /\ Comparing' \subseteq Comparing
  <2>1. CASE Register(t) \/ Refresh(t) \/ Logout(t)
    BY <2>1, BeginsTyped DEF FailuresInv, Register, Refresh, Logout, TabPcs, TabKinds
  <2>2. CASE InsertUser(t)
    BY <2>2, GoesTyped, FinishesTyped DEF FailuresInv, InsertUser, TabPcs
  <2>3. CASE IssueToken(t)
    BY <1>1, <2>3, GoesTyped, FinishesTyped DEF FailuresInv, IssueToken, TabPcs
  <2>4. CASE FindToken(t)
    BY <1>1, <2>4, GoesTyped DEF FailuresInv, FindToken, TabPcs
  <2>5. CASE DeleteToken(t)
    BY <2>5, GoesTyped DEF FailuresInv, DeleteToken, TabPcs
  <2>6. CASE Answer(t)
    BY <2>6, FinishesTyped DEF FailuresInv, Answer
  <2> QED
    BY <2>1, <2>2, <2>3, <2>4, <2>5, <2>6
<1>3. cookie' \in [Browsers -> Nat] /\ now' = now
  BY <1>1 DEF FailuresInv, TabsTyped, Register, InsertUser, IssueToken, FindToken, DeleteToken, Answer, Refresh, Logout
<1>4. throttle' \in {throttle, NoFailures}
  BY DEF Register, InsertUser, IssueToken, FindToken, DeleteToken, Answer, Refresh, Logout
<1>5. ThrottleTyped' /\ throttle'.failures <= throttle.failures
  <2>1. throttle \in [failures : Nat, over : BOOLEAN]
    BY DEF FailuresInv, ThrottleTyped
  <2>2. CASE throttle' = throttle
    BY <2>1, <2>2 DEF ThrottleTyped
  <2>3. CASE throttle' = NoFailures
    BY <2>1, <2>3 DEF ThrottleTyped, NoFailures
  <2> QED
    BY <1>4, <2>2, <2>3
<1> QED
  BY <1>1, <1>2, <1>3, <1>5, FewerCompare DEF FailuresInv, TabsTyped, ThrottleTyped

LEMMA TimeBounded ==
  ASSUME FailuresInv, SecondPasses \/ LockoutEnds \/ Cleanup
  PROVE  FailuresInv'
<1>1. throttle' \in {throttle, NoFailures, [throttle EXCEPT !.over = TRUE]}
  BY DEF SecondPasses, LockoutEnds, Cleanup
<1>2. ThrottleTyped' /\ throttle'.failures <= throttle.failures
  <2>1. throttle \in [failures : Nat, over : BOOLEAN]
    BY DEF FailuresInv, ThrottleTyped
  <2>2. CASE throttle' = throttle
    BY <2>1, <2>2 DEF ThrottleTyped
  <2>3. CASE throttle' = NoFailures
    BY <2>1, <2>3 DEF ThrottleTyped, NoFailures
  <2>4. CASE throttle' = [throttle EXCEPT !.over = TRUE]
    <3>1. throttle'.failures = throttle.failures
      BY <2>1, <2>4
    <3>2. throttle' \in [failures : Nat, over : BOOLEAN]
      BY <2>1, <2>4
    <3> QED
      BY <2>1, <3>1, <3>2 DEF ThrottleTyped
  <2> QED
    BY <1>1, <2>2, <2>3, <2>4
<1>3. UNCHANGED <<tab, cookie>> /\ now' \in {now, now + 1}
  BY DEF SecondPasses, LockoutEnds, Cleanup
<1>4. Comparing' = Comparing
  BY <1>3 DEF Comparing
<1> QED
  BY <1>2, <1>3, <1>4, FewerCompare DEF FailuresInv, TabsTyped, ThrottleTyped

LEMMA AccountsStep == FailuresInv /\ [AccountsNext({"session", "guess"})]_accounts => FailuresInv'
<1> SUFFICES ASSUME FailuresInv, [AccountsNext({"session", "guess"})]_accounts PROVE FailuresInv'
  OBVIOUS
<1>1. CASE UNCHANGED accounts
  BY <1>1 DEF FailuresInv, TabsTyped, ThrottleTyped, Comparing, accounts
<1>2. CASE AccountsNext({"session", "guess"})
  BY <1>2, LoginBounded, CompareBounded, RequestBounded, TimeBounded DEF AccountsNext
<1> QED
  BY <1>1, <1>2

\* Of the areas, one or the other kind of requests moves an account.
LEMMA AccountsMove == [AppNext]_app => [AccountsNext({"session", "guess"})]_accounts
  BY DEF AppNext, app, AccountsNext

\* However many attempts at a password run at once, in as many tabs as there
\* are, the throttle lets no more of them fail than one each beyond its limit
\* (LoginThrottle.IsLocked, RecordFailure; AuthService.Login).
THEOREM FailuresBounded == AppSpec => []FailuresAreBounded
<1>1. AppInit => FailuresInv
  BY FailuresInit DEF AppInit
<1>2. FailuresInv /\ [AppNext]_app => FailuresInv'
  BY AccountsMove, AccountsStep
<1>3. FailuresInv => FailuresAreBounded
  BY ComparingFinite, TabsFinite, AccountsAssumption DEF FailuresInv, ThrottleTyped, FailuresAreBounded
<1> QED
  BY <1>1, <1>2, <1>3, PTL DEF AppSpec

-----------------------------------------------------------------------------
(* Tokens and cookies agree.  While no request is under way this is about   *)
(* cookies alone; in between, each stored token is held for one browser: it *)
(* is its cookie, until a request deletes the row, or the token that a      *)
(* request has inserted and answers with.                                   *)

Of(b) == {t \in Tabs : Home(t) = b}

HeldFor(b, x) ==
  /\ x # 0
  /\ \/ \E t \in Of(b) : tab[t].pc = "answer" /\ tab[t].token = x
     \/ (\A t \in Of(b) : tab[t].pc \notin {"issue", "answer"}) /\ cookie[b] = x

\* The row of a request fits the cookie of its browser.
Fits(row, k) ==
  /\ row.pc \in {"find", "rotate", "revoke"} => row.token = k
  /\ row.pc \in {"insert", "compare"} => k = 0
  /\ row.pc = "issue" /\ row.for # "refresh" => k = 0
  /\ row.pc \in {"find", "rotate"} => row.for = "refresh"
  /\ ~registered => row.pc \in {"idle", "insert"} /\ k = 0

OneAtATime ==
  \A t, u \in Tabs : Home(t) = Home(u) /\ tab[t].pc # "idle" /\ tab[u].pc # "idle" => t = u

TokensHeld ==
  /\ \A x \in tokens : \E b \in Browsers : HeldFor(b, x)
  /\ \A b \in Browsers, x \in Nat : HeldFor(b, x) => x \in tokens
  /\ \A b, c \in Browsers, x \in Nat : HeldFor(b, x) /\ HeldFor(c, x) => b = c

SessionsInv ==
  /\ TabsTyped /\ now # 0 /\ tokens \subseteq Nat /\ mixed \in BOOLEAN
  /\ ~mixed => /\ OneAtATime /\ TokensHeld
               /\ \A t \in Tabs : Fits(tab[t], cookie[Home(t)])

\* What a request holds for its browser, alone there.
Own(row, k, x) == x # 0 /\ (IF row.pc = "answer" THEN x = row.token ELSE row.pc # "issue" /\ x = k)

Alone(t) == \A u \in Tabs \ {t} : Home(u) = Home(t) => tab[u].pc = "idle"

LEMMA OwnIsHeld ==
  ASSUME NEW t \in Tabs, Alone(t), NEW x \in Nat
  PROVE  HeldFor(Home(t), x) <=> Own(tab[t], cookie[Home(t)], x)
<1>1. t \in Of(Home(t)) /\ \A u \in Of(Home(t)) \ {t} : tab[u].pc = "idle"
  BY DEF Alone, Of
<1> QED
  BY <1>1 DEF HeldFor, Own

\* A request moves on, alone in its browser: nothing changes for the others,
\* and the tokens change with what it holds.
LEMMA RequestMoves ==
  ASSUME SessionsInv, ~mixed, NEW t \in Tabs, Alone(t), mixed' = mixed,
         NEW row \in [pc : TabPcs, for : TabKinds, token : Nat], NEW k \in Nat,
         tab' = [tab EXCEPT ![t] = row], cookie' = [cookie EXCEPT ![Home(t)] = k],
         now' = now, tokens' \subseteq Nat,
         registered => registered',
         Fits(row, k)',
         \A x \in Nat : x \in tokens' <=> (x \in tokens /\ ~Own(tab[t], cookie[Home(t)], x)) \/ Own(row, k, x),
         \A x \in Nat : Own(row, k, x) /\ x \in tokens => Own(tab[t], cookie[Home(t)], x)
  PROVE  SessionsInv'
<1> DEFINE b == Home(t)
<1>1. b \in Browsers /\ tab'[t] = row /\ cookie'[b] = k
  BY HomeIsBrowser DEF SessionsInv, TabsTyped
<1>2. (\A u \in Tabs \ {t} : tab'[u] = tab[u]) /\ (\A c \in Browsers \ {b} : cookie'[c] = cookie[c])
  BY DEF SessionsInv, TabsTyped
<1>3. TabsTyped'
  BY <1>1 DEF SessionsInv, TabsTyped
<1>4. Alone(t)'
  BY <1>2 DEF Alone
<1>5. OneAtATime'
  BY <1>2, <1>4 DEF SessionsInv, OneAtATime, Alone
<1>6. \A x \in Nat : HeldFor(b, x) <=> Own(tab[t], cookie[b], x)
  BY OwnIsHeld
<1>7. \A x \in Nat : HeldFor(b, x)' <=> Own(row, k, x)
  <2>1. t \in Of(b) /\ \A u \in Of(b) \ {t} : tab'[u].pc = "idle"
    BY <1>4 DEF Alone, Of
  <2> QED
    BY <1>1, <2>1 DEF HeldFor, Own
<1>8. \A c \in Browsers \ {b}, x \in Nat : HeldFor(c, x)' <=> HeldFor(c, x)
  <2> SUFFICES ASSUME NEW c \in Browsers \ {b}, NEW x \in Nat PROVE HeldFor(c, x)' <=> HeldFor(c, x)
    OBVIOUS
  <2>1. cookie'[c] = cookie[c] /\ \A u \in Of(c) : tab'[u] = tab[u]
    BY <1>2 DEF Of
  <2> QED
    BY <2>1 DEF HeldFor
<1>9. TokensHeld
  BY DEF SessionsInv
<1>10. TokensHeld'
  <2>1. ASSUME NEW x \in tokens' PROVE \E c \in Browsers : HeldFor(c, x)'
    <3>1. x \in Nat
      OBVIOUS
    <3>2. CASE Own(row, k, x)
      BY <1>1, <1>7, <3>1, <3>2
    <3>3. CASE x \in tokens /\ ~Own(tab[t], cookie[b], x)
      <4>1. PICK c \in Browsers : HeldFor(c, x)
        BY <1>9, <3>3 DEF TokensHeld
      <4>2. c # b
        BY <1>6, <3>1, <3>3, <4>1
      <4> QED
        BY <1>8, <3>1, <4>1, <4>2
    <3> QED
      BY <3>1, <3>2, <3>3
  <2>2. ASSUME NEW c \in Browsers, NEW x \in Nat, HeldFor(c, x)' PROVE x \in tokens'
    <3>1. CASE c = b
      BY <1>7, <2>2, <3>1
    <3>2. CASE c # b
      <4>1. HeldFor(c, x) /\ x \in tokens
        BY <1>8, <1>9, <2>2, <3>2 DEF TokensHeld
      <4>2. ~HeldFor(b, x)
        BY <1>1, <1>9, <3>2, <4>1 DEF TokensHeld
      <4> QED
        BY <1>6, <4>1, <4>2
    <3> QED
      BY <3>1, <3>2
  <2>3. ASSUME NEW c \in Browsers \ {b}, NEW x \in Nat, HeldFor(c, x)', HeldFor(b, x)' PROVE FALSE
    <3>1. HeldFor(c, x) /\ x \in tokens
      BY <1>8, <1>9, <2>3 DEF TokensHeld
    <3>2. HeldFor(b, x)
      BY <1>6, <1>7, <2>3, <3>1
    <3> QED
      BY <1>1, <1>9, <3>1, <3>2 DEF TokensHeld
  <2>4. ASSUME NEW c \in Browsers, NEW d \in Browsers, NEW x \in Nat, HeldFor(c, x)', HeldFor(d, x)' PROVE c = d
    <3>1. CASE c # b /\ d # b
      BY <1>8, <1>9, <2>4, <3>1 DEF TokensHeld
    <3> QED
      BY <2>3, <2>4, <3>1
  <2> QED
    BY <2>1, <2>2, <2>4 DEF TokensHeld
<1>11. ASSUME NEW u \in Tabs PROVE Fits(tab[u], cookie[Home(u)])'
  <2>1. CASE u = t
    BY <1>1, <2>1
  <2>2. CASE u # t /\ Home(u) = b
    <3>1. tab'[u].pc = "idle" /\ cookie'[Home(u)] = k
      BY <1>1, <1>4, <2>2 DEF Alone
    <3>2. ~registered' => k = 0
      BY DEF Fits
    <3> QED
      BY <3>1, <3>2 DEF Fits
  <2>3. CASE Home(u) # b
    <3>1. tab'[u] = tab[u] /\ cookie'[Home(u)] = cookie[Home(u)]
      BY <1>2, <2>3, HomeIsBrowser
    <3>2. Fits(tab[u], cookie[Home(u)]) /\ (~registered' => ~registered)
      BY DEF SessionsInv
    <3> QED
      BY <3>1, <3>2 DEF Fits
  <2> QED
    BY <2>1, <2>2, <2>3
<1> QED
  BY <1>3, <1>5, <1>10, <1>11 DEF SessionsInv

LEMMA SessionsInit == AccountsInit => SessionsInv
<1> SUFFICES ASSUME AccountsInit PROVE SessionsInv
  OBVIOUS
<1>1. tokens = {} /\ (\A t \in Tabs : tab[t] = Resting) /\ (\A b \in Browsers : cookie[b] = 0)
  BY DEF AccountsInit
<1>2. TabsTyped /\ now # 0 /\ tokens \subseteq Nat /\ mixed \in BOOLEAN
  <2>1. TabsTyped
    BY DEF AccountsInit, TabsTyped, Resting, TabPcs, TabKinds
  <2>2. now # 0 /\ tokens \subseteq Nat
    BY DEF AccountsInit
  <2>3. mixed \in BOOLEAN
    BY Zenon DEF AccountsInit
  <2> QED
    BY <2>1, <2>2, <2>3
<1>3. \A t \in Tabs : tab[t].pc = "idle"
  <2>1. Resting.pc = "idle"
    BY DEF Resting
  <2> QED
    BY <1>1, <2>1
<1>4. \A b \in Browsers, x \in Nat : ~HeldFor(b, x)
  BY <1>1, <1>3 DEF HeldFor, Of
<1>5. TokensHeld
  BY <1>1, <1>4 DEF TokensHeld
<1>6. OneAtATime
  BY <1>3 DEF OneAtATime
<1>7. \A t \in Tabs : Fits(tab[t], cookie[Home(t)])
  BY <1>1, <1>3, HomeIsBrowser DEF Fits
<1> QED
  BY <1>2, <1>5, <1>6, <1>7 DEF SessionsInv

LEMMA ActiveIsAlone ==
  ASSUME SessionsInv, ~mixed, NEW t \in Tabs, tab[t].pc # "idle"
  PROVE  Alone(t)
  BY DEF SessionsInv, OneAtATime, Alone

\* The rows that requests go to, as records.
LEMMA GoesTo ==
  ASSUME TabsTyped, NEW t \in Tabs, NEW pc, NEW token, TabGoes(t, pc, token)
  PROVE  tab' = [tab EXCEPT ![t] = [pc |-> pc, for |-> tab[t].for, token |-> token]]
<1>1. tab[t] \in [pc : TabPcs, for : TabKinds, token : Nat]
  BY DEF TabsTyped
<1>2. [[tab[t] EXCEPT !.pc = pc] EXCEPT !.token = token] = [pc |-> pc, for |-> tab[t].for, token |-> token]
  <2>1. [tab[t] EXCEPT !.pc = pc] = [pc |-> pc, for |-> tab[t].for, token |-> tab[t].token]
    BY <1>1
  <2>2. \A f, n : [[pc |-> pc, for |-> f, token |-> n] EXCEPT !.token = token] = [pc |-> pc, for |-> f, token |-> token]
    OBVIOUS
  <2> QED
    BY <2>1, <2>2
<1>3. tab' = [tab EXCEPT ![t] = [[tab[t] EXCEPT !.pc = pc] EXCEPT !.token = token]]
  BY DEF TabsTyped, TabGoes
<1> QED
  BY <1>2, <1>3

\* A request begins, with the cookie it has read.
LEMMA AsksAgree ==
  ASSUME SessionsInv, NEW t \in Tabs, Register(t) \/ Login(t, TRUE) \/ Login(t, FALSE) \/ Refresh(t) \/ Logout(t)
  PROVE  SessionsInv'
<1>1. PICK pc \in {"insert", "compare", "find", "revoke"}, for \in TabKinds :
        /\ Asks(t, pc, for)
        /\ pc = "insert" => ~registered
        /\ pc = "compare" => registered /\ cookie[Home(t)] = 0
        /\ pc \in {"find", "revoke"} => cookie[Home(t)] # 0
        /\ pc = "find" => for = "refresh"
  BY DEF Register, Login, Refresh, Logout, TabKinds
<1>2. UNCHANGED <<now, registered, tokens, cookie>>
  BY DEF Register, Login, Refresh, Logout
<1>3. PICK k : k = cookie[Home(t)]
  OBVIOUS
<1>4. PICK row : row = [pc |-> pc, for |-> for, token |-> k]
  OBVIOUS
<1>5. k \in Nat /\ tab[t].pc = "idle" /\ tab' = [tab EXCEPT ![t] = row]
  BY <1>1, <1>3, <1>4, HomeIsBrowser DEF Asks, SessionsInv, TabsTyped
<1>6. row \in [pc : TabPcs, for : TabKinds, token : Nat] /\ row.pc = pc /\ row.token = k /\ row.for = for
  BY <1>5, <1>4 DEF TabPcs
<1>7. TabsTyped'
  BY <1>2, <1>5, <1>6 DEF SessionsInv, TabsTyped
<1>8. mixed' \in BOOLEAN /\ (~mixed' => ~mixed /\ Alone(t))
  BY <1>1 DEF Asks, Alone, SessionsInv
<1>9. CASE mixed'
  BY <1>2, <1>7, <1>8, <1>9 DEF SessionsInv
<1>10. CASE ~mixed'
  <2>1. ~mixed /\ Alone(t) /\ mixed' = mixed
    BY <1>8, <1>10 DEF SessionsInv
  <2>2. cookie' = [cookie EXCEPT ![Home(t)] = k]
    BY <1>2, <1>3, HomeIsBrowser DEF SessionsInv, TabsTyped
  <2>3. Fits(tab[t], k)
    BY <1>3, <2>1 DEF SessionsInv
  <2>4. Fits(row, k)'
    <3>1. registered' = registered /\ (~registered => k = 0 /\ row.pc = "insert") /\ (row.pc = "insert" => k = 0)
      BY <1>1, <1>2, <1>6, <1>3, <2>3 DEF Fits
    <3> QED
      BY <1>1, <1>6, <1>3, <3>1 DEF Fits
  <2>5. \A x \in Nat : Own(row, k, x) <=> Own(tab[t], k, x)
    BY <1>5, <1>6 DEF Own
  <2>6. \A x \in Nat : HeldFor(Home(t), x) <=> Own(tab[t], k, x)
    BY <1>3, <2>1, OwnIsHeld
  <2>7. \A x \in Nat : Own(tab[t], k, x) => x \in tokens
    BY <2>1, <2>6, HomeIsBrowser DEF SessionsInv, TokensHeld
  <2>8. tokens' \subseteq Nat
    BY <1>2 DEF SessionsInv
  <2>9. /\ \A x \in Nat : x \in tokens' <=> (x \in tokens /\ ~Own(tab[t], k, x)) \/ Own(row, k, x)
        /\ \A x \in Nat : Own(row, k, x) /\ x \in tokens => Own(tab[t], k, x)
    BY <1>2, <2>5, <2>7
  <2>10. row \in [pc : TabPcs, for : TabKinds, token : Nat] /\ k \in Nat /\ tab' = [tab EXCEPT ![t] = row]
         /\ now' = now /\ (registered => registered')
    BY <1>2, <1>5, <1>6
  <2> QED
    BY <1>3, <2>1, <2>2, <2>4, <2>8, <2>9, <2>10, RequestMoves
<1> QED
  BY <1>9, <1>10

\* A request of a browser moves on: its next row, cookie and tokens.
LEMMA WorksAgree ==
  ASSUME SessionsInv, NEW t \in Tabs, tab[t].pc # "idle",
         NEW row \in [pc : TabPcs, for : TabKinds, token : Nat], NEW k \in Nat,
         tab' = [tab EXCEPT ![t] = row], cookie' = [cookie EXCEPT ![Home(t)] = k],
         now' = now, tokens' \subseteq Nat, registered => registered',
         mixed' \in BOOLEAN, mixed => mixed',
         ~mixed' => Fits(row, k)'
           /\ (\A x \in Nat : x \in tokens' <=> (x \in tokens /\ ~Own(tab[t], cookie[Home(t)], x)) \/ Own(row, k, x))
           /\ (\A x \in Nat : Own(row, k, x) /\ x \in tokens => Own(tab[t], cookie[Home(t)], x))
  PROVE  SessionsInv'
<1>1. TabsTyped'
  BY HomeIsBrowser DEF SessionsInv, TabsTyped
<1>2. CASE mixed'
  BY <1>1, <1>2 DEF SessionsInv
<1>3. CASE ~mixed'
  <2>1. ~mixed /\ mixed' = mixed
    BY <1>3 DEF SessionsInv
  <2>2. Alone(t)
    BY <2>1, ActiveIsAlone
  <2> QED
    BY <1>3, <2>1, <2>2, RequestMoves
<1> QED
  BY <1>2, <1>3

\* What a request that is alone holds is stored.
LEMMA OwnIsStored ==
  ASSUME SessionsInv, ~mixed, NEW t \in Tabs, tab[t].pc # "idle", NEW x \in Nat, Own(tab[t], cookie[Home(t)], x)
  PROVE  x \in tokens
<1>1. HeldFor(Home(t), x)
  BY ActiveIsAlone, OwnIsHeld
<1> QED
  BY <1>1, HomeIsBrowser DEF SessionsInv, TokensHeld

LEMMA WorkingAgrees ==
  ASSUME SessionsInv, NEW t \in Tabs,
         InsertUser(t) \/ ComparePassword(t) \/ IssueToken(t) \/ FindToken(t) \/ DeleteToken(t) \/ Answer(t)
  PROVE  SessionsInv'
<1>1. PICK k : k = cookie[Home(t)]
  OBVIOUS
<1>2. /\ tab[t] \in [pc : TabPcs, for : TabKinds, token : Nat] /\ k \in Nat /\ now \in Nat /\ now # 0
      /\ tokens \subseteq Nat /\ mixed \in BOOLEAN
      /\ cookie = [cookie EXCEPT ![Home(t)] = k]
  BY <1>1, HomeIsBrowser DEF SessionsInv, TabsTyped
<1>3. ~mixed => Fits(tab[t], k)
  BY <1>1 DEF SessionsInv
<1>4. ~mixed /\ tab[t].pc # "idle" => \A x \in Nat : Own(tab[t], k, x) => x \in tokens
  BY <1>1, OwnIsStored
<1>5. Resting \in [pc : TabPcs, for : TabKinds, token : Nat] /\ Resting.pc = "idle" /\ Resting.token = 0
  BY DEF Resting, TabPcs, TabKinds
<1>6. \A pc \in TabPcs, n \in Nat : LET row == [pc |-> pc, for |-> tab[t].for, token |-> n] IN
        /\ row \in [pc : TabPcs, for : TabKinds, token : Nat]
        /\ row.pc = pc /\ row.for = tab[t].for /\ row.token = n
  BY <1>2
<1>7. TabsTyped
  BY DEF SessionsInv
<1>8. {"idle", "insert", "compare", "find", "rotate", "issue", "revoke", "answer"} \subseteq TabPcs /\ 0 \in Nat
  BY DEF TabPcs
\* A request that ends or goes to "issue" without a token.
<1>9. CASE InsertUser(t) \/ ComparePassword(t)
  <2>1. tab[t].pc \in {"insert", "compare"} /\ UNCHANGED <<now, tokens, cookie, mixed>> /\ (registered => registered')
    BY <1>9 DEF InsertUser, ComparePassword
  <2>2. (~mixed => k = 0) /\ (~registered' => tab[t].pc = "compare" /\ ~registered)
    BY <1>3, <1>9, <2>1 DEF Fits, InsertUser, ComparePassword
  <2>3. ~mixed => registered'
    BY <1>3, <2>2 DEF Fits
  <2>4. PICK row \in {Resting, [pc |-> "issue", for |-> tab[t].for, token |-> 0]} : tab' = [tab EXCEPT ![t] = row]
    BY <1>7, <1>9, GoesTo DEF InsertUser, ComparePassword, TabEnds
  <2>5. row \in [pc : TabPcs, for : TabKinds, token : Nat] /\ row.pc \in {"idle", "issue"}
    BY <1>5, <1>6, <1>8, <2>4
  <2>6. ~mixed => Fits(row, k)'
    BY <2>2, <2>3, <2>5, <2>1 DEF Fits
  <2>7. ~mixed => \A x \in Nat : ~Own(row, k, x) /\ ~Own(tab[t], k, x)
    BY <2>1, <2>2, <2>5 DEF Own
  <2> QED
    BY <1>2, <1>1, <2>1, <2>4, <2>5, <2>6, <2>7, WorksAgree
<1>10. CASE IssueToken(t)
  <2>1. tab[t].pc = "issue" /\ UNCHANGED <<now, registered, cookie, mixed>>
    BY <1>10 DEF IssueToken
  <2>2. \A x \in Nat : ~Own(tab[t], k, x)
    BY <2>1 DEF Own
  <2>3. ~mixed => registered
    BY <1>3, <2>1 DEF Fits
  <2>4. CASE now \notin tokens
    <3>1. PICK row : row = [pc |-> "answer", for |-> tab[t].for, token |-> now]
      OBVIOUS
    <3>2. tokens' = tokens \cup {now} /\ tab' = [tab EXCEPT ![t] = row]
      BY <1>7, <1>10, <2>4, <3>1, GoesTo DEF IssueToken
    <3>3. row \in [pc : TabPcs, for : TabKinds, token : Nat] /\ row.pc = "answer" /\ row.token = now
      BY <1>2, <1>6, <1>8, <3>1
    <3>4. ~mixed => Fits(row, k)'
      BY <2>1, <2>3, <3>3 DEF Fits
    <3>5. \A x \in Nat : Own(row, k, x) <=> x = now
      BY <1>2, <3>3 DEF Own
    <3> QED
      BY <1>2, <1>1, <2>1, <2>2, <2>4, <3>2, <3>3, <3>4, <3>5, WorksAgree
  <2>5. CASE now \in tokens
    <3>1. PICK row \in {Resting, [pc |-> "answer", for |-> tab[t].for, token |-> 0]} :
            tab' = [tab EXCEPT ![t] = row] /\ (tab[t].for = "refresh" => row.pc = "answer")
      BY <1>6, <1>7, <1>8, <1>10, <2>5, GoesTo DEF IssueToken, TabEnds
    <3>2. row \in [pc : TabPcs, for : TabKinds, token : Nat] /\ row.pc \in {"idle", "answer"} /\ row.token = 0
      BY <1>5, <1>6, <1>8, <3>1
    <3>3. ~mixed => Fits(row, k)'
      BY <2>1, <2>3, <3>2 DEF Fits
    <3>4. ~mixed => \A x \in Nat : ~Own(row, k, x)
      BY <1>3, <2>1, <3>1, <3>2 DEF Own, Fits
    <3>5. tokens' = tokens
      BY <1>10, <2>5 DEF IssueToken
    <3> QED
      BY <1>2, <1>1, <2>1, <2>2, <3>1, <3>2, <3>3, <3>4, <3>5, WorksAgree
  <2> QED
    BY <2>4, <2>5
<1>11. CASE FindToken(t)
  <2>1. tab[t].pc = "find" /\ UNCHANGED <<now, registered, tokens, cookie, mixed>>
    BY <1>11 DEF FindToken
  <2>2. (~mixed => tab[t].token = k /\ registered /\ tab[t].for = "refresh") /\ tab[t].token \in Nat
    BY <1>2, <1>3, <2>1 DEF Fits
  <2>3. ~mixed => \A x \in Nat : Own(tab[t], k, x) <=> x = k /\ x # 0
    BY <2>1 DEF Own
  <2>4. CASE tab[t].token \in tokens
    <3>1. PICK row : row = [pc |-> "rotate", for |-> tab[t].for, token |-> tab[t].token]
      OBVIOUS
    <3>2. tab' = [tab EXCEPT ![t] = row]
      BY <1>7, <1>11, <2>4, <3>1, GoesTo DEF FindToken
    <3>3. row \in [pc : TabPcs, for : TabKinds, token : Nat] /\ row.pc = "rotate"
          /\ row.token = tab[t].token /\ row.for = tab[t].for
      BY <1>6, <1>8, <2>2, <3>1
    <3>4. ~mixed => Fits(row, k)'
      BY <2>1, <2>2, <3>3 DEF Fits
    <3>5. ~mixed => \A x \in Nat : Own(row, k, x) <=> Own(tab[t], k, x)
      BY <2>3, <3>3 DEF Own
    <3> QED
      BY <1>2, <1>1, <1>4, <2>1, <3>2, <3>3, <3>4, <3>5, WorksAgree
  <2>5. CASE tab[t].token \notin tokens
    <3>1. PICK row : row = [pc |-> "answer", for |-> tab[t].for, token |-> 0]
      OBVIOUS
    <3>2. tab' = [tab EXCEPT ![t] = row]
      BY <1>7, <1>11, <2>5, <3>1, GoesTo DEF FindToken
    <3>3. row \in [pc : TabPcs, for : TabKinds, token : Nat] /\ row.pc = "answer" /\ row.token = 0
      BY <1>6, <1>8, <3>1
    <3>4. ~mixed => Fits(row, k)'
      BY <2>1, <2>2, <3>3 DEF Fits
    <3>5. ~mixed => k = 0
      BY <1>2, <1>4, <2>1, <2>2, <2>3, <2>5
    <3>6. ~mixed => \A x \in Nat : ~Own(row, k, x) /\ ~Own(tab[t], k, x)
      BY <2>3, <3>3, <3>5 DEF Own
    <3> QED
      BY <1>2, <1>1, <2>1, <3>2, <3>3, <3>4, <3>6, WorksAgree
  <2> QED
    BY <2>4, <2>5
<1>12. CASE DeleteToken(t)
  <2>1. /\ tab[t].pc \in {"rotate", "revoke"} /\ UNCHANGED <<now, registered, cookie>>
        /\ \/ tokens' = tokens \ {tab[t].token} /\ mixed' = mixed
           \/ mixed' = TRUE /\ tokens' = tokens
    BY <1>12 DEF DeleteToken, DeleteByHash
  <2>2. ~mixed => tab[t].token = k /\ registered
    BY <1>3, <2>1 DEF Fits
  <2>3. PICK row \in {[pc |-> "issue", for |-> tab[t].for, token |-> 0], [pc |-> "answer", for |-> tab[t].for, token |-> 0]} :
          tab' = [tab EXCEPT ![t] = row] /\ row.pc = IF tab[t].pc = "rotate" THEN "issue" ELSE "answer"
    BY <1>6, <1>7, <1>8, <1>12, GoesTo DEF DeleteToken
  <2>4. row \in [pc : TabPcs, for : TabKinds, token : Nat] /\ row.pc \in {"issue", "answer"} /\ row.token = 0 /\ row.for = tab[t].for
    BY <1>6, <1>8, <2>3
  <2>5. \A x \in Nat : ~Own(row, k, x)
    BY <2>4 DEF Own
  <2>6. \A x \in Nat : Own(tab[t], k, x) <=> x # 0 /\ x = k
    BY <2>1 DEF Own
  <2>7. ~mixed => 0 \notin tokens
    BY DEF SessionsInv, TokensHeld, HeldFor
  <2>8. ~mixed => Fits(row, k)'
    BY <1>3, <2>1, <2>2, <2>3, <2>4 DEF Fits
  <2>9. CASE mixed' = TRUE /\ tokens' = tokens
    BY <1>2, <1>1, <2>1, <2>3, <2>4, <2>9, WorksAgree
  <2>10. CASE tokens' = tokens \ {tab[t].token} /\ mixed' = mixed
    <3>1. ~mixed => \A x \in Nat : x \in tokens' <=> x \in tokens /\ ~Own(tab[t], k, x)
      BY <2>2, <2>6, <2>7, <2>10
    <3> QED
      BY <1>2, <1>1, <2>1, <2>3, <2>4, <2>5, <2>8, <2>10, <3>1, WorksAgree
  <2> QED
    BY <2>1, <2>9, <2>10
<1>13. CASE Answer(t)
  <2>1. /\ tab[t].pc = "answer" /\ tab' = [tab EXCEPT ![t] = Resting]
        /\ UNCHANGED <<now, registered, tokens>>
        /\ \/ cookie' = [cookie EXCEPT ![Home(t)] = tab[t].token] /\ mixed' = mixed
           \/ mixed' = TRUE /\ cookie' = cookie
    BY <1>13 DEF Answer, TabEnds
  <2>2. ~mixed => registered
    BY <1>3, <2>1 DEF Fits
  <2>3. CASE mixed' = TRUE /\ cookie' = cookie
    BY <1>2, <1>1, <1>5, <2>1, <2>3, WorksAgree
  <2>4. CASE cookie' = [cookie EXCEPT ![Home(t)] = tab[t].token] /\ mixed' = mixed
    <3>1. PICK n \in Nat : n = tab[t].token
      BY <1>2
    <3>2. \A x \in Nat : Own(Resting, n, x) <=> Own(tab[t], k, x)
      BY <1>5, <2>1, <3>1 DEF Own
    <3>3. ~mixed => Fits(Resting, n)'
      BY <1>5, <2>1, <2>2 DEF Fits
    <3> QED
      BY <1>2, <1>1, <1>4, <1>5, <2>1, <2>4, <3>1, <3>2, <3>3, WorksAgree
  <2> QED
    BY <2>1, <2>3, <2>4
<1> QED
  BY <1>9, <1>10, <1>11, <1>12, <1>13

LEMMA TimeAgrees ==
  ASSUME SessionsInv, SecondPasses \/ LockoutEnds \/ Cleanup
  PROVE  SessionsInv'
<1>1. UNCHANGED <<tokens, cookie, tab, mixed, registered>> /\ now' \in {now, now + 1}
  BY DEF SecondPasses, LockoutEnds, Cleanup
<1>2. TabsTyped' /\ now' # 0
  BY <1>1 DEF SessionsInv, TabsTyped
<1>3. OneAtATime' = OneAtATime
  BY <1>1 DEF OneAtATime
<1>4. \A b \in Browsers, x \in Nat : HeldFor(b, x)' <=> HeldFor(b, x)
  BY <1>1 DEF HeldFor
<1>5. ~mixed => TokensHeld'
  BY <1>1, <1>4 DEF SessionsInv, TokensHeld
<1>6. ~mixed => \A t \in Tabs : Fits(tab[t], cookie[Home(t)])'
  BY <1>1 DEF SessionsInv, Fits
<1> QED
  BY <1>1, <1>2, <1>3, <1>5, <1>6 DEF SessionsInv

LEMMA SessionsStep == SessionsInv /\ [AccountsNext({"session", "guess"})]_accounts => SessionsInv'
<1> SUFFICES ASSUME SessionsInv, [AccountsNext({"session", "guess"})]_accounts PROVE SessionsInv'
  OBVIOUS
<1>1. CASE UNCHANGED accounts
  BY <1>1 DEF SessionsInv, TabsTyped, OneAtATime, TokensHeld, HeldFor, Fits, accounts
<1>2. ASSUME NEW t \in Tabs, NEW right \in BOOLEAN, Login(t, right) PROVE SessionsInv'
  BY <1>2, AsksAgree
<1>3. CASE AccountsNext({"session", "guess"})
  BY <1>2, <1>3, AsksAgree, WorkingAgrees, TimeAgrees DEF AccountsNext
<1> QED
  BY <1>1, <1>3

\* When no request is under way the stored refresh tokens are the cookies of the
\* browsers: rotation and logout leave no session behind and cut none off
\* (AuthService.RefreshTokens, Logout, issueTokens), however many browsers there
\* are and whatever they ask for at once.
THEOREM TokensAndCookiesAgree == AppSpec => []SessionsAgree
<1>1. AppInit => SessionsInv
  BY SessionsInit DEF AppInit
<1>2. SessionsInv /\ [AppNext]_app => SessionsInv'
  BY AccountsMove, SessionsStep
<1>3. SessionsInv => SessionsAgree
  <2> SUFFICES ASSUME SessionsInv, ~mixed, \A t \in Tabs : tab[t].pc = "idle"
               PROVE  {cookie[b] : b \in Browsers} \ {0} = tokens
    BY DEF SessionsAgree
  <2>1. \A b \in Browsers, x \in Nat : HeldFor(b, x) <=> x # 0 /\ cookie[b] = x
    BY DEF HeldFor, Of
  <2>2. tokens \subseteq Nat /\ \A b \in Browsers : cookie[b] \in Nat
    BY DEF SessionsInv, TabsTyped
  <2>3. \A x \in tokens : \E b \in Browsers : x # 0 /\ cookie[b] = x
    BY <2>1, <2>2 DEF SessionsInv, TokensHeld
  <2>4. \A b \in Browsers : cookie[b] # 0 => cookie[b] \in tokens
    BY <2>1, <2>2 DEF SessionsInv, TokensHeld
  <2> QED
    BY <2>3, <2>4
<1> QED
  BY <1>1, <1>2, <1>3, PTL DEF AppSpec
-----------------------------------------------------------------------------
(* Types.  A token is a second that has passed, wherever it is held. *)

TokenSeconds == Seconds \cup {0}
TabRows == [pc : TabPcs, for : TabKinds, token : TokenSeconds]

AccountsTyped ==
  /\ now \in Seconds /\ registered \in BOOLEAN /\ tokens \subseteq Seconds
  /\ cookie \in [Browsers -> TokenSeconds] /\ tab \in [Tabs -> TabRows] /\ ThrottleTyped /\ mixed \in BOOLEAN

LEMMA TabMovesTyped ==
  ASSUME AccountsTyped, NEW t \in Tabs,
         \/ \E pc \in TabPcs, token \in TokenSeconds : TabGoes(t, pc, token)
         \/ TabEnds(t)
         \/ \E pc \in TabPcs, for \in TabKinds : Asks(t, pc, for)
  PROVE  tab' \in [Tabs -> TabRows]
<1>1. tab[t] \in TabRows /\ cookie[Home(t)] \in TokenSeconds /\ 0 \in TokenSeconds
  BY HomeIsBrowser DEF AccountsTyped, TokenSeconds
<1>2. ASSUME NEW pc \in TabPcs, NEW token \in TokenSeconds, TabGoes(t, pc, token)
      PROVE  tab' \in [Tabs -> TabRows]
  <2>1. PICK row : row = [tab[t] EXCEPT !.pc = pc, !.token = token]
    OBVIOUS
  <2>2. row \in TabRows
    BY <1>1, <2>1 DEF TabRows
  <2>3. tab' = [tab EXCEPT ![t] = row]
    BY <1>2, <2>1 DEF TabGoes, AccountsTyped
  <2> QED
    BY <2>2, <2>3 DEF AccountsTyped
<1>3. ASSUME TabEnds(t)
      PROVE  tab' \in [Tabs -> TabRows]
  <2>1. Resting \in TabRows
    BY <1>1 DEF Resting, TabRows, TabPcs, TabKinds
  <2> QED
    BY <1>3, <2>1 DEF TabEnds, AccountsTyped
<1>4. ASSUME NEW pc \in TabPcs, NEW for \in TabKinds, Asks(t, pc, for)
      PROVE  tab' \in [Tabs -> TabRows]
  <2>1. [pc |-> pc, for |-> for, token |-> cookie[Home(t)]] \in TabRows
    BY <1>1 DEF TabRows
  <2> QED
    BY <1>4, <2>1 DEF Asks, AccountsTyped
<1> QED
  BY <1>2, <1>3, <1>4

LEMMA AccountsStartTyped == AccountsInit => AccountsTyped
<1> SUFFICES ASSUME AccountsInit PROVE AccountsTyped
  OBVIOUS
<1>1. 1 \in Seconds /\ 0 \in TokenSeconds
  BY AccountsAssumption DEF Seconds, TokenSeconds
<1>2. registered = FALSE /\ mixed = FALSE /\ throttle = NoFailures
  BY DEF AccountsInit
<1>3. registered \in BOOLEAN /\ mixed \in BOOLEAN
  BY <1>2, Zenon
<1>4. ThrottleTyped
  BY <1>2 DEF ThrottleTyped, NoFailures
<1>5. Resting \in TabRows
  BY <1>1 DEF Resting, TabRows, TabPcs, TabKinds
<1> QED
  BY <1>1, <1>3, <1>4, <1>5 DEF AccountsInit, AccountsTyped

LEMMA AccountsMoveTyped ==
  ASSUME AccountsTyped, AccountsNext({"session", "guess"})
  PROVE  AccountsTyped'
<1>1. 0 \in TokenSeconds /\ now \in TokenSeconds /\ tokens \subseteq TokenSeconds /\ NoFailures \in [failures : Nat, over : BOOLEAN]
  BY DEF AccountsTyped, TokenSeconds, NoFailures
<1>2. ASSUME NEW t \in Tabs, Register(t) \/ Refresh(t) \/ Logout(t) \/ \E right \in BOOLEAN : Login(t, right)
      PROVE  AccountsTyped'
  <2>1. PICK pc \in TabPcs, for \in TabKinds : Asks(t, pc, for)
    BY <1>2 DEF Register, Refresh, Logout, Login, TabPcs, TabKinds
  <2>2. tab' \in [Tabs -> TabRows]
    BY <2>1, TabMovesTyped
  <2>3. mixed' \in BOOLEAN
    BY <2>1 DEF Asks, AccountsTyped
  <2>4. UNCHANGED <<now, registered, tokens, cookie>> /\ throttle' \in {throttle, NoFailures}
    BY <1>2 DEF Register, Refresh, Logout, Login
  <2>5. ThrottleTyped'
    BY <1>1, <2>4 DEF AccountsTyped, ThrottleTyped
  <2> QED
    BY <2>2, <2>3, <2>4, <2>5 DEF AccountsTyped
<1>3. ASSUME NEW t \in Tabs, InsertUser(t)
      PROVE  AccountsTyped'
  <2>1. tab' \in [Tabs -> TabRows]
    BY <1>1, <1>3, TabMovesTyped DEF InsertUser, TabPcs
  <2>2. registered' = TRUE /\ UNCHANGED <<now, tokens, cookie, throttle, mixed>>
    BY <1>3 DEF InsertUser
  <2>3. registered' \in BOOLEAN
    BY <2>2, Zenon
  <2> QED
    BY <2>1, <2>2, <2>3 DEF AccountsTyped, ThrottleTyped
<1>4. ASSUME NEW t \in Tabs, ComparePassword(t)
      PROVE  AccountsTyped'
  <2>1. tab' \in [Tabs -> TabRows]
    BY <1>1, <1>4, TabMovesTyped DEF ComparePassword, TabPcs
  <2>2. PICK n \in Nat : n = throttle.failures + 1
    BY DEF AccountsTyped, ThrottleTyped
  <2>3. throttle' = throttle \/ throttle' = [failures |-> n, over |-> FALSE]
    BY <1>4, <2>2 DEF ComparePassword
  <2>4. [failures |-> n, over |-> FALSE] \in [failures : Nat, over : BOOLEAN]
    OBVIOUS
  <2>5. ThrottleTyped'
    BY <2>3, <2>4 DEF AccountsTyped, ThrottleTyped
  <2> QED
    BY <1>4, <2>1, <2>5 DEF AccountsTyped, ComparePassword
<1>5. ASSUME NEW t \in Tabs, IssueToken(t)
      PROVE  AccountsTyped'
  <2>1. tab' \in [Tabs -> TabRows]
    BY <1>1, <1>5, TabMovesTyped DEF IssueToken, TabPcs
  <2>2. throttle' \in {throttle, NoFailures} /\ tokens' \in {tokens, tokens \cup {now}}
    BY <1>5 DEF IssueToken
  <2>3. ThrottleTyped' /\ tokens' \subseteq Seconds
    BY <1>1, <2>2 DEF AccountsTyped, ThrottleTyped
  <2> QED
    BY <1>5, <2>1, <2>3 DEF AccountsTyped, IssueToken
<1>6. ASSUME NEW t \in Tabs, FindToken(t)
      PROVE  AccountsTyped'
  <2>1. tab' \in [Tabs -> TabRows]
    BY <1>1, <1>6, TabMovesTyped DEF FindToken, TabPcs
  <2> QED
    BY <1>6, <2>1 DEF AccountsTyped, FindToken, ThrottleTyped
<1>7. ASSUME NEW t \in Tabs, DeleteToken(t)
      PROVE  AccountsTyped'
  <2>1. tab' \in [Tabs -> TabRows]
    BY <1>1, <1>7, TabMovesTyped DEF DeleteToken, TabPcs
  <2>2. mixed' = TRUE \/ mixed' = mixed
    BY <1>7 DEF DeleteToken
  <2>3. mixed' \in BOOLEAN
    BY <2>2, Zenon DEF AccountsTyped
  <2>4. tokens' \subseteq Seconds
    BY <1>7 DEF DeleteToken, DeleteByHash, AccountsTyped
  <2> QED
    BY <1>7, <2>1, <2>3, <2>4 DEF AccountsTyped, DeleteToken, ThrottleTyped
<1>8. ASSUME NEW t \in Tabs, Answer(t)
      PROVE  AccountsTyped'
  <2>1. tab' \in [Tabs -> TabRows]
    BY <1>8, TabMovesTyped DEF Answer
  <2>2. mixed' = TRUE \/ mixed' = mixed
    BY <1>8 DEF Answer
  <2>3. mixed' \in BOOLEAN
    BY <2>2, Zenon DEF AccountsTyped
  <2>4. tab[t].token \in TokenSeconds
    BY DEF AccountsTyped, TabRows
  <2>5. cookie' \in [Browsers -> TokenSeconds]
    BY <1>8, <2>4, HomeIsBrowser DEF Answer, AccountsTyped
  <2> QED
    BY <1>8, <2>1, <2>3, <2>5 DEF AccountsTyped, Answer, ThrottleTyped
<1>9. ASSUME SecondPasses \/ LockoutEnds \/ Cleanup
      PROVE  AccountsTyped'
  <2>1. now' \in Seconds
    BY <1>9, AccountsAssumption DEF SecondPasses, LockoutEnds, Cleanup, AccountsTyped, Seconds
  <2>2. ThrottleTyped'
    BY <1>1, <1>9 DEF SecondPasses, LockoutEnds, Cleanup, AccountsTyped, ThrottleTyped
  <2>3. UNCHANGED <<registered, tokens, cookie, tab, mixed>>
    BY <1>9 DEF SecondPasses, LockoutEnds, Cleanup
  <2> QED
    BY <2>1, <2>2, <2>3 DEF AccountsTyped
<1> QED
  BY <1>2, <1>3, <1>4, <1>5, <1>6, <1>7, <1>8, <1>9 DEF AccountsNext

LEMMA AccountsAreTyped == AppSpec => []AccountsTypeOK
<1>1. AppInit => AccountsTyped
  BY AccountsStartTyped DEF AppInit
<1>2. AccountsTyped /\ [AppNext]_app => AccountsTyped'
  <2> SUFFICES ASSUME AccountsTyped, [AccountsNext({"session", "guess"})]_accounts PROVE AccountsTyped'
    BY AccountsMove
  <2>1. CASE UNCHANGED accounts
    BY <2>1 DEF accounts, AccountsTyped, ThrottleTyped
  <2> QED
    BY <2>1, AccountsMoveTyped
<1>3. AccountsTyped => AccountsTypeOK
  BY DEF AccountsTyped, AccountsTypeOK, ThrottleTyped, TabRows, TabPcs, TabKinds, TokenSeconds
<1> QED
  BY <1>1, <1>2, <1>3, PTL DEF AppSpec
=============================================================================
