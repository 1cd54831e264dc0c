------------------------------ MODULE Accounts ------------------------------
(****************************************************************************)
(* Sessions of one account.  Refresh tokens are rows with the hash of a      *)
(* token, and a token is made of the account and the second it was issued   *)
(* in.  Browsers hold one in a cookie that all their tabs share; requests   *)
(* read it, work statement by statement, and answer with another.  A        *)
(* counter of failed logins locks the account.                              *)
(****************************************************************************)
EXTENDS Naturals, FiniteSets

CONSTANTS Browsers,
          SecondTab,     \* another tab of one of the browsers
          MaxSeconds,    \* bound on the time that passes
          MaxFailures    \* failed logins that lock the account

ASSUME AccountsAssumption ==
  /\ IsFiniteSet(Browsers) /\ Browsers # {} /\ SecondTab \notin Browsers
  /\ MaxSeconds \in Nat \ {0} /\ MaxFailures \in Nat \ {0}

VARIABLES
  now,          \* the second
  registered,   \* the account exists
  tokens,       \* the refresh_tokens table
  cookie,       \* the refresh cookie of each browser, 0 for none
  tab,          \* the request of each tab
  throttle,     \* LoginThrottle: failures, and whether the lockout has run out
  mixed         \* requests of one browser overlapped, a deletion failed or an answer was lost

accounts == <<now, registered, tokens, cookie, tab, throttle, mixed>>

Seconds == 1 .. MaxSeconds
Tabs == Browsers \cup {SecondTab}
Home(t) == IF t = SecondTab THEN CHOOSE b \in Browsers : TRUE ELSE t

Resting == [pc |-> "idle", for |-> "", token |-> 0]
NoFailures == [failures |-> 0, over |-> FALSE]

AccountsTypeOK ==
  /\ now \in Seconds /\ registered \in BOOLEAN
  /\ tokens \subseteq Seconds
  /\ cookie \in [Browsers -> Seconds \cup {0}]
  /\ tab \in [Tabs -> [pc : {"idle", "insert", "compare", "find", "rotate", "issue", "revoke", "answer"},
                       for : {"", "register", "login", "guess", "refresh", "logout"}, token : Seconds \cup {0}]]
  /\ throttle \in [failures : Nat, over : BOOLEAN]
  /\ mixed \in BOOLEAN

AccountsInit ==
  /\ now = 1 /\ registered = FALSE /\ tokens = {} /\ mixed = FALSE
  /\ cookie = [b \in Browsers |-> 0]
  /\ tab = [t \in Tabs |-> Resting]
  /\ throttle = NoFailures

TabGoes(t, pc, token) == tab' = [tab EXCEPT ![t].pc = pc, ![t].token = token]

Asks(t, pc, for) ==
  /\ tab[t].pc = "idle"
  /\ tab' = [tab EXCEPT ![t] = [pc |-> pc, for |-> for, token |-> cookie[Home(t)]]]
  /\ mixed' = (mixed \/ \E u \in Tabs \ {t} : Home(u) = Home(t) /\ tab[u].pc # "idle")

TabEnds(t) == tab' = [tab EXCEPT ![t] = Resting]

\* Register, when GetByEmail finds no account ...
Register(t) ==
  /\ ~registered /\ Asks(t, "insert", "register")
  /\ UNCHANGED <<now, registered, tokens, cookie, throttle>>

\* ... inserts it; UNIQUE (email) refuses the second of two.
InsertUser(t) ==
  /\ tab[t].pc = "insert"
  /\ registered' = TRUE
  /\ IF registered THEN TabEnds(t) ELSE TabGoes(t, "issue", 0)
  /\ UNCHANGED <<now, tokens, cookie, throttle, mixed>>

\* Mutant: one more failure than allowed.
LockedAfter == throttle.failures > MaxFailures /\ ~throttle.over

IsLocked == throttle.failures >= MaxFailures /\ ~throttle.over

\* Login: the throttle is asked, and forgets a lockout that has run out.
\* Bound: a browser without a session.
Login(t, right) ==
  /\ registered /\ cookie[Home(t)] = 0 /\ ~IsLocked
  /\ Asks(t, "compare", IF right THEN "login" ELSE "guess")
  /\ throttle' = IF throttle.over THEN NoFailures ELSE throttle
  /\ UNCHANGED <<now, registered, tokens, cookie>>

\* The password is compared; RecordFailure counts, and locks from now on.
ComparePassword(t) ==
  /\ tab[t].pc = "compare"
  /\ IF tab[t].for = "login" THEN TabGoes(t, "issue", 0) /\ UNCHANGED throttle
     ELSE TabEnds(t) /\ throttle' = [failures |-> throttle.failures + 1, over |-> FALSE]
  /\ UNCHANGED <<now, registered, tokens, cookie, mixed>>

\* A token is made of the second and inserted under its hash.  UNIQUE
\* (token_hash) refuses a second one of the same second, and the request fails;
\* a refresh that fails clears the cookies.  A login then calls RecordSuccess.
IssueToken(t) ==
  /\ tab[t].pc = "issue"
  /\ IF now \notin tokens
     THEN /\ tokens' = tokens \cup {now}
          /\ TabGoes(t, "answer", now)
          /\ throttle' = IF tab[t].for = "login" THEN NoFailures ELSE throttle
     ELSE /\ IF tab[t].for = "refresh" THEN TabGoes(t, "answer", 0) ELSE TabEnds(t)
          /\ UNCHANGED <<tokens, throttle>>
  /\ UNCHANGED <<now, registered, cookie, mixed>>

\* RefreshTokens finds the token of the cookie ...
Refresh(t) ==
  /\ cookie[Home(t)] # 0 /\ Asks(t, "find", "refresh")
  /\ UNCHANGED <<now, registered, tokens, cookie, throttle>>

FindToken(t) ==
  /\ tab[t].pc = "find"
  /\ IF tab[t].token \in tokens THEN TabGoes(t, "rotate", tab[t].token) ELSE TabGoes(t, "answer", 0)
  /\ UNCHANGED <<now, registered, tokens, cookie, throttle, mixed>>

\* Mutant: the old token stays valid.
KeepOld(t) == tokens

DeleteByHash(t) == tokens \ {tab[t].token}

\* ... deletes it, and issues another; Logout deletes it.  A deletion that
\* fails is ignored.
DeleteToken(t) ==
  /\ tab[t].pc \in {"rotate", "revoke"}
  /\ \/ tokens' = DeleteByHash(t) /\ UNCHANGED mixed
     \/ mixed' = TRUE /\ UNCHANGED tokens
  /\ IF tab[t].pc = "rotate" THEN TabGoes(t, "issue", 0) ELSE TabGoes(t, "answer", 0)
  /\ UNCHANGED <<now, registered, cookie, throttle>>

Logout(t) ==
  /\ cookie[Home(t)] # 0 /\ Asks(t, "revoke", "logout")
  /\ UNCHANGED <<now, registered, tokens, cookie, throttle>>

\* setAuthCookies or clearAuthCookies reach the browser, or never do.
Answer(t) ==
  /\ tab[t].pc = "answer" /\ TabEnds(t)
  /\ \/ cookie' = [cookie EXCEPT ![Home(t)] = tab[t].token] /\ UNCHANGED mixed
     \/ mixed' = TRUE /\ UNCHANGED cookie
  /\ UNCHANGED <<now, registered, tokens, throttle>>

\* Time passes; a lockout runs out, and cleanup forgets an account that has not
\* been locked for long, or that never was.
SecondPasses ==
  /\ now < MaxSeconds /\ now' = now + 1
  /\ UNCHANGED <<registered, tokens, cookie, tab, throttle, mixed>>

LockoutEnds ==
  /\ throttle.failures >= MaxFailures /\ ~throttle.over
  /\ throttle' = [throttle EXCEPT !.over = TRUE]
  /\ UNCHANGED <<now, registered, tokens, cookie, tab, mixed>>

Cleanup ==
  /\ throttle.failures \in 1 .. MaxFailures - 1 \/ throttle.over
  /\ throttle' = NoFailures
  /\ UNCHANGED <<now, registered, tokens, cookie, tab, mixed>>

\* The requests of an area: sessions, or logins with wrong passwords.
AccountsNext(kinds) ==
  \/ \E t \in Tabs :
       \/ Register(t) \/ InsertUser(t) \/ ComparePassword(t) \/ IssueToken(t)
       \/ FindToken(t) \/ DeleteToken(t) \/ Answer(t)
       \/ "session" \in kinds /\ (Login(t, TRUE) \/ Refresh(t) \/ Logout(t))
       \/ "guess" \in kinds /\ \E right \in BOOLEAN : Login(t, right)
  \/ SecondPasses
  \/ LockoutEnds \/ Cleanup

-----------------------------------------------------------------------------
(* Properties *)

\* When no request is under way, every refresh token that is stored is the
\* cookie of a browser and every cookie is stored: rotation and logout leave
\* no session behind and cut none off, unless requests of one browser
\* overlapped, a deletion failed or an answer was lost.
SessionsAgree ==
  ~mixed /\ (\A t \in Tabs : tab[t].pc = "idle") =>
    {cookie[b] : b \in Browsers} \ {0} = tokens

\* Attempts that run at once cannot push the count further past the limit than
\* one each: nothing is compared for an account that is locked.
FailuresAreBounded == throttle.failures < MaxFailures + Cardinality(Tabs)
=============================================================================
