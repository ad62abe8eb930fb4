--------------------------- MODULE ConsoleProofs ---------------------------
(***************************************************************************)
(* The proofs about Console: what a tab does is done by the user it shows, *)
(* nobody is signed out by an answer of another session, tables show what  *)
(* was chosen last, and the weekly limit of the feedback is passed only by *)
(* submissions that overlap.                                               *)
(*                                                                         *)
(* Inv is their inductive invariant. SessionInv says of each tab which     *)
(* requests it can have on their way, with which token; PagesInv that only *)
(* who is shown to be signed in has a page; RequestInv that of a page's    *)
(* requests the newest is for what is chosen, and what has been read is    *)
(* not older than what was saved. One lemma per action says that it keeps  *)
(* them; those of the session come first, then those of the pages.         *)
(***************************************************************************)
EXTENDS Console, FiniteSetTheorems, TLAPS

USE SessionAssumption, ConsoleAssumption

TableKinds   == {"table", "save", "submit"}
SigningKinds == {"login", "me"}
AllTables    == AdminTables \cup OwnTables
Keys         == [filter : Filters, number : Nat]
Someone      == Users \cup {None}
Auths        == [token : Nat, user : Someone, loading : BOOLEAN]

\* The requests of the session, and of the pages.
AskCalls == [kind : {"login", "first", "refresh"}, token : Nat, issued : {0}, step : {"sent"}]
MeCalls  == [kind : {"me"}, token : Nat \ {0}, issued : Nat, step : {"sent"}]
TableCalls ==
    [kind : TableKinds, token : Nat, issued : {0}, step : {"sent", "served", "counted", "inserted"},
     id : Nat, table : AllTables, key : Keys, n : Nat, version : Nat, of : Someone]
AllCalls == AskCalls \cup MeCalls \cup TableCalls

Rows == [key : Keys, version : Nat, of : Someone]
Pages ==
    [id : Nat, table : AllTables, choice : Keys, shown : Rows \cup {None}, busy : BOOLEAN,
     added : SUBSET Nat, asks : Nat, holds : Nat, saved : Nat, reported : SUBSET Nat,
     behind : BOOLEAN, early : BOOLEAN]

SessionTyped ==
    /\ owner \in Seq(Users) /\ expired \subseteq Tokens /\ stored \in 0 .. Len(owner)
    /\ auth \in [Tabs -> Auths] /\ \A t \in Tabs : auth[t].token <= Len(owner)
    /\ at \in [Tabs -> {"login", "app"}] /\ form \in [Tabs -> Someone]
    /\ foreign \subseteq Tabs /\ crossed \subseteq Tabs /\ steps \in 0 .. MaxSteps

CallsTyped ==
    /\ calls \in [Tabs -> SUBSET AllCalls]
    /\ \A t \in Tabs : \A c \in calls[t] : c.token <= Len(owner)

TablesTyped ==
    /\ version \in Nat /\ opened \in [Tabs -> Nat]
    /\ entries \in [Users -> Nat] /\ overlaps \in [Users -> Nat]
    /\ page \in [Tabs -> Pages \cup {None}]

TypeInv == SessionTyped /\ CallsTyped /\ TablesTyped

-----------------------------------------------------------------------------
\* What the requests are.

\* The requests of a sign-in, of a load and of a refresh are of their type.
LEMMA SessionCallType ==
  /\ \A k \in Nat : Call("first", k) \in AskCalls /\ Call("refresh", k) \in AskCalls
  /\ \A k \in Nat : Call("first", k).kind = "first" /\ Call("refresh", k).kind = "refresh"
                    /\ Call("first", k).token = k /\ Call("refresh", k).token = k
  /\ Call("login", 0) \in AskCalls /\ Call("login", 0).kind = "login" /\ Call("login", 0).token = 0
  BY DEF Call, AskCalls

\* The request for the user of a token that was just issued carries that token.
LEMMA MeCallType ==
  ASSUME NEW k \in Nat \ {0}, NEW d, d = [Call("me", k) EXCEPT !.issued = k]
  PROVE  d \in MeCalls /\ d.kind = "me" /\ d.token = k /\ d.issued = k
  BY DEF Call, MeCalls

\* The request for rows carries the stored token, and its page, key and number.
LEMMA TableCallType ==
  ASSUME TypeInv, NEW p, p.id \in Nat, p.table \in AllTables, NEW k \in Keys, NEW n \in Nat
  PROVE  /\ TableCall(p, k, n) \in TableCalls
         /\ TableCall(p, k, n).kind = "table" /\ TableCall(p, k, n).token = stored
         /\ TableCall(p, k, n).step = "sent" /\ TableCall(p, k, n).id = p.id
         /\ TableCall(p, k, n).table = p.table /\ TableCall(p, k, n).key = k
         /\ TableCall(p, k, n).n = n
<1>1. stored \in Nat
  BY DEF TypeInv, SessionTyped
<1>2. QED BY <1>1 DEF TableCall, TableCalls, TableKinds, Someone

\* So do a save and a submission.
LEMMA OtherCallType ==
  ASSUME TypeInv, NEW p \in Pages
  PROVE  /\ SaveCall(p) \in TableCalls /\ SubmitCall(p) \in TableCalls
         /\ SaveCall(p).kind = "save" /\ SubmitCall(p).kind = "submit"
         /\ SaveCall(p).token = stored /\ SubmitCall(p).token = stored
         /\ SaveCall(p).step = "sent" /\ SubmitCall(p).step = "sent"
         /\ SaveCall(p).id = p.id /\ SubmitCall(p).id = p.id
         /\ SaveCall(p).table = p.table /\ SubmitCall(p).table = p.table
<1>1. stored \in Nat /\ p.id \in Nat /\ p.table \in AllTables /\ p.choice \in Keys
  BY DEF TypeInv, SessionTyped, Pages
<1>2. QED BY <1>1 DEF SaveCall, SubmitCall, TableCall, TableCalls, TableKinds, Someone

\* A request whose step, version and user have changed.
LEMMA StepOn ==
  ASSUME NEW c \in TableCalls, NEW s \in {"sent", "served", "counted", "inserted"},
         NEW v \in Nat, NEW u \in Someone, NEW d,
         \/ d = [c EXCEPT !.step = s, !.version = v, !.of = u]
         \/ d = [c EXCEPT !.step = s, !.version = v] /\ u = c.of
         \/ d = [c EXCEPT !.step = s] /\ u = c.of /\ v = c.version
  PROVE  /\ d \in TableCalls /\ d.step = s /\ d.version = v /\ d.of = u
         /\ d.kind = c.kind /\ d.token = c.token /\ d.id = c.id /\ d.table = c.table
         /\ d.key = c.key /\ d.n = c.n
  BY DEF TableCalls

\* A page's request is none of the session's.
LEMMA Kinds ==
  ASSUME NEW c \in AllCalls
  PROVE  /\ c \in TableCalls <=> c.kind \in TableKinds
         /\ c \in MeCalls <=> c.kind = "me"
         /\ c \in AskCalls <=> c.kind \in {"login", "first", "refresh"}
         /\ c.kind \in TableKinds \cup {"login", "me", "first", "refresh"} /\ c.token \in Nat
  BY DEF AllCalls, TableCalls, MeCalls, AskCalls, TableKinds

-----------------------------------------------------------------------------
\* Types

\* The requests of one tab change.
LEMMA CallsOne ==
  ASSUME TypeInv, NEW t \in Tabs, NEW X \in SUBSET AllCalls, calls' = [calls EXCEPT ![t] = X],
         Len(owner') \in Nat, Len(owner) <= Len(owner'), \A c \in X : c.token <= Len(owner')
  PROVE  CallsTyped' /\ calls'[t] = X /\ \A s \in Tabs \ {t} : calls'[s] = calls[s]
<1>1. calls \in [Tabs -> SUBSET AllCalls] /\ Len(owner) \in Nat
      /\ \A s \in Tabs : \A c \in calls[s] : c.token <= Len(owner)
  BY DEF TypeInv, CallsTyped, SessionTyped
<1>2. calls' \in [Tabs -> SUBSET AllCalls] /\ calls'[t] = X /\ \A s \in Tabs \ {t} : calls'[s] = calls[s]
  BY <1>1
<1>3. ASSUME NEW s \in Tabs, NEW c \in calls'[s] PROVE c.token <= Len(owner')
  <2>1. CASE s = t
    BY <1>2, <1>3, <2>1
  <2>2. CASE s # t
    <3>1. c \in calls[s] /\ c \in AllCalls
      BY <1>1, <1>2, <1>3, <2>2
    <3>2. c.token \in Nat /\ c.token <= Len(owner)
      BY <1>1, <3>1, Kinds
    <3>3. QED BY <1>1, <3>2
  <2>3. QED BY <2>1, <2>2
<1>4. QED BY <1>2, <1>3 DEF CallsTyped

\* What is known of the requests of a tab.
LEMMA CallsType ==
  ASSUME TypeInv
  PROVE  /\ Len(owner) \in Nat /\ stored \in Nat /\ stored <= Len(owner)
         /\ \A t \in Tabs : /\ calls[t] \in SUBSET AllCalls
                            /\ auth[t] \in Auths /\ auth[t].token \in Nat
                            /\ auth[t].token <= Len(owner)
                            /\ at[t] \in {"login", "app"} /\ form[t] \in Someone
         /\ \A t \in Tabs : \A c \in calls[t] : c \in AllCalls /\ c.token \in Nat /\ c.token <= Len(owner)
<1>1. \A t \in Tabs : \A c \in calls[t] : c \in AllCalls /\ c.token <= Len(owner)
  BY DEF TypeInv, CallsTyped
<1>2. QED BY <1>1, Kinds DEF TypeInv, SessionTyped, CallsTyped, Auths

\* Owners of tokens are users.
LEMMA OwnerType ==
  ASSUME TypeInv, NEW k, k \in Tokens
  PROVE  k \in Nat \ {0} /\ k <= Len(owner) /\ Owner(k) \in Users /\ Owner(k) = owner[k] /\ Owner(k) # None
  BY DEF TypeInv, SessionTyped, Tokens, Owner

\* Nothing of a tab changes but its page.
Alike(s) == calls'[s] = calls[s] /\ auth'[s] = auth[s] /\ at'[s] = at[s] /\ form'[s] = form[s]

\* A tab is loaded.
LEMMA LoadTyped ==
  ASSUME TypeInv, NEW t \in Tabs, NEW where \in {"login", "app"}, NEW k \in 0 .. Len(owner),
         Load(t, where, k), UNCHANGED owner, expired' = expired, foreign' \subseteq Tabs,
         stored' \in 0 .. Len(owner), steps' \in 0 .. MaxSteps
  PROVE  /\ SessionTyped' /\ CallsTyped'
         /\ \A c \in calls'[t] : c.kind = "first" /\ c.token = k /\ k # 0
         /\ \A s \in Tabs \ {t} : Alike(s)
         /\ auth'[t].token = k /\ auth'[t].user = None /\ (auth'[t].loading <=> k # 0)
         /\ at'[t] = where /\ form'[t] = None /\ crossed' = crossed \ {t}
<1>1. Len(owner) \in Nat /\ k \in Nat /\ k <= Len(owner)
  BY CallsType
<1>2. [token |-> k, user |-> None, loading |-> k # 0] \in Auths
  BY <1>1 DEF Auths, Someone
<1>3. /\ auth \in [Tabs -> Auths] /\ at \in [Tabs -> {"login", "app"}] /\ form \in [Tabs -> Someone]
      /\ \A s \in Tabs : auth[s].token <= Len(owner)
  BY DEF TypeInv, SessionTyped
<1>4. /\ auth' = [auth EXCEPT ![t] = [token |-> k, user |-> None, loading |-> k # 0]]
      /\ at' = [at EXCEPT ![t] = where] /\ form' = [form EXCEPT ![t] = None] /\ crossed' = crossed \ {t}
      /\ calls' = [calls EXCEPT ![t] = IF k = 0 THEN {} ELSE {Call("first", k)}]
  BY DEF Load
<1>5. /\ auth' \in [Tabs -> Auths] /\ auth'[t] = [token |-> k, user |-> None, loading |-> k # 0]
      /\ \A s \in Tabs \ {t} : auth'[s] = auth[s]
  BY <1>2, <1>3, <1>4
<1>6. /\ at' \in [Tabs -> {"login", "app"}] /\ at'[t] = where /\ \A s \in Tabs \ {t} : at'[s] = at[s]
      /\ form' \in [Tabs -> Someone] /\ form'[t] = None /\ \A s \in Tabs \ {t} : form'[s] = form[s]
  BY <1>3, <1>4 DEF Someone
<1>7. \A s \in Tabs : auth'[s].token <= Len(owner)
  BY <1>1, <1>3, <1>5
<1>8. SessionTyped'
  BY <1>4, <1>5, <1>6, <1>7 DEF TypeInv, SessionTyped, Tokens
<1> DEFINE X == IF k = 0 THEN {} ELSE {Call("first", k)}
<1>9. X \in SUBSET AllCalls /\ \A c \in X : c.token <= Len(owner')
  BY <1>1, SessionCallType DEF AllCalls
<1>10. CallsTyped' /\ calls'[t] = X /\ \A s \in Tabs \ {t} : calls'[s] = calls[s]
  <2>1. calls' = [calls EXCEPT ![t] = X] /\ Len(owner') \in Nat /\ Len(owner) <= Len(owner')
    BY <1>1, <1>4
  <2> HIDE DEF X
  <2>2. QED BY <1>9, <2>1, CallsOne
<1>11. \A c \in calls'[t] : c.kind = "first" /\ c.token = k /\ k # 0
  BY <1>1, <1>10, SessionCallType
<1>12. auth'[t].token = k /\ auth'[t].user = None /\ (auth'[t].loading <=> k # 0)
  <2> DEFINE r == [token |-> k, user |-> None, loading |-> k # 0]
  <2>1. r.token = k /\ r.user = None
    OBVIOUS
  <2>2. r.loading = (k # 0)
    OBVIOUS
  <2>3. auth'[t] = r
    BY <1>5
  <2> HIDE DEF r
  <2>4. QED BY <2>1, <2>2, <2>3
<1>13. QED BY <1>4, <1>5, <1>6, <1>8, <1>10, <1>11, <1>12 DEF Alike

-----------------------------------------------------------------------------
\* The session

\* At most one request of a sign-in is on its way, and the tab shows the login page.
SignInInv(t) == \A c \in calls[t] :
    /\ c.kind \in SigningKinds =>
          /\ form[t] # None /\ Screen(t) = "login"
          /\ \A d \in calls[t] : d.kind \in SigningKinds => d = c
    /\ c.kind = "me" => c.issued = c.token

LoadInv(t) ==
    /\ auth[t].loading => auth[t].user = None /\ \A c \in calls[t] : c.kind # "refresh"
    /\ t \notin crossed =>
          /\ \A c \in calls[t] :
                /\ c.kind = "first" => auth[t].loading /\ c.token = auth[t].token
                /\ c.kind = "me" => calls[t] = {c}
          /\ Screen(t) = "app" /\ ~auth[t].loading => Shows(t) = Owner(auth[t].token)

Clean(t) == t \notin foreign \cup crossed

OwnInv(t) == Clean(t) =>
    /\ Screen(t) = "app" => stored = auth[t].token
    /\ \A c \in calls[t] : c.kind = "me" => c.token = stored
    /\ auth[t].token # 0 =>
          /\ stored # 0
          /\ \A c \in calls[t] : c.kind # "login" => c.token \in {auth[t].token, stored}

TabInv(t) == SignInInv(t) /\ LoadInv(t) /\ OwnInv(t)

\* Tokens are only added.
OwnersKept == Len(owner') \in Nat /\ Len(owner) <= Len(owner') /\ \A k \in Tokens : owner'[k] = owner[k]

\* A token that was issued keeps its owner.
LEMMA OwnerKept ==
  ASSUME TypeInv, OwnersKept, NEW k \in Nat, k <= Len(owner)
  PROVE  Owner(k)' = Owner(k)
  BY CallsType DEF OwnersKept, Owner, Tokens

\* What another tab does.
LEMMA OthersKept ==
  ASSUME TypeInv, NEW s \in Tabs, TabInv(s), OwnersKept,
         auth'[s] = auth[s], at'[s] = at[s], form'[s] = form[s], calls'[s] = calls[s],
         s \in crossed' <=> s \in crossed,
         s \in foreign' \/ (stored' = stored /\ s \notin foreign)
  PROVE  TabInv(s)'
<1>1. Owner(auth[s].token)' = Owner(auth[s].token)
  BY CallsType, OwnerKept
<1>2. SignInInv(s)'
  BY DEF TabInv, SignInInv, Screen
<1>3. LoadInv(s)'
  BY <1>1 DEF TabInv, LoadInv, Screen, Shows
<1>4. OwnInv(s)'
  BY DEF TabInv, OwnInv, Clean, Screen
<1>5. QED BY <1>2, <1>3, <1>4 DEF TabInv

SessionInv == \A t \in Tabs : TabInv(t)
Goal == SessionTyped /\ CallsTyped /\ SessionInv

\* A tab that has been loaded.
LEMMA LoadedInv ==
  ASSUME NEW t \in Tabs, \A c \in calls'[t] : c.kind = "first" /\ c.token = stored' /\ stored' # 0,
         auth'[t].token = stored', auth'[t].user = None, auth'[t].loading <=> stored' # 0
  PROVE  TabInv(t)'
<1>2. SignInInv(t)'
  BY DEF SignInInv, SigningKinds
<1>3. LoadInv(t)'
  BY DEF LoadInv, Screen, Shows
<1>4. OwnInv(t)'
  BY DEF OwnInv, Clean, Screen
<1>5. QED BY <1>2, <1>3, <1>4 DEF TabInv

\* A page is loaded: all requests of the tab are dropped, and its token is the stored one.
LEMMA VisitKeeps ==
  ASSUME TypeInv, SessionInv, NEW t \in Tabs, NEW where \in {"login", "app"}, Visit(t, where)
  PROVE  Goal'
<1>1. /\ Load(t, where, stored) /\ UNCHANGED <<owner, expired, stored>> /\ foreign' = foreign \ {t}
      /\ steps' = steps + 1 /\ steps < MaxSteps
  BY DEF Visit, tokens, Step
<1>2. stored \in 0 .. Len(owner) /\ foreign \subseteq Tabs /\ steps \in 0 .. MaxSteps
  BY DEF TypeInv, SessionTyped
<1>3. /\ SessionTyped' /\ CallsTyped'
      /\ \A c \in calls'[t] : c.kind = "first" /\ c.token = stored /\ stored # 0
      /\ \A s \in Tabs \ {t} : Alike(s)
      /\ auth'[t].token = stored /\ auth'[t].user = None /\ (auth'[t].loading <=> stored # 0)
      /\ at'[t] = where /\ form'[t] = None /\ crossed' = crossed \ {t}
  <2>1. steps' \in 0 .. MaxSteps /\ foreign' \subseteq Tabs /\ stored' \in 0 .. Len(owner)
    BY <1>1, <1>2
  <2>2. QED BY <1>1, <1>2, <2>1, LoadTyped
<1>4. OwnersKept
  BY <1>1, CallsType DEF OwnersKept
<1>5. ASSUME NEW s \in Tabs \ {t} PROVE TabInv(s)'
  BY <1>1, <1>3, <1>4, OthersKept DEF SessionInv, Alike
<1>6. TabInv(t)'
  BY <1>1, <1>3, LoadedInv
<1>7. QED BY <1>3, <1>5, <1>6 DEF Goal, SessionInv

\* An answer 401 loads the login page with an empty storage.
LEMMA UnauthorizedKeeps ==
  ASSUME TypeInv, SessionInv, NEW t \in Tabs, NEW c \in calls[t], Unauthorized(t, c)
  PROVE  Goal'
<1>1. /\ Load(t, "login", 0) /\ UNCHANGED <<owner, expired, steps>>
      /\ stored' = 0 /\ foreign' = (foreign \ {t}) \cup (Tabs \ {t})
  BY DEF Unauthorized, Store
<1>2. /\ SessionTyped' /\ CallsTyped'
      /\ \A d \in calls'[t] : d.kind = "first" /\ d.token = stored' /\ stored' # 0
      /\ \A s \in Tabs \ {t} : Alike(s)
      /\ auth'[t].token = stored' /\ auth'[t].user = None /\ (auth'[t].loading <=> stored' # 0)
      /\ at'[t] = "login" /\ form'[t] = None /\ crossed' = crossed \ {t}
  <2>1. /\ steps' \in 0 .. MaxSteps /\ foreign' \subseteq Tabs /\ 0 \in 0 .. Len(owner)
        /\ "login" \in {"login", "app"}
    BY <1>1, CallsType DEF TypeInv, SessionTyped
  <2>2. QED BY <1>1, <2>1, LoadTyped
<1>3. OwnersKept
  BY <1>1, CallsType DEF OwnersKept
<1>4. ASSUME NEW s \in Tabs \ {t} PROVE TabInv(s)'
  BY <1>1, <1>2, <1>3, OthersKept DEF SessionInv, Alike
<1>5. TabInv(t)'
  BY <1>2, LoadedInv
<1>6. QED BY <1>2, <1>4, <1>5 DEF Goal, SessionInv

\* The state of one tab changes, and its requests.
OneTab(t, a, x, f, X) ==
    /\ a \in Auths /\ x \in {"login", "app"} /\ f \in Someone /\ X \in SUBSET AllCalls
    /\ (auth' = auth /\ a = auth[t]) \/ auth' = [auth EXCEPT ![t] = a]
    /\ (at' = at /\ x = at[t]) \/ at' = [at EXCEPT ![t] = x]
    /\ (form' = form /\ f = form[t]) \/ form' = [form EXCEPT ![t] = f]
    /\ calls' = [calls EXCEPT ![t] = X]
    /\ a.token <= Len(owner') /\ \A c \in X : c.token <= Len(owner')
    /\ OwnersKept /\ owner' \in Seq(Users) /\ expired' \subseteq Tokens'
    /\ stored' \in 0 .. Len(owner')
    /\ \/ foreign' = foreign /\ stored' = stored
       \/ foreign' = (foreign \ {t}) \cup (Tabs \ {t})
    /\ crossed' \in {crossed, crossed \ {t}, crossed \cup {t}}
    /\ steps' \in 0 .. MaxSteps

\* The other tabs keep what is said of them: they are foreign if the storage is written.
LEMMA OneTabKeeps ==
  ASSUME TypeInv, SessionInv, NEW t \in Tabs, NEW a, NEW x, NEW f, NEW X, OneTab(t, a, x, f, X)
  PROVE  /\ SessionTyped' /\ CallsTyped' /\ \A s \in Tabs \ {t} : TabInv(s)'
         /\ auth'[t] = a /\ at'[t] = x /\ form'[t] = f /\ calls'[t] = X
<1> USE DEF OneTab
<1>1. /\ auth \in [Tabs -> Auths] /\ at \in [Tabs -> {"login", "app"}] /\ form \in [Tabs -> Someone]
      /\ \A s \in Tabs : auth[s].token <= Len(owner)
      /\ foreign \subseteq Tabs /\ crossed \subseteq Tabs
  BY DEF TypeInv, SessionTyped
<1>2. /\ auth' \in [Tabs -> Auths] /\ auth'[t] = a /\ \A s \in Tabs \ {t} : auth'[s] = auth[s]
  BY <1>1
<1>3. /\ at' \in [Tabs -> {"login", "app"}] /\ at'[t] = x /\ \A s \in Tabs \ {t} : at'[s] = at[s]
  BY <1>1
<1>4. /\ form' \in [Tabs -> Someone] /\ form'[t] = f /\ \A s \in Tabs \ {t} : form'[s] = form[s]
  BY <1>1
<1>5. CallsTyped' /\ calls'[t] = X /\ \A s \in Tabs \ {t} : calls'[s] = calls[s]
  BY CallsOne DEF OwnersKept
<1>6. ASSUME NEW s \in Tabs PROVE auth'[s].token <= Len(owner')
  <2>1. CASE s = t
    BY <1>2, <2>1
  <2>2. CASE s # t
    <3>1. auth'[s] = auth[s] /\ auth[s].token \in Nat /\ auth[s].token <= Len(owner) /\ Len(owner) \in Nat
      BY <1>2, <2>2, CallsType
    <3>2. QED BY <3>1 DEF OwnersKept
  <2>3. QED BY <2>1, <2>2
<1>7. foreign' \subseteq Tabs /\ crossed' \subseteq Tabs
  BY <1>1
<1>8. SessionTyped'
  BY <1>2, <1>3, <1>4, <1>6, <1>7 DEF SessionTyped
<1>9. ASSUME NEW s \in Tabs \ {t} PROVE TabInv(s)'
  <2>1. s \in crossed' <=> s \in crossed
    OBVIOUS
  <2>2. s \in foreign' \/ (stored' = stored /\ s \notin foreign)
    OBVIOUS
  <2>3. QED BY <1>2, <1>3, <1>4, <1>5, <2>1, <2>2, OthersKept DEF SessionInv
<1>10. QED BY <1>2, <1>3, <1>4, <1>5, <1>8, <1>9

\* Nothing is issued.
LEMMA NoneIssued ==
  ASSUME TypeInv, owner' = owner
  PROVE  OwnersKept /\ owner' \in Seq(Users) /\ Len(owner') = Len(owner) /\ Tokens' = Tokens
         /\ expired \subseteq Tokens' /\ stored \in 0 .. Len(owner') /\ 0 \in 0 .. Len(owner')
         /\ steps \in 0 .. MaxSteps /\ (steps < MaxSteps => steps + 1 \in 0 .. MaxSteps)
  BY CallsType DEF TypeInv, SessionTyped, OwnersKept, Tokens

\* A sign-in is begun where none is on its way.
LEMMA SignInKeeps ==
  ASSUME TypeInv, SessionInv, NEW t \in Tabs, NEW u \in Users, SignIn(t, u)
  PROVE  Goal'
<1> DEFINE X == calls[t] \cup {Call("login", 0)}
<1>1. /\ Screen(t) = "login" /\ form[t] = None /\ steps < MaxSteps /\ steps' = steps + 1
      /\ form' = [form EXCEPT ![t] = u] /\ calls' = [calls EXCEPT ![t] = X]
      /\ UNCHANGED <<owner, expired, stored, auth, at, foreign, crossed>>
  BY DEF SignIn, Step, tokens, past
<1>2. X \in SUBSET AllCalls /\ \A c \in X : c \in calls[t] \/ (c.kind = "login" /\ c.token = 0)
  BY CallsType, SessionCallType DEF AllCalls
<1>3. \A c, d \in X : c.kind = "login" /\ d.kind = "login" => c = d
  <2>1. \A c \in calls[t] : c.kind \notin SigningKinds
    BY <1>1 DEF SessionInv, TabInv, SignInInv
  <2>2. QED BY <2>1 DEF SigningKinds
<1>4. \A c \in X : c.token <= Len(owner')
  BY <1>1, <1>2, CallsType
<1> HIDE DEF X
<1>5. /\ SessionTyped' /\ CallsTyped' /\ \A s \in Tabs \ {t} : TabInv(s)'
      /\ auth'[t] = auth[t] /\ at'[t] = at[t] /\ form'[t] = u /\ calls'[t] = X
  <2>1. OneTab(t, auth[t], at[t], u, X)
    BY <1>1, <1>2, <1>4, CallsType, NoneIssued DEF OneTab, Someone
  <2>2. QED BY <2>1, OneTabKeeps
<1>6. \A c \in calls[t] : c.kind \notin SigningKinds
  BY <1>1 DEF SessionInv, TabInv, SignInInv
<1>7. TabInv(t)
  BY DEF SessionInv
<1>8. SignInInv(t)'
  BY <1>1, <1>2, <1>3, <1>5, <1>6 DEF SignInInv, SigningKinds, Screen
<1>9. LoadInv(t)'
  BY <1>1, <1>2, <1>5, <1>6, <1>7 DEF TabInv, LoadInv, SigningKinds, Screen, Shows, Owner
<1>10. OwnInv(t)'
  BY <1>1, <1>2, <1>5, <1>6, <1>7 DEF TabInv, OwnInv, Clean, SigningKinds, Screen
<1>11. QED BY <1>5, <1>8, <1>9, <1>10 DEF Goal, SessionInv, TabInv

\* A tab is signed out by its user: nothing of a sign-in is on its way there.
LEMMA LogoutKeeps ==
  ASSUME TypeInv, SessionInv, NEW t \in Tabs, Logout(t)
  PROVE  Goal'
<1>1. /\ Screen(t) = "app" /\ ~auth[t].loading /\ steps < MaxSteps /\ steps' = steps + 1
      /\ stored' = 0 /\ foreign' = (foreign \ {t}) \cup (Tabs \ {t})
      /\ auth' = [auth EXCEPT ![t] = SignedOut] /\ at' = [at EXCEPT ![t] = "login"]
      /\ UNCHANGED <<owner, expired, form, calls, crossed>>
  BY DEF Logout, Step, Store
<1>2. SignedOut \in Auths /\ SignedOut.token = 0 /\ SignedOut.loading = FALSE
  BY DEF SignedOut, Auths, Someone
<1>3. calls' = [calls EXCEPT ![t] = calls[t]]
  BY <1>1 DEF TypeInv, CallsTyped
<1>4. /\ SessionTyped' /\ CallsTyped' /\ \A s \in Tabs \ {t} : TabInv(s)'
      /\ auth'[t] = SignedOut /\ at'[t] = "login" /\ form'[t] = form[t] /\ calls'[t] = calls[t]
  <2>1. OneTab(t, SignedOut, "login", form[t], calls[t])
    <3>1. SignedOut.token <= Len(owner') /\ \A c \in calls[t] : c.token <= Len(owner')
      BY <1>1, <1>2, CallsType
    <3>2. calls[t] \in SUBSET AllCalls /\ form[t] \in Someone
      BY CallsType
    <3>3. stored' \in 0 .. Len(owner') /\ steps' \in 0 .. MaxSteps /\ expired' \subseteq Tokens'
      BY <1>1, NoneIssued
    <3>4. QED BY <1>1, <1>2, <1>3, <3>1, <3>2, <3>3, NoneIssued DEF OneTab
  <2>2. QED BY <2>1, OneTabKeeps
<1>5. TabInv(t) /\ \A c \in calls[t] : c.kind \notin SigningKinds
  BY <1>1 DEF SessionInv, TabInv, SignInInv
<1>6. SignInInv(t)'
  BY <1>4, <1>5 DEF SignInInv, SigningKinds
<1>7. LoadInv(t)'
  BY <1>1, <1>2, <1>4, <1>5 DEF TabInv, LoadInv, SigningKinds, Screen
<1>8. OwnInv(t)'
  BY <1>2, <1>4, <1>5 DEF OwnInv, Clean, SigningKinds, Screen
<1>9. QED BY <1>4, <1>6, <1>7, <1>8 DEF Goal, SessionInv, TabInv

\* The user is asked for again, with the stored token.
LEMMA RefreshKeeps ==
  ASSUME TypeInv, SessionInv, NEW t \in Tabs, RefreshUser(t)
  PROVE  Goal'
<1> DEFINE X == calls[t] \cup {Call("refresh", stored)}
<1>1. /\ Screen(t) = "app" /\ ~auth[t].loading /\ steps < MaxSteps /\ steps' = steps + 1
      /\ calls' = [calls EXCEPT ![t] = X]
      /\ UNCHANGED <<owner, expired, stored, auth, at, form, foreign, crossed>>
  BY DEF RefreshUser, Step, session, tokens, browser, past
<1>2. X \in SUBSET AllCalls /\ \A c \in X : c \in calls[t] \/ (c.kind = "refresh" /\ c.token = stored)
  BY CallsType, SessionCallType DEF AllCalls
<1>3. \A c \in X : c.token <= Len(owner')
  BY <1>1, <1>2, CallsType
<1> HIDE DEF X
<1>4. /\ SessionTyped' /\ CallsTyped' /\ \A s \in Tabs \ {t} : TabInv(s)'
      /\ auth'[t] = auth[t] /\ at'[t] = at[t] /\ form'[t] = form[t] /\ calls'[t] = X
  <2>1. OneTab(t, auth[t], at[t], form[t], X)
    BY <1>1, <1>2, <1>3, CallsType, NoneIssued DEF OneTab
  <2>2. QED BY <2>1, OneTabKeeps
<1>5. TabInv(t) /\ \A c \in calls[t] : c.kind \notin SigningKinds
  BY <1>1 DEF SessionInv, TabInv, SignInInv
<1>6. SignInInv(t)'
  BY <1>2, <1>4, <1>5 DEF SignInInv, SigningKinds
<1>7. LoadInv(t)'
  BY <1>1, <1>2, <1>4, <1>5 DEF TabInv, LoadInv, SigningKinds, Screen, Shows, Owner
<1>8. OwnInv(t)'
  BY <1>1, <1>2, <1>4, <1>5 DEF TabInv, OwnInv, Clean, SigningKinds, Screen
<1>9. QED BY <1>4, <1>6, <1>7, <1>8 DEF Goal, SessionInv, TabInv

\* A token expires: nothing is said of those that have.
LEMMA ExpireKeeps ==
  ASSUME TypeInv, SessionInv, NEW k \in Tokens, Expire(k)
  PROVE  Goal'
<1>1. /\ expired' = expired \cup {k} /\ steps < MaxSteps /\ steps' = steps + 1
      /\ UNCHANGED <<owner, stored, auth, at, form, calls, foreign, crossed>>
  BY DEF Expire, Step, browser, past
<1>2. SessionTyped' /\ CallsTyped'
  BY <1>1, NoneIssued DEF TypeInv, SessionTyped, CallsTyped, Tokens
<1>3. SessionInv'
  BY <1>1 DEF SessionInv, TabInv, SignInInv, LoadInv, OwnInv, Clean, Screen, Shows, Owner
<1>4. QED BY <1>2, <1>3 DEF Goal

\* What is left when a request is answered.
LEMMA LeftType ==
  ASSUME TypeInv, NEW t \in Tabs, NEW c, NEW M \in SUBSET AllCalls
  PROVE  (calls[t] \ {c}) \cup M \in SUBSET AllCalls
  BY CallsType

\* A token is issued: it is stored, and no other request of a sign-in is on its way.
LEMMA LoggedInKeeps ==
  ASSUME TypeInv, SessionInv, NEW t \in Tabs, NEW c \in calls[t], LoggedIn(t, c)
  PROVE  Goal'
<1> DEFINE n == Len(owner) + 1
           me == [Call("me", n) EXCEPT !.issued = n]
           X == (calls[t] \ {c}) \cup {me}
<1>1. TabInv(t) /\ c.kind = "login"
  BY DEF LoggedIn, SessionInv
<1>2. form[t] \in Users /\ Screen(t) = "login" /\ \A d \in calls[t] \ {c} : d.kind \notin SigningKinds
  BY <1>1, CallsType DEF TabInv, SignInInv, SigningKinds, Someone
<1>3. /\ owner \in Seq(Users) /\ owner' = Append(owner, form[t]) /\ Len(owner) \in Nat
  BY CallsType DEF LoggedIn, StoreToken, StoreAndAsk, TypeInv, SessionTyped
<1>4. owner' \in Seq(Users) /\ Len(owner') = n /\ n \in Nat \ {0} /\ \A k \in 1 .. Len(owner) : owner'[k] = owner[k]
  BY <1>2, <1>3
<1>5. /\ calls' = [calls EXCEPT ![t] = X] /\ stored' = n /\ foreign' = (foreign \ {t}) \cup (Tabs \ {t})
      /\ crossed' = IF calls[t] = {c} THEN crossed \ {t} ELSE crossed \cup {t}
      /\ UNCHANGED <<expired, auth, at, form, steps>>
  BY <1>4 DEF LoggedIn, StoreToken, StoreAndAsk, Store, browser
<1>6. me \in MeCalls /\ me.kind = "me" /\ me.token = n /\ me.issued = n
  BY <1>4, MeCallType
<1>7. \A d \in X : d = me \/ (d \in calls[t] /\ d # c)
  OBVIOUS
<1> HIDE DEF me
<1>8. X \in SUBSET AllCalls
  BY <1>6, CallsType DEF AllCalls
<1>9. calls[t] = {c} => X = {me}
  OBVIOUS
<1>10. me \in X
  OBVIOUS
<1> HIDE DEF X, n
<1>11. OwnersKept /\ Len(owner') \in Nat /\ Len(owner) <= Len(owner')
  <2>1. Len(owner) <= Len(owner') /\ Len(owner') \in Nat
    BY <1>3, <1>4 DEF n
  <2>2. QED BY <1>4, <2>1 DEF OwnersKept, Tokens
<1>12. \A d \in X : d.token <= Len(owner')
  <2>1. \A d \in calls[t] : d.token <= Len(owner')
    BY <1>3, <1>11, CallsType
  <2>2. QED BY <1>4, <1>6, <1>7, <2>1
<1>13. /\ SessionTyped' /\ CallsTyped' /\ \A s \in Tabs \ {t} : TabInv(s)'
      /\ auth'[t] = auth[t] /\ at'[t] = at[t] /\ form'[t] = form[t] /\ calls'[t] = X
  <2>1. auth[t] \in Auths /\ at[t] \in {"login", "app"} /\ form[t] \in Someone /\ auth[t].token <= Len(owner')
    BY <1>3, <1>11, CallsType
  <2>2. expired' \subseteq Tokens' /\ stored' \in 0 .. Len(owner') /\ steps' \in 0 .. MaxSteps
    BY <1>3, <1>4, <1>5, <1>11 DEF TypeInv, SessionTyped, Tokens
  <2>3. crossed' \in {crossed, crossed \ {t}, crossed \cup {t}}
    BY <1>5
  <2>4. OneTab(t, auth[t], at[t], form[t], X)
    BY <1>4, <1>5, <1>8, <1>11, <1>12, <2>1, <2>2, <2>3 DEF OneTab
  <2>5. QED BY <2>4, OneTabKeeps
<1>14. SignInInv(t)'
  BY <1>1, <1>2, <1>6, <1>7, <1>13 DEF TabInv, SignInInv, SigningKinds, Screen
<1>15. LoadInv(t)'
  <2>1. Screen(t)' = "login"
    BY <1>2, <1>13 DEF Screen
  <2>2. t \notin crossed' => X = {me}
    BY <1>5, <1>9
  <2>3. auth'[t].loading => auth'[t].user = None /\ \A d \in calls'[t] : d.kind # "refresh"
    BY <1>1, <1>6, <1>7, <1>13 DEF TabInv, LoadInv
  <2>4. QED BY <1>6, <1>13, <2>1, <2>2, <2>3 DEF LoadInv
<1>16. OwnInv(t)'
  <2>1. Screen(t)' = "login"
    BY <1>2, <1>13 DEF Screen
  <2>2. t \notin crossed' => X = {me}
    BY <1>5, <1>9
  <2>3. stored' = n /\ n # 0
    BY <1>4, <1>5
  <2>4. QED BY <1>6, <1>13, <2>1, <2>2, <2>3 DEF OwnInv, Clean
<1>17. QED BY <1>13, <1>14, <1>15, <1>16 DEF Goal, SessionInv, TabInv

\* A sign-in fails, and the form is free again.
LEMMA LoginFailsKeeps ==
  ASSUME TypeInv, SessionInv, NEW t \in Tabs, NEW c \in calls[t], LoginFails(t, c)
  PROVE  Goal'
<1> DEFINE X == calls[t] \ {c}
<1>1. /\ c.kind = "login" /\ steps < MaxSteps /\ steps' = steps + 1
      /\ form' = [form EXCEPT ![t] = None] /\ calls' = [calls EXCEPT ![t] = X \cup {}]
      /\ UNCHANGED <<owner, expired, stored, auth, at, foreign, crossed>>
  BY DEF LoginFails, Step, Answered, Follow, tokens, past
<1>2. X \in SUBSET AllCalls /\ X \cup {} = X /\ X \subseteq calls[t] /\ c \notin X
  BY CallsType
<1> HIDE DEF X
<1>3. TabInv(t) /\ \A d \in X : d.kind \notin SigningKinds
  BY <1>1, <1>2 DEF SessionInv, TabInv, SignInInv, SigningKinds
<1>4. /\ SessionTyped' /\ CallsTyped' /\ \A s \in Tabs \ {t} : TabInv(s)'
      /\ auth'[t] = auth[t] /\ at'[t] = at[t] /\ form'[t] = None /\ calls'[t] = X
  <2>1. \A d \in X : d.token <= Len(owner')
    BY <1>1, <1>2, CallsType
  <2>2. OneTab(t, auth[t], at[t], None, X)
    BY <1>1, <1>2, <2>1, CallsType, NoneIssued DEF OneTab, Someone
  <2>3. QED BY <2>2, OneTabKeeps
<1>5. SignInInv(t)'
  BY <1>3, <1>4 DEF SignInInv, SigningKinds
<1>6. LoadInv(t)'
  BY <1>1, <1>2, <1>3, <1>4 DEF TabInv, LoadInv, SigningKinds, Screen, Shows, Owner
<1>7. OwnInv(t)'
  BY <1>1, <1>2, <1>3, <1>4 DEF TabInv, OwnInv, Clean, Screen
<1>8. QED BY <1>4, <1>5, <1>6, <1>7 DEF Goal, SessionInv, TabInv

\* So it does when the user of the new token is not answered.
LEMMA MeFailsKeeps ==
  ASSUME TypeInv, SessionInv, NEW t \in Tabs, NEW c \in calls[t], MeFails(t, c)
  PROVE  Goal'
<1> DEFINE X == calls[t] \ {c}
           f == IF c.kind = "me" THEN None ELSE form[t]
<1>1. /\ c.kind \in {"me", "refresh"} /\ steps < MaxSteps /\ steps' = steps + 1
      /\ form' = (IF c.kind = "me" THEN [form EXCEPT ![t] = None] ELSE form)
      /\ calls' = [calls EXCEPT ![t] = X \cup {}]
      /\ UNCHANGED <<owner, expired, stored, auth, at, foreign, crossed>>
  BY DEF MeFails, Step, Answered, Follow, tokens, past
<1>2. X \in SUBSET AllCalls /\ X \cup {} = X /\ X \subseteq calls[t] /\ c \notin X
  BY CallsType
<1>3. (form' = form /\ f = form[t]) \/ form' = [form EXCEPT ![t] = f]
  BY <1>1
<1>4. f \in Someone
  BY CallsType DEF Someone
<1> HIDE DEF X
<1>5. TabInv(t) /\ (c.kind = "me" => \A d \in X : d.kind \notin SigningKinds)
  BY <1>1, <1>2 DEF SessionInv, TabInv, SignInInv, SigningKinds
<1>6. /\ SessionTyped' /\ CallsTyped' /\ \A s \in Tabs \ {t} : TabInv(s)'
      /\ auth'[t] = auth[t] /\ at'[t] = at[t] /\ form'[t] = f /\ calls'[t] = X
  <2>1. \A d \in X : d.token <= Len(owner')
    BY <1>1, <1>2, CallsType
  <2>a. f \in Someone /\ ((form' = form /\ f = form[t]) \/ form' = [form EXCEPT ![t] = f])
    BY <1>3, <1>4
  <2> HIDE DEF f
  <2>2. OneTab(t, auth[t], at[t], f, X)
    BY <1>1, <1>2, <2>1, <2>a, CallsType, NoneIssued DEF OneTab
  <2>3. QED BY <2>2, OneTabKeeps
<1>7. SignInInv(t)'
  BY <1>2, <1>5, <1>6 DEF TabInv, SignInInv, SigningKinds, Screen
<1>8. LoadInv(t)'
  BY <1>1, <1>2, <1>5, <1>6 DEF TabInv, LoadInv, SigningKinds, Screen, Shows, Owner
<1>9. OwnInv(t)'
  BY <1>1, <1>2, <1>6, <1>5 DEF TabInv, OwnInv, Clean, Screen
<1>10. QED BY <1>6, <1>7, <1>8, <1>9 DEF Goal, SessionInv, TabInv

\* A loaded tab whose user is not answered is signed out.
LEMMA FirstFailsKeeps ==
  ASSUME TypeInv, SessionInv, NEW t \in Tabs, NEW c \in calls[t], FirstFails(t, c)
  PROVE  Goal'
<1> DEFINE X == calls[t] \ {c}
<1>1. /\ c.kind = "first" /\ steps < MaxSteps /\ steps' = steps + 1
      /\ stored' = 0 /\ foreign' = (foreign \ {t}) \cup (Tabs \ {t})
      /\ auth' = [auth EXCEPT ![t] = SignedOut] /\ calls' = [calls EXCEPT ![t] = X \cup {}]
      /\ UNCHANGED <<owner, expired, at, form, crossed>>
  BY DEF FirstFails, Step, Store, Answered, Follow
<1>2. SignedOut \in Auths /\ SignedOut.token = 0 /\ SignedOut.loading = FALSE
  BY DEF SignedOut, Auths, Someone
<1>3. X \in SUBSET AllCalls /\ X \cup {} = X /\ X \subseteq calls[t] /\ c \notin X
  BY CallsType
<1> HIDE DEF X
<1>4. /\ SessionTyped' /\ CallsTyped' /\ \A s \in Tabs \ {t} : TabInv(s)'
      /\ auth'[t] = SignedOut /\ at'[t] = at[t] /\ form'[t] = form[t] /\ calls'[t] = X
  <2>1. OneTab(t, SignedOut, at[t], form[t], X)
    <3>1. SignedOut.token <= Len(owner') /\ \A d \in X : d.token <= Len(owner')
      BY <1>1, <1>2, <1>3, CallsType
    <3>2. at[t] \in {"login", "app"} /\ form[t] \in Someone
      BY CallsType
    <3>3. stored' \in 0 .. Len(owner') /\ steps' \in 0 .. MaxSteps /\ expired' \subseteq Tokens'
      BY <1>1, NoneIssued
    <3>4. QED BY <1>1, <1>2, <1>3, <3>1, <3>2, <3>3, NoneIssued DEF OneTab
  <2>2. QED BY <2>1, OneTabKeeps
<1>5. Screen(t)' = "login" /\ TabInv(t)
  BY <1>2, <1>4 DEF Screen, SessionInv
<1>6. SignInInv(t)'
  BY <1>3, <1>4, <1>5 DEF TabInv, SignInInv, SigningKinds
<1>7. t \notin crossed => \A d \in X : d.kind \notin {"first", "me"}
  <2>1. SUFFICES ASSUME t \notin crossed, NEW d \in X, d.kind \in {"first", "me"} PROVE FALSE
    OBVIOUS
  <2>2. d \in calls[t] /\ d # c /\ c \in AllCalls /\ d \in AllCalls
    BY <1>3, CallsType
  <2>3. d.kind = "first" /\ c.token = auth[t].token /\ d.token = auth[t].token
    BY <1>1, <1>5, <2>1, <2>2 DEF TabInv, LoadInv
  <2>4. c \in AskCalls /\ d \in AskCalls
    BY <1>1, <2>2, <2>3, Kinds
  <2>5. c = d
    BY <1>1, <2>3, <2>4 DEF AskCalls
  <2>6. QED BY <2>2, <2>5
<1>8. LoadInv(t)'
  BY <1>1, <1>2, <1>4, <1>5, <1>7 DEF LoadInv
<1>9. OwnInv(t)'
  BY <1>1, <1>2, <1>4, <1>5, <1>7 DEF OwnInv, Clean
<1>10. QED BY <1>4, <1>6, <1>8, <1>9 DEF Goal, SessionInv, TabInv

\* A tab is signed in: unless crossed, its one request was for the user of its token.
LEMMA MeAnsweredKeeps ==
  ASSUME TypeInv, SessionInv, NEW t \in Tabs, NEW c \in calls[t], MeAnswered(t, c)
  PROVE  Goal'
<1> DEFINE X == calls[t] \ {c}
           a == [token |-> c.issued, user |-> Owner(c.token), loading |-> FALSE]
<1>1. /\ c.kind = "me" /\ c.token \in Tokens
      /\ auth' = [auth EXCEPT ![t] = a] /\ at' = [at EXCEPT ![t] = "app"]
      /\ form' = [form EXCEPT ![t] = None] /\ calls' = [calls EXCEPT ![t] = X \cup {}]
      /\ UNCHANGED <<owner, expired, stored, foreign, crossed, steps>>
  BY DEF MeAnswered, Answered, Follow, tokens, past, Valid
<1>2. X \in SUBSET AllCalls /\ X \cup {} = X /\ X \subseteq calls[t] /\ c \notin X
  BY CallsType
<1> HIDE DEF X
<1>3. TabInv(t) /\ c.issued = c.token /\ \A d \in X : d.kind \notin SigningKinds
  BY <1>1, <1>2 DEF SessionInv, TabInv, SignInInv, SigningKinds
<1>4. c.token \in Nat \ {0} /\ c.token <= Len(owner) /\ Owner(c.token) \in Users
  BY <1>1, OwnerType
<1>5. /\ a \in Auths /\ a.token = c.token /\ a.user = Owner(c.token) /\ a.loading = FALSE
  BY <1>3, <1>4 DEF Auths, Someone
<1> HIDE DEF a
<1>6. /\ SessionTyped' /\ CallsTyped' /\ \A s \in Tabs \ {t} : TabInv(s)'
      /\ auth'[t] = a /\ at'[t] = "app" /\ form'[t] = None /\ calls'[t] = X
  <2>1. OneTab(t, a, "app", None, X)
    <3>1. a.token <= Len(owner') /\ \A d \in X : d.token <= Len(owner')
      BY <1>1, <1>2, <1>4, <1>5, CallsType
    <3>2. QED BY <1>1, <1>2, <1>5, <3>1, NoneIssued DEF OneTab, Someone
  <2>2. QED BY <2>1, OneTabKeeps
<1>7. Owner(c.token)' = Owner(c.token)
  BY <1>1 DEF Owner
<1>8. t \notin crossed => X = {}
  BY <1>1, <1>2, <1>3 DEF TabInv, LoadInv, X
<1>9. SignInInv(t)'
  BY <1>3, <1>6 DEF SignInInv, SigningKinds
<1>10. LoadInv(t)'
  BY <1>1, <1>5, <1>6, <1>7, <1>8 DEF LoadInv, Shows
<1>11. OwnInv(t)'
  BY <1>1, <1>3, <1>4, <1>5, <1>6, <1>8 DEF TabInv, OwnInv, Clean
<1>12. QED BY <1>6, <1>9, <1>10, <1>11 DEF Goal, SessionInv, TabInv

\* The user is replaced, and rows may be asked for.
LEMMA UserAnsweredKeeps ==
  ASSUME TypeInv, SessionInv, NEW t \in Tabs, NEW c \in calls[t], NEW more \in SUBSET TableCalls,
         \A d \in more : d.token = stored, UserAnswered(t, c, more)
  PROVE  /\ Goal' /\ ~auth[t].loading'
         /\ calls'[t] = (calls[t] \ {c}) \cup more /\ \A s \in Tabs \ {t} : calls'[s] = calls[s]
         /\ auth'[t].user = Owner(c.token) /\ Owner(c.token) \in Users /\ auth'[t].token = auth[t].token
         /\ at'[t] = at[t] /\ \A s \in Tabs \ {t} : auth'[s] = auth[s]
<1> DEFINE X == (calls[t] \ {c}) \cup more
           a == [token |-> auth[t].token, user |-> Owner(c.token),
                 loading |-> IF c.kind = "first" THEN FALSE ELSE auth[t].loading]
<1>1. /\ c.kind \in {"first", "refresh"} /\ c.token \in Tokens
      /\ calls' = [calls EXCEPT ![t] = X]
      /\ crossed' = IF c.token = auth[t].token THEN crossed ELSE crossed \cup {t}
      /\ UNCHANGED <<owner, expired, stored, at, form, foreign, steps>>
  BY DEF UserAnswered, Follow, tokens, Valid
<1>2. auth' = [auth EXCEPT ![t] = a]
  <2>1. auth \in [Tabs -> Auths]
    BY DEF TypeInv, SessionTyped
  <2>2. auth' = [auth EXCEPT ![t].user = Owner(c.token),
                             ![t].loading = IF c.kind = "first" THEN FALSE ELSE @]
    BY DEF UserAnswered
  <2> DEFINE l == IF c.kind = "first" THEN FALSE ELSE auth[t].loading
  <2>3. auth' = [auth EXCEPT ![t].user = Owner(c.token), ![t].loading = l]
    BY <2>1, <2>2
  <2> HIDE DEF l
  <2> DEFINE u == Owner(c.token)
             r == auth[t]
             b == [r EXCEPT !.user = u]
             h == [auth EXCEPT ![t] = [@ EXCEPT !.user = u]]
  <2>4. r \in Auths
    BY <2>1
  <2>5. b = [token |-> r.token, user |-> u, loading |-> r.loading]
    <3> HIDE DEF r, u
    <3> QED BY <2>4, SMT DEF Auths
  <2>6. [b EXCEPT !.loading = l] = [token |-> r.token, user |-> u, loading |-> l]
    <3> HIDE DEF b, r, u
    <3> QED BY <2>5, SMT
  <2>7. h[t] = b
    BY <2>1
  <2>8. auth' = [h EXCEPT ![t] = [h[t] EXCEPT !.loading = l]]
    BY <2>1, <2>3
  <2>9. auth' = [h EXCEPT ![t] = [b EXCEPT !.loading = l]]
    BY <2>7, <2>8
  <2>10. auth' = [auth EXCEPT ![t] = [token |-> r.token, user |-> u, loading |-> l]]
    <3> HIDE DEF l, r, u
    <3> QED BY <2>1, <2>6, <2>9
  <2>11. QED BY <2>10 DEF l
<1>3. X \in SUBSET AllCalls /\ \A d \in X : d \in more \/ (d \in calls[t] /\ d # c)
  BY CallsType DEF AllCalls
<1>4. \A d \in more : d.kind \in TableKinds /\ d.token = stored
  BY DEF TableCalls
<1>5. TabInv(t)
  BY DEF SessionInv
<1>6. Owner(c.token) \in Users
  BY <1>1, OwnerType
<1>7. a.loading = FALSE
  <2>1. CASE c.kind = "first"
    BY <2>1
  <2>2. CASE c.kind = "refresh"
    <3>1. ~auth[t].loading /\ auth[t].loading \in BOOLEAN
      BY <1>5, <2>2, CallsType DEF TabInv, LoadInv, Auths
    <3>2. QED BY <2>2, <3>1
  <2>3. QED BY <1>1, <2>1, <2>2
<1>8. a \in Auths /\ a.token = auth[t].token /\ a.user = Owner(c.token)
  BY <1>6, CallsType DEF Auths, Someone
<1>9. \A d \in X : d.token <= Len(owner')
  BY <1>1, <1>3, <1>4, CallsType
<1> HIDE DEF a, X
<1>10. /\ SessionTyped' /\ CallsTyped' /\ \A s \in Tabs \ {t} : TabInv(s)'
       /\ auth'[t] = a /\ at'[t] = at[t] /\ form'[t] = form[t] /\ calls'[t] = X
  <2>1. a.token <= Len(owner') /\ at[t] \in {"login", "app"} /\ form[t] \in Someone
    BY <1>1, <1>8, CallsType
  <2>2. OneTab(t, a, at[t], form[t], X)
    BY <1>1, <1>2, <1>3, <1>8, <1>9, <2>1, NoneIssued DEF OneTab
  <2>3. QED BY <2>2, OneTabKeeps
<1>11. Owner(auth[t].token)' = Owner(a.token)
  BY <1>1, <1>8, <1>10 DEF Owner
<1>12. SignInInv(t)'
  BY <1>3, <1>4, <1>5, <1>8, <1>10 DEF TabInv, SignInInv, SigningKinds, TableKinds, Screen
<1>13. t \notin crossed => \A d \in X : d.kind \notin {"first", "me"}
  <2>1. SUFFICES ASSUME t \notin crossed, NEW d \in X, d.kind \in {"first", "me"} PROVE FALSE
    OBVIOUS
  <2>2. d \in calls[t] /\ d # c /\ c \in AllCalls /\ d \in AllCalls
    BY <1>3, <1>4, <2>1, CallsType DEF TableKinds
  <2>3. d.kind = "first" /\ d.token = auth[t].token /\ auth[t].loading
    BY <1>5, <2>1, <2>2 DEF TabInv, LoadInv
  <2>4. c.kind = "first" /\ c.token = auth[t].token
    BY <1>1, <1>5, <2>1, <2>3 DEF TabInv, LoadInv
  <2>5. c \in AskCalls /\ d \in AskCalls
    BY <2>2, <2>3, <2>4, Kinds
  <2>6. c = d
    BY <2>3, <2>4, <2>5 DEF AskCalls
  <2>7. QED BY <2>2, <2>6
<1>14. LoadInv(t)'
  <2>1. t \notin crossed' => t \notin crossed /\ c.token = a.token
    BY <1>1, <1>8
  <2>2. QED BY <1>7, <1>8, <1>10, <1>11, <1>13, <2>1 DEF LoadInv, Shows
<1>15. OwnInv(t)'
  BY <1>1, <1>3, <1>4, <1>5, <1>8, <1>10, <1>13 DEF TabInv, OwnInv, Clean, Screen
<1>16. \A s \in Tabs \ {t} : calls'[s] = calls[s] /\ auth'[s] = auth[s]
  BY <1>1, <1>2 DEF TypeInv, CallsTyped, SessionTyped
<1>17. QED
  BY <1>6, <1>7, <1>8, <1>10, <1>12, <1>14, <1>15, <1>16 DEF Goal, SessionInv, TabInv, X

\* A step of the session.
SessionStep ==
    \/ \E t \in Tabs : Act(t) \/ \E c \in calls[t] : Answer(t, c) \/ UserAnswered(t, c, {})
    \/ \E k \in Tokens : Expire(k)

\* Every step of the session keeps its invariant.
LEMMA SessionKeeps ==
  ASSUME TypeInv, SessionInv, SessionStep
  PROVE  Goal'
<1>1. ASSUME NEW t \in Tabs, Act(t) PROVE Goal'
  <2>1. CASE \E where \in {"login", "app"} : Visit(t, where)
    BY <2>1, VisitKeeps
  <2>2. CASE \E u \in Users : SignIn(t, u)
    BY <2>2, SignInKeeps
  <2>3. CASE Logout(t)
    BY <2>3, LogoutKeeps
  <2>4. CASE RefreshUser(t)
    BY <2>4, RefreshKeeps
  <2>5. QED BY <1>1, <2>1, <2>2, <2>3, <2>4 DEF Act
<1>2. ASSUME NEW t \in Tabs, NEW c \in calls[t], Answer(t, c) PROVE Goal'
  <2>1. CASE LoggedIn(t, c)
    BY <2>1, LoggedInKeeps
  <2>2. CASE LoginFails(t, c)
    BY <2>2, LoginFailsKeeps
  <2>3. CASE MeAnswered(t, c)
    BY <2>3, MeAnsweredKeeps
  <2>4. CASE Unauthorized(t, c)
    BY <2>4, UnauthorizedKeeps
  <2>5. CASE FirstFails(t, c)
    BY <2>5, FirstFailsKeeps
  <2>6. CASE MeFails(t, c)
    BY <2>6, MeFailsKeeps
  <2>7. QED BY <1>2, <2>1, <2>2, <2>3, <2>4, <2>5, <2>6 DEF Answer
<1>3. ASSUME NEW t \in Tabs, NEW c \in calls[t], UserAnswered(t, c, {}) PROVE Goal'
  <2>1. {} \in SUBSET TableCalls /\ \A d \in {} : d.token = stored
    OBVIOUS
  <2>2. QED BY <1>3, <2>1, UserAnsweredKeeps
<1>4. ASSUME NEW k \in Tokens, Expire(k) PROVE Goal'
  BY <1>4, ExpireKeeps
<1>5. QED BY <1>1, <1>2, <1>3, <1>4 DEF SessionStep

-----------------------------------------------------------------------------
\* The pages

PageInv(t) == IsOpen(t) => Mounted(t)
PagesInv   == \A t \in Tabs : PageInv(t)

\* Who has a page open shows a user, and signs in nobody.
LEMMA OpenType ==
  ASSUME TypeInv, SessionInv, PagesInv, NEW t \in Tabs, IsOpen(t)
  PROVE  /\ page[t] \in Pages /\ Mounted(t) /\ Shows(t) \in Users /\ Screen(t) = "app"
         /\ ~auth[t].loading /\ \A c \in calls[t] : c.kind \notin SigningKinds
<1>1. page[t] \in Pages /\ Mounted(t)
  BY DEF PagesInv, PageInv, IsOpen, TypeInv, TablesTyped
<1>2. Shows(t) \in Users /\ Screen(t) = "app"
  BY <1>1, CallsType DEF Mounted, Shows, Auths, Someone
<1>3. TabInv(t)
  BY DEF SessionInv
<1>4. QED BY <1>1, <1>2, <1>3 DEF TabInv, LoadInv, SignInInv, Shows

\* What a step of the session leaves open.
LEMMA ClosePagesKeeps ==
  ASSUME TypeInv, ClosePages
  PROVE  /\ TablesTyped' /\ PagesInv' /\ UNCHANGED <<version, opened, entries, overlaps>>
         /\ \A t \in Tabs : IsOpen(t)' => IsOpen(t) /\ page'[t] = page[t] /\ Mounted(t)'
<1>1. /\ page' = [t \in Tabs |-> Remaining(t)] /\ UNCHANGED <<version, opened, entries, overlaps>>
      /\ page \in [Tabs -> Pages \cup {None}]
  BY DEF ClosePages, feedback, TypeInv, TablesTyped
<1>2. ASSUME NEW t \in Tabs
      PROVE  /\ page'[t] \in {page[t], None}
             /\ page'[t] # None => page[t] # None /\ page'[t] = page[t] /\ Mounted(t)'
  <2>1. page'[t] = Remaining(t)
    BY <1>1
  <2>2. QED BY <2>1 DEF Remaining, Allowed
<1>3. page' \in [Tabs -> Pages \cup {None}]
  BY <1>1, <1>2
<1>4. QED BY <1>1, <1>2, <1>3 DEF TablesTyped, TypeInv, PagesInv, PageInv, IsOpen

\* A request is added by an open page, or follows from another one.
NewCalls(t, X) ==
    \A d \in X : \/ d \in calls[t]
                 \/ /\ d.kind \in TableKinds
                    /\ Mounted(t) \/ \E e \in calls[t] : e.kind \in TableKinds
                    /\ \/ d.token = stored
                       \/ \E e \in calls[t] : e.kind \in TableKinds /\ d.token = e.token

\* What one tab's page, or the server, does: the requests become X, and the page q.
PageStep(t, X, q) ==
    /\ UNCHANGED session /\ steps' \in 0 .. MaxSteps
    /\ X \in SUBSET AllCalls /\ calls' = [calls EXCEPT ![t] = X]
    /\ q \in Pages \cup {None} /\ page' = [page EXCEPT ![t] = q] /\ (q # None => Mounted(t))
    /\ version' \in Nat /\ version <= version'
    /\ opened' \in [Tabs -> Nat] /\ opened[t] <= opened'[t]
    /\ \A s \in Tabs \ {t} : opened'[s] = opened[s]
    /\ entries' \in [Users -> Nat] /\ \A u \in Users : entries[u] <= entries'[u]
    /\ overlaps' \in [Users -> Nat]
    /\ NewCalls(t, X)

\* What one page or the server does leaves types, session and open pages as they should be.
LEMMA PageStepKeeps ==
  ASSUME TypeInv, SessionInv, PagesInv, NEW t \in Tabs, NEW X, NEW q, PageStep(t, X, q)
  PROVE  /\ TypeInv' /\ SessionInv' /\ PagesInv' /\ OwnersKept
         /\ calls'[t] = X /\ page'[t] = q /\ Screen(t)' = Screen(t) /\ Shows(t)' = Shows(t)
         /\ (Clean(t)' <=> Clean(t))
         /\ \A s \in Tabs \ {t} : Alike(s) /\ page'[s] = page[s]
<1> USE DEF PageStep, NewCalls
<1>1. /\ UNCHANGED <<owner, expired, stored, auth, at, form, foreign, crossed>>
  BY DEF session, tokens, browser, past
<1>2. /\ X \in SUBSET AllCalls /\ calls' = [calls EXCEPT ![t] = X] /\ Len(owner') \in Nat
      /\ Len(owner) <= Len(owner')
  BY <1>1, CallsType
<1>3. \A d \in X : d.token <= Len(owner')
  BY <1>1, CallsType
<1>4. CallsTyped' /\ calls'[t] = X /\ \A s \in Tabs \ {t} : calls'[s] = calls[s]
  BY <1>2, <1>3, CallsOne
<1>5. SessionTyped' /\ OwnersKept
  BY <1>1, NoneIssued DEF TypeInv, SessionTyped, Tokens
<1>6. page' \in [Tabs -> Pages \cup {None}] /\ page'[t] = q /\ \A s \in Tabs \ {t} : page'[s] = page[s]
  BY DEF TypeInv, TablesTyped
<1>7. TablesTyped'
  BY <1>6 DEF TablesTyped
<1>8. \A s \in Tabs : /\ Screen(s)' = Screen(s) /\ Shows(s)' = Shows(s) /\ (Clean(s)' <=> Clean(s))
                      /\ (Mounted(s)' <=> Mounted(s))
  BY <1>1 DEF Screen, Shows, Clean, Mounted
<1>9. PagesInv'
  <2>1. ASSUME NEW s \in Tabs, IsOpen(s)' PROVE Mounted(s)'
    <3>1. CASE s = t
      BY <1>6, <1>8, <2>1, <3>1 DEF IsOpen
    <3>2. CASE s # t
      BY <1>6, <1>8, <2>1, <3>2 DEF IsOpen, PagesInv, PageInv
    <3>3. QED BY <3>1, <3>2
  <2>2. QED BY <2>1 DEF PagesInv, PageInv
<1>10. ASSUME NEW s \in Tabs \ {t} PROVE TabInv(s)'
  BY <1>1, <1>4, <1>5, OthersKept DEF SessionInv
<1>11. TabInv(t)'
  <2>1. TabInv(t)
    BY DEF SessionInv
  <2>2. \A d \in X : d \in calls[t] \/ d.kind \in TableKinds
    OBVIOUS
  <2>3. SignInInv(t)'
    BY <1>1, <1>4, <1>8, <2>1, <2>2 DEF TabInv, SignInInv, SigningKinds, TableKinds
  <2>4. ASSUME t \notin crossed, NEW d \in X, d.kind = "me" PROVE X = {d}
    <3>1. d \in calls[t] /\ calls[t] = {d} /\ Screen(t) = "login"
      BY <2>1, <2>2, <2>4 DEF TabInv, SignInInv, LoadInv, SigningKinds, TableKinds
    <3>2. ~Mounted(t) /\ ~\E e \in calls[t] : e.kind \in TableKinds
      BY <3>1, <2>4 DEF Mounted, TableKinds
    <3>3. X \subseteq calls[t]
      BY <3>2
    <3>4. QED BY <2>4, <3>1, <3>3
  <2>5. LoadInv(t)'
    <3>1. auth'[t].loading => auth'[t].user = None /\ \A d \in calls'[t] : d.kind # "refresh"
      BY <1>1, <1>4, <2>1, <2>2 DEF TabInv, LoadInv, TableKinds
    <3>2. ASSUME t \notin crossed, NEW d \in X
          PROVE  /\ d.kind = "first" => auth[t].loading /\ d.token = auth[t].token
                 /\ d.kind = "me" => X = {d}
      BY <2>1, <2>2, <2>4, <3>2 DEF TabInv, LoadInv, TableKinds
    <3>3. t \notin crossed /\ Screen(t) = "app" /\ ~auth[t].loading => Shows(t) = Owner(auth[t].token)
      BY <2>1 DEF TabInv, LoadInv
    <3>4. QED BY <1>1, <1>4, <1>8, <3>1, <3>2, <3>3 DEF LoadInv, Owner
  <2>6. OwnInv(t)'
    <3>1. SUFFICES ASSUME Clean(t)
                   PROVE  /\ Screen(t) = "app" => stored = auth[t].token
                          /\ \A d \in X : d.kind = "me" => d.token = stored
                          /\ auth[t].token # 0 =>
                                /\ stored # 0
                                /\ \A d \in X : d.kind # "login" => d.token \in {auth[t].token, stored}
      BY <1>1, <1>4, <1>8 DEF OwnInv
    <3>2. \A d \in X : d.kind = "me" => d.token = stored
      BY <2>1, <2>2, <3>1 DEF TabInv, OwnInv, TableKinds
    <3>3. ASSUME auth[t].token # 0, NEW d \in X, d.kind # "login"
          PROVE  d.token \in {auth[t].token, stored}
      <4>1. \A e \in calls[t] : e.kind # "login" => e.token \in {auth[t].token, stored}
        BY <2>1, <3>1, <3>3 DEF TabInv, OwnInv
      <4>2. QED BY <3>3, <4>1 DEF TableKinds
    <3>4. QED BY <2>1, <3>1, <3>2, <3>3 DEF TabInv, OwnInv
  <2>7. QED BY <2>3, <2>5, <2>6 DEF TabInv
<1>12. QED BY <1>1, <1>4, <1>5, <1>6, <1>7, <1>8, <1>9, <1>10, <1>11 DEF TypeInv, SessionInv, Alike

-----------------------------------------------------------------------------
\* The tables

\* The requests of a tab's pages, and those of the page that is open.
Asked(t) == {c \in calls[t] : c.kind \in TableKinds}
Its(t)   == {c \in Asked(t) : c.id = page[t].id}

\* No request is of a page to come; what has been read is not newer than what is there.
CallInv(t, c) ==
    /\ c.id <= opened[t]
    /\ c.kind = "save" => c.table = "users" /\ (c.step = "served" => c.version <= version)
    /\ c.kind = "table" /\ c.step = "served" =>
          /\ c.of \in Users /\ c.of = Owner(c.token)
          /\ c.table = "myfeedback" => c.version <= entries[c.of]
    /\ c.step = "counted" => c.token # 0
CallsInv(t) == \A c \in Asked(t) : CallInv(t, c)

\* The newest request is for what is chosen, and no older than the last save.
ItsInv(t, c) ==
    /\ c.table = page[t].table
    /\ c.kind = "table" =>
          /\ c.n <= page[t].asks
          /\ c.n = page[t].asks =>
                /\ ~page[t].behind => c.key = page[t].choice
                /\ c.step = "served" => c.version >= page[t].saved
ShownInv(t) == page[t].shown # None =>
    /\ page[t].holds = page[t].asks =>
          (~page[t].behind => page[t].shown.key = page[t].choice) /\ page[t].shown.version >= page[t].saved
    /\ Clean(t) => page[t].shown.of = Shows(t)
TableInv(t) == IsOpen(t) =>
    /\ page[t].id <= opened[t] /\ page[t].holds <= page[t].asks /\ page[t].saved <= version
    /\ page[t].table # "users" => page[t].saved = 0
    /\ \A c \in Its(t) : ItsInv(t, c)
    /\ ShownInv(t)

\* A user's feedback is read once; until then nothing has been put before it, unless
\* early, and what is put there, or on its way, is newer.
RowsInv(t) ==
    /\ page[t].reported \subseteq page[t].added
    /\ \A c \in Its(t) : c.kind = "table" => page[t].added = {} /\ \A d \in Its(t) : d.kind = "table"
    /\ Clean(t) /\ page[t].shown # None =>
          /\ page[t].shown.version <= entries[Shows(t)]
          /\ \A c \in Its(t) : c.kind = "submit" /\ c.step = "inserted" => c.version > page[t].shown.version
          /\ \A n \in page[t].added : n > page[t].shown.version
EntriesInv(t) == IsOpen(t) /\ page[t].table = "myfeedback" =>
    /\ \A c, d \in Its(t) : c.kind = "table" /\ d.kind = "table" => c = d /\ page[t].busy
    /\ ~page[t].early => RowsInv(t)

RequestsInv(t) == CallsInv(t) /\ TableInv(t) /\ EntriesInv(t)
RequestInv     == \A t \in Tabs : RequestsInv(t)

\* Of the numbers in a page's request.
LEMMA AskedType ==
  ASSUME TypeInv, NEW t \in Tabs, NEW c \in Asked(t)
  PROVE  /\ c \in TableCalls /\ c \in calls[t] /\ c.kind \in TableKinds
         /\ c.id \in Nat /\ c.n \in Nat /\ c.version \in Nat /\ c.key \in Keys /\ c.of \in Someone
         /\ c.table \in AllTables /\ c.step \in {"sent", "served", "counted", "inserted"}
         /\ c.token \in Nat /\ c.token <= Len(owner)
<1>1. c \in AllCalls /\ c.kind \in TableKinds /\ c \in calls[t] /\ c.token \in Nat /\ c.token <= Len(owner)
  BY CallsType DEF Asked
<1>2. c \in TableCalls
  BY <1>1, Kinds
<1>3. QED BY <1>1, <1>2 DEF TableCalls

\* A tab whose page stays as it is, or is closed.
LEMMA TablesKept ==
  ASSUME TypeInv, SessionInv, PagesInv, NEW t \in Tabs, RequestsInv(t), OwnersKept,
         Asked(t)' \subseteq Asked(t), opened'[t] = opened[t],
         IsOpen(t)' => page'[t] = page[t],
         IsOpen(t)' /\ Clean(t)' => Clean(t) /\ Shows(t)' = Shows(t),
         version \in Nat, version' \in Nat, version <= version',
         entries \in [Users -> Nat], entries' \in [Users -> Nat],
         \A u \in Users : entries[u] <= entries'[u]
  PROVE  RequestsInv(t)'
<1>1. CallsInv(t)'
  <2>1. SUFFICES ASSUME NEW c \in Asked(t)' PROVE CallInv(t, c)'
    BY DEF CallsInv
  <2>2. CallInv(t, c) /\ c \in Asked(t)
    BY DEF RequestsInv, CallsInv
  <2>3. c.version \in Nat /\ Owner(c.token)' = Owner(c.token)
    BY <2>2, AskedType, OwnerKept
  <2>4. QED BY <2>2, <2>3 DEF CallInv
<1>2. ASSUME IsOpen(t)'
      PROVE  /\ IsOpen(t) /\ page'[t] = page[t] /\ page[t] \in Pages /\ Its(t)' \subseteq Its(t)
             /\ Clean(t)' => Clean(t) /\ Shows(t)' = Shows(t) /\ Shows(t) \in Users
  <2>1. IsOpen(t) /\ page'[t] = page[t]
    BY <1>2 DEF IsOpen
  <2>2. QED BY <1>2, <2>1, OpenType DEF Its
<1>3. TableInv(t)'
  <2>1. SUFFICES ASSUME IsOpen(t)'
                 PROVE  /\ (page[t].id <= opened[t])' /\ (page[t].holds <= page[t].asks)'
                        /\ (page[t].saved <= version)' /\ (page[t].table # "users" => page[t].saved = 0)'
                        /\ (\A c \in Its(t) : ItsInv(t, c))' /\ ShownInv(t)'
    BY DEF TableInv
  <2>2. TableInv(t) /\ page[t].saved \in Nat
    BY <1>2, <2>1 DEF RequestsInv, Pages
  <2>3. (\A c \in Its(t) : ItsInv(t, c))'
    BY <1>2, <2>1, <2>2 DEF TableInv, ItsInv
  <2>4. ShownInv(t)'
    BY <1>2, <2>1, <2>2 DEF TableInv, ShownInv
  <2>5. QED BY <1>2, <2>1, <2>2, <2>3, <2>4 DEF TableInv
<1>4. EntriesInv(t)'
  <2>1. SUFFICES ASSUME IsOpen(t)', page[t].table = "myfeedback"
                 PROVE  /\ (\A c, d \in Its(t) : c.kind = "table" /\ d.kind = "table" => c = d /\ page[t].busy)'
                        /\ ~page[t].early => RowsInv(t)'
    BY <1>2 DEF EntriesInv
  <2>2. EntriesInv(t)
    BY DEF RequestsInv
  <2>3. (\A c, d \in Its(t) : c.kind = "table" /\ d.kind = "table" => c = d /\ page[t].busy)'
    BY <1>2, <2>1, <2>2 DEF EntriesInv
  <2>4. ASSUME ~page[t].early PROVE RowsInv(t)'
    <3>1. RowsInv(t)
      BY <1>2, <2>1, <2>2, <2>4 DEF EntriesInv
    <3>2. Shows(t) \in Users /\ Clean(t)' /\ page[t].shown # None =>
             page[t].shown.version \in Nat /\ entries[Shows(t)] <= entries'[Shows(t)]
      BY <1>2, <2>1 DEF Pages, Rows
    <3>3. QED BY <1>2, <2>1, <3>1, <3>2 DEF RowsInv
  <2>5. QED BY <2>3, <2>4
<1>5. QED BY <1>1, <1>3, <1>4 DEF RequestsInv

\* A step of the session asks for no rows; a page that stays open shows whom it showed,
\* or an answer of an earlier token has come.
Quiet(t) == /\ Asked(t)' \subseteq Asked(t)
            /\ IsOpen(t)' /\ Clean(t)' => Clean(t) /\ Shows(t)' = Shows(t)

\* The pages are quiet where their requests are dropped at most, and the user is kept.
LEMMA QuietTab ==
  ASSUME TypeInv, ClosePages, NEW t \in Tabs, NEW X, calls' = [calls EXCEPT ![t] = X],
         \A d \in X : d \in calls[t] \/ d.kind \notin TableKinds,
         \A s \in Tabs \ {t} : /\ auth'[s] = auth[s]
                               /\ s \in foreign => s \in foreign'
                               /\ s \in crossed => s \in crossed',
         IsOpen(t) /\ Mounted(t)' /\ Clean(t)' => Clean(t) /\ Shows(t)' = Shows(t)
  PROVE  \A s \in Tabs : Quiet(s)
<1>1. calls'[t] = X /\ \A s \in Tabs \ {t} : calls'[s] = calls[s]
  BY DEF TypeInv, CallsTyped
<1>2. \A s \in Tabs : IsOpen(s)' => IsOpen(s) /\ Mounted(s)'
  BY ClosePagesKeeps
<1>3. \A s \in Tabs : Asked(s)' \subseteq Asked(s)
  BY <1>1 DEF Asked
<1>4. \A s \in Tabs \ {t} : Clean(s)' => Clean(s)
  BY DEF Clean
<1>5. QED BY <1>2, <1>3, <1>4 DEF Quiet, Shows

\* What users do in the session leaves the pages of all tabs in peace.
LEMMA ActQuiet ==
  ASSUME TypeInv, SessionInv, PagesInv, ClosePages, NEW t \in Tabs, Act(t)
  PROVE  OwnersKept /\ \A s \in Tabs : Quiet(s)
<1>1. ASSUME NEW where \in {"login", "app"}, Visit(t, where) PROVE owner' = owner /\ \A s \in Tabs : Quiet(s)
  <2> DEFINE X == IF stored = 0 THEN {} ELSE {Call("first", stored)}
  <2>1. /\ calls' = [calls EXCEPT ![t] = X] /\ owner' = owner /\ foreign' = foreign \ {t}
        /\ crossed' = crossed \ {t} /\ auth \in [Tabs -> Auths]
        /\ auth' = [auth EXCEPT ![t] = [token |-> stored, user |-> None, loading |-> stored # 0]]
    BY <1>1 DEF Visit, Load, tokens, TypeInv, SessionTyped
  <2>2. \A d \in X : d.kind \notin TableKinds
    BY CallsType, SessionCallType DEF TableKinds
  <2>3. ~Mounted(t)'
    BY <2>1 DEF Mounted, Shows
  <2> HIDE DEF X
  <2>4. QED BY <2>1, <2>2, <2>3, QuietTab
<1>2. ASSUME NEW u \in Users, SignIn(t, u) PROVE owner' = owner /\ \A s \in Tabs : Quiet(s)
  <2> DEFINE X == calls[t] \cup {Call("login", 0)}
  <2>1. calls' = [calls EXCEPT ![t] = X] /\ UNCHANGED <<owner, auth, foreign, crossed>>
    BY <1>2 DEF SignIn, tokens, past
  <2>2. \A d \in X : d \in calls[t] \/ d.kind \notin TableKinds
    BY SessionCallType DEF TableKinds
  <2>3. Clean(t)' => Clean(t) /\ Shows(t)' = Shows(t)
    BY <2>1 DEF Clean, Shows
  <2> HIDE DEF X
  <2>4. QED BY <2>1, <2>2, <2>3, QuietTab
<1>3. ASSUME Logout(t) PROVE owner' = owner /\ \A s \in Tabs : Quiet(s)
  <2>1. /\ calls' = [calls EXCEPT ![t] = calls[t]] /\ auth' = [auth EXCEPT ![t] = SignedOut]
        /\ foreign' = (foreign \ {t}) \cup (Tabs \ {t}) /\ UNCHANGED <<owner, crossed>>
        /\ at' = [at EXCEPT ![t] = "login"]
    BY <1>3 DEF Logout, Store, TypeInv, CallsTyped
  <2>2. ~Mounted(t)' /\ \A s \in Tabs \ {t} : auth'[s] = auth[s]
    BY <2>1 DEF Mounted, Screen, TypeInv, SessionTyped
  <2>3. \A s \in Tabs \ {t} : auth'[s] = auth[s] /\ (s \in foreign => s \in foreign')
                               /\ (s \in crossed => s \in crossed')
    BY <2>1, <2>2
  <2>4. QED BY <2>1, <2>2, <2>3, QuietTab
<1>4. ASSUME RefreshUser(t) PROVE owner' = owner /\ \A s \in Tabs : Quiet(s)
  <2> DEFINE X == calls[t] \cup {Call("refresh", stored)}
  <2>1. calls' = [calls EXCEPT ![t] = X] /\ UNCHANGED <<owner, auth, foreign, crossed>>
    BY <1>4 DEF RefreshUser, session, tokens, browser, past
  <2>2. \A d \in X : d \in calls[t] \/ d.kind \notin TableKinds
    BY CallsType, SessionCallType DEF TableKinds
  <2>3. Clean(t)' => Clean(t) /\ Shows(t)' = Shows(t)
    BY <2>1 DEF Clean, Shows
  <2> HIDE DEF X
  <2>4. QED BY <2>1, <2>2, <2>3, QuietTab
<1>5. QED BY <1>1, <1>2, <1>3, <1>4, NoneIssued DEF Act

\* So do the answers to its requests.
LEMMA AnswerQuiet ==
  ASSUME TypeInv, SessionInv, PagesInv, ClosePages, NEW t \in Tabs, NEW c \in calls[t],
         Answer(t, c) \/ UserAnswered(t, c, {})
  PROVE  OwnersKept /\ \A s \in Tabs : Quiet(s)
<1>a. /\ auth \in [Tabs -> Auths] /\ at \in [Tabs -> {"login", "app"}] /\ TabInv(t)
      /\ foreign \subseteq Tabs /\ crossed \subseteq Tabs
  BY DEF TypeInv, SessionTyped, SessionInv
<1>b. c.kind \in SigningKinds => ~IsOpen(t)
  BY OpenType
<1> DEFINE X == calls[t] \ {c}
<1>c. X \cup {} = X /\ \A d \in X : d \in calls[t]
  OBVIOUS
<1> HIDE DEF X
<1>1. ASSUME LoggedIn(t, c) PROVE OwnersKept /\ \A s \in Tabs : Quiet(s)
  <2> DEFINE n == Len(owner) + 1
             me == [Call("me", n) EXCEPT !.issued = n]
             Y == X \cup {me}
  <2>0. /\ c.kind = "login" /\ owner' = Append(owner, form[t]) /\ owner \in Seq(Users) /\ Len(owner) \in Nat
        /\ form[t] \in Users
    BY <1>1, <1>a, CallsType
       DEF LoggedIn, StoreToken, StoreAndAsk, TypeInv, SessionTyped, TabInv, SignInInv, SigningKinds, Someone
  <2>1. Len(owner') = n /\ n \in Nat \ {0} /\ \A k \in 1 .. Len(owner) : owner'[k] = owner[k]
    BY <2>0
  <2>2. /\ calls' = [calls EXCEPT ![t] = Y] /\ foreign' = (foreign \ {t}) \cup (Tabs \ {t})
        /\ crossed' \in {crossed \ {t}, crossed \cup {t}} /\ auth' = auth
    BY <1>1, <2>1 DEF LoggedIn, StoreToken, StoreAndAsk, Store, browser, X
  <2>3. me.kind = "me"
    BY <2>1, MeCallType
  <2> HIDE DEF me
  <2>4. \A d \in Y : d \in calls[t] \/ d.kind \notin TableKinds
    BY <1>c, <2>3 DEF TableKinds
  <2> HIDE DEF Y
  <2>5. ~IsOpen(t)
    BY <1>b, <2>0 DEF SigningKinds
  <2>6. OwnersKept
    BY <2>0, <2>1 DEF OwnersKept, Tokens
  <2>7. QED BY <2>2, <2>4, <2>5, <2>6, QuietTab
<1>2. ASSUME LoginFails(t, c) \/ MeFails(t, c) PROVE OwnersKept /\ \A s \in Tabs : Quiet(s)
  <2>1. calls' = [calls EXCEPT ![t] = X] /\ UNCHANGED <<owner, auth, foreign, crossed>>
    BY <1>2, <1>c DEF LoginFails, MeFails, Answered, Follow, tokens, past, X
  <2>2. Clean(t)' => Clean(t) /\ Shows(t)' = Shows(t)
    BY <2>1 DEF Clean, Shows
  <2>3. QED BY <1>c, <2>1, <2>2, QuietTab, NoneIssued
<1>3. ASSUME MeAnswered(t, c) PROVE OwnersKept /\ \A s \in Tabs : Quiet(s)
  <2>1. /\ calls' = [calls EXCEPT ![t] = X] /\ UNCHANGED <<owner, foreign, crossed>> /\ c.kind = "me"
        /\ \A s \in Tabs \ {t} : auth'[s] = auth[s]
    BY <1>3, <1>a, <1>c DEF MeAnswered, Answered, Follow, tokens, past, X
  <2>2. ~IsOpen(t)
    BY <1>b, <2>1 DEF SigningKinds
  <2>3. QED BY <1>c, <2>1, <2>2, QuietTab, NoneIssued
<1>4. ASSUME Unauthorized(t, c) PROVE OwnersKept /\ \A s \in Tabs : Quiet(s)
  <2>1. /\ calls' = [calls EXCEPT ![t] = {}] /\ owner' = owner
        /\ foreign' = (foreign \ {t}) \cup (Tabs \ {t}) /\ crossed' = crossed \ {t}
        /\ at' = [at EXCEPT ![t] = "login"] /\ \A s \in Tabs \ {t} : auth'[s] = auth[s]
    BY <1>4, <1>a DEF Unauthorized, Load, Store
  <2>2. ~Mounted(t)'
    BY <1>a, <2>1 DEF Mounted, Screen
  <2>3. \A s \in Tabs \ {t} : auth'[s] = auth[s] /\ (s \in foreign => s \in foreign')
                               /\ (s \in crossed => s \in crossed')
    BY <2>1
  <2> DEFINE Z == {}
  <2>4. (\A d \in Z : d \in calls[t] \/ d.kind \notin TableKinds) /\ calls' = [calls EXCEPT ![t] = Z]
    BY <2>1
  <2> HIDE DEF Z
  <2>5. \A s \in Tabs : Quiet(s)
    BY <2>2, <2>3, <2>4, QuietTab
  <2>6. QED BY <2>1, <2>5, NoneIssued
<1>5. ASSUME FirstFails(t, c) PROVE OwnersKept /\ \A s \in Tabs : Quiet(s)
  <2>1. /\ calls' = [calls EXCEPT ![t] = X] /\ UNCHANGED <<owner, crossed>>
        /\ foreign' = (foreign \ {t}) \cup (Tabs \ {t}) /\ auth' = [auth EXCEPT ![t] = SignedOut]
    BY <1>5, <1>c DEF FirstFails, Store, Answered, Follow, X
  <2>2. auth'[t].token = 0 /\ \A s \in Tabs \ {t} : auth'[s] = auth[s]
    BY <1>a, <2>1 DEF SignedOut
  <2>3. ~Mounted(t)'
    BY <2>2 DEF Mounted, Screen
  <2>4. \A s \in Tabs \ {t} : auth'[s] = auth[s] /\ (s \in foreign => s \in foreign')
                               /\ (s \in crossed => s \in crossed')
    BY <2>1, <2>2
  <2>5. QED BY <1>c, <2>1, <2>3, <2>4, QuietTab, NoneIssued
<1>6. ASSUME UserAnswered(t, c, {}) PROVE OwnersKept /\ \A s \in Tabs : Quiet(s)
  <2>1. /\ calls' = [calls EXCEPT ![t] = X] /\ UNCHANGED <<owner, foreign>>
        /\ crossed' = IF c.token = auth[t].token THEN crossed ELSE crossed \cup {t}
        /\ {} \in SUBSET TableCalls /\ \A d \in {} : d.token = stored
    BY <1>6, <1>c DEF UserAnswered, Follow, tokens, X
  <2>2. auth'[t].user = Owner(c.token) /\ \A s \in Tabs \ {t} : auth'[s] = auth[s]
    BY <1>6, <2>1, UserAnsweredKeeps
  <2>3. ASSUME IsOpen(t), Clean(t)' PROVE Clean(t) /\ Shows(t)' = Shows(t)
    <3>1. Clean(t) /\ c.token = auth[t].token
      BY <1>a, <2>1, <2>3 DEF Clean
    <3>2. Shows(t) = Owner(auth[t].token)
      BY <1>a, <2>3, <3>1, OpenType DEF TabInv, LoadInv, Clean
    <3>3. QED BY <2>2, <3>1, <3>2 DEF Shows
  <2>4. QED BY <1>c, <2>1, <2>2, <2>3, QuietTab, NoneIssued
<1>7. QED BY <1>1, <1>2, <1>3, <1>4, <1>5, <1>6 DEF Answer

Inv == TypeInv /\ SessionInv /\ PagesInv /\ RequestInv

\* A step of the session, and what it closes.
LEMMA SessionClosesInv ==
  ASSUME Inv, SessionStep, ClosePages
  PROVE  Inv' /\ OwnersKept /\ UNCHANGED <<version, opened, entries, overlaps>>
         /\ \A t \in Tabs : Asked(t)' \subseteq Asked(t)
<1> USE DEF Inv
<1>1. Goal' /\ TablesTyped' /\ PagesInv' /\ UNCHANGED <<version, opened, entries, overlaps>>
  BY SessionKeeps, ClosePagesKeeps
<1>2. OwnersKept /\ \A t \in Tabs : Quiet(t)
  <2>1. CASE \E t \in Tabs : Act(t)
    BY <2>1, ActQuiet
  <2>2. CASE \E t \in Tabs : \E c \in calls[t] : Answer(t, c) \/ UserAnswered(t, c, {})
    BY <2>2, AnswerQuiet
  <2>3. CASE \E k \in Tokens : Expire(k)
    <3>1. UNCHANGED <<owner, auth, calls, foreign, crossed>>
      BY <2>3 DEF Expire, browser, past
    <3>2. \A t \in Tabs : Quiet(t)
      BY <3>1 DEF Quiet, Asked, Clean, Shows
    <3>3. QED BY <3>1, <3>2, NoneIssued
  <2>4. QED BY <2>1, <2>2, <2>3 DEF SessionStep
<1>3. ASSUME NEW t \in Tabs PROVE RequestsInv(t)'
  <2>1. RequestsInv(t) /\ Quiet(t) /\ (IsOpen(t)' => page'[t] = page[t])
    BY <1>2, ClosePagesKeeps DEF RequestInv
  <2>2. /\ version \in Nat /\ version' \in Nat /\ version <= version'
        /\ entries \in [Users -> Nat] /\ entries' \in [Users -> Nat]
        /\ (\A u \in Users : entries[u] <= entries'[u]) /\ opened'[t] = opened[t]
    BY <1>1 DEF TypeInv, TablesTyped
  <2>3. QED BY <1>2, <2>1, <2>2, TablesKept DEF Quiet
<1>4. QED BY <1>1, <1>2, <1>3 DEF Goal, TypeInv, RequestInv, Quiet

\* A step of one page keeps the invariant if it keeps what is said of that page.
LEMMA PageStepInv ==
  ASSUME Inv, NEW t \in Tabs, NEW X, NEW q, PageStep(t, X, q), RequestsInv(t)'
  PROVE  Inv' /\ UNCHANGED owner
<1> USE DEF Inv
<1>1. /\ TypeInv' /\ SessionInv' /\ PagesInv' /\ OwnersKept
      /\ \A s \in Tabs \ {t} : Alike(s) /\ page'[s] = page[s]
  BY PageStepKeeps
<1>2. UNCHANGED <<owner, auth, foreign, crossed>>
  BY DEF PageStep, session, tokens, browser, past
<1>3. ASSUME NEW s \in Tabs \ {t} PROVE RequestsInv(s)'
  <2>1. /\ RequestsInv(s) /\ Asked(s)' = Asked(s) /\ page'[s] = page[s]
        /\ Shows(s)' = Shows(s) /\ (Clean(s)' <=> Clean(s))
    BY <1>1, <1>2 DEF RequestInv, Asked, Alike, Shows, Clean
  <2>2. /\ version \in Nat /\ version' \in Nat /\ version <= version'
        /\ entries \in [Users -> Nat] /\ entries' \in [Users -> Nat]
        /\ (\A u \in Users : entries[u] <= entries'[u]) /\ opened'[s] = opened[s]
    BY DEF PageStep, TypeInv, TablesTyped
  <2>3. QED BY <1>1, <2>1, <2>2, TablesKept
<1>4. QED BY <1>1, <1>2, <1>3 DEF RequestInv

-----------------------------------------------------------------------------
\* The pages' actions

\* No submission is counted.
CountedKept ==
    /\ UNCHANGED <<entries, overlaps>>
    /\ \A s \in Tabs : \A d \in calls'[s] : d.kind = "submit" /\ d.step = "counted" => d \in calls[s]

\* A step of one page that writes nothing in the database.
LEMMA Stepping ==
  ASSUME TypeInv, NEW t \in Tabs, NEW X \in SUBSET AllCalls, NEW q \in Pages \cup {None},
         UNCHANGED session, Step \/ steps' = steps, q # None => Mounted(t), NewCalls(t, X),
         calls' = [calls EXCEPT ![t] = X], page' = [page EXCEPT ![t] = q],
         UNCHANGED <<version, opened, entries, overlaps>>
  PROVE  PageStep(t, X, q)
<1>1. steps' \in 0 .. MaxSteps
  BY DEF TypeInv, SessionTyped, Step
<1>2. /\ version' \in Nat /\ version <= version'
      /\ opened' \in [Tabs -> Nat] /\ opened[t] <= opened'[t]
      /\ entries' \in [Users -> Nat] /\ (\A u \in Users : entries[u] <= entries'[u])
      /\ overlaps' \in [Users -> Nat]
  BY DEF TypeInv, TablesTyped
<1>3. QED BY <1>1, <1>2 DEF PageStep

\* A page's request is added.
LEMMA Adding ==
  ASSUME TypeInv, NEW t \in Tabs, NEW d \in TableCalls, d.token = stored, Mounted(t)
  PROVE  calls[t] \cup {d} \in SUBSET AllCalls /\ NewCalls(t, calls[t] \cup {d})
<1>1. d.kind \in TableKinds /\ d \in AllCalls
  BY Kinds DEF AllCalls
<1>2. QED BY <1>1, CallsType DEF NewCalls

\* It is followed by another, or by none.
LEMMA Following ==
  ASSUME TypeInv, NEW t \in Tabs, NEW c \in calls[t], c.kind \in TableKinds
  PROVE  /\ c \in Asked(t)
         /\ (calls[t] \ {c}) \cup {} = calls[t] \ {c}
         /\ calls[t] \ {c} \in SUBSET AllCalls /\ NewCalls(t, calls[t] \ {c})
         /\ \A d \in TableCalls : d.token \in {c.token, stored} =>
               /\ (calls[t] \ {c}) \cup {d} \in SUBSET AllCalls
               /\ NewCalls(t, (calls[t] \ {c}) \cup {d})
<1>1. \A d \in TableCalls : d.kind \in TableKinds /\ d \in AllCalls
  BY Kinds DEF AllCalls
<1>2. c \in Asked(t) /\ (calls[t] \ {c}) \cup {} = calls[t] \ {c}
  BY DEF Asked
<1>3. calls[t] \ {c} \in SUBSET AllCalls /\ NewCalls(t, calls[t] \ {c})
  BY CallsType DEF NewCalls
<1>4. ASSUME NEW d \in TableCalls, d.token \in {c.token, stored}
      PROVE  /\ (calls[t] \ {c}) \cup {d} \in SUBSET AllCalls
             /\ NewCalls(t, (calls[t] \ {c}) \cup {d})
  BY <1>1, <1>4, CallsType DEF NewCalls
<1>5. QED BY <1>2, <1>3, <1>4

\* A page is opened: its number is new, so it has no request but its first.
LEMMA OpenPageKeeps ==
  ASSUME Inv, NEW t \in Tabs, NEW table \in Tables[t], OpenPage(t, table)
  PROVE  Inv' /\ UNCHANGED owner /\ CountedKept
<1> USE DEF Inv
<1> DEFINE n == opened[t] + 1
           q == NewPage(n, table)
           d == TableCall(q, FirstKey, 1)
           X == calls[t] \cup {d}
<1>1. /\ Mounted(t) /\ ~IsOpen(t) /\ opened \in [Tabs -> Nat] /\ page \in [Tabs -> Pages \cup {None}]
      /\ opened' = [opened EXCEPT ![t] = n]
      /\ UNCHANGED <<session, steps, version, entries, overlaps>>
  BY DEF OpenPage, Allowed, TypeInv, TablesTyped, feedback
<1>2. opened' \in [Tabs -> Nat] /\ opened'[t] = n /\ n \in Nat /\ n > opened[t]
      /\ \A s \in Tabs \ {t} : opened'[s] = opened[s]
  BY <1>1
<1>3. page' = [page EXCEPT ![t] = q] /\ calls' = [calls EXCEPT ![t] = X]
  BY <1>1, <1>2 DEF OpenPage, Add
<1>4. table \in AllTables /\ FirstKey \in Keys
  BY DEF AllTables, FirstKey, Keys
<1>5. /\ q \in Pages /\ q.id = n /\ q.table = table /\ q.shown = None /\ q.asks = 1 /\ q.holds = 0
      /\ q.saved = 0 /\ q.added = {} /\ q.reported = {} /\ q.choice = FirstKey /\ q.busy = TRUE
      /\ q.behind = FALSE
  BY <1>2, <1>4 DEF NewPage, Pages
<1> HIDE DEF q
<1>6. /\ d \in TableCalls /\ d.kind = "table" /\ d.token = stored /\ d.step = "sent" /\ d.id = n
      /\ d.table = table /\ d.key = FirstKey /\ d.n = 1
  BY <1>2, <1>4, <1>5, TableCallType
<1> HIDE DEF d
<1>7. PageStep(t, X, q)
  <2>1. steps' \in 0 .. MaxSteps /\ version' \in Nat /\ version <= version'
        /\ entries' \in [Users -> Nat] /\ (\A u \in Users : entries[u] <= entries'[u])
        /\ overlaps' \in [Users -> Nat]
    BY <1>1 DEF TypeInv, SessionTyped, TablesTyped
  <2>2. QED BY <1>1, <1>2, <1>3, <1>5, <1>6, <2>1, Adding DEF PageStep
<1>8. /\ calls'[t] = X /\ page'[t] = q /\ \A s \in Tabs \ {t} : calls'[s] = calls[s]
  BY <1>7, PageStepKeeps DEF Alike
<1>9. RequestsInv(t)
  BY DEF RequestInv
<1>10. \A e \in Asked(t)' : e = d \/ (e \in Asked(t) /\ e.id <= opened[t] /\ e.id \in Nat)
  BY <1>8, <1>9, AskedType DEF Asked, RequestsInv, CallsInv, CallInv
<1>11. \A e \in Its(t)' : e = d
  BY <1>1, <1>2, <1>5, <1>8, <1>10 DEF Its
<1>12. CallsInv(t)'
  <2>1. \A e \in Asked(t) : CallInv(t, e) /\ e.id \in Nat
    BY <1>9, AskedType DEF RequestsInv, CallsInv
  <2>2. Owner(stored)' = Owner(stored) /\ \A e \in Asked(t) : Owner(e.token)' = Owner(e.token)
    BY <1>1 DEF session, tokens, Owner
  <2>3. QED BY <1>1, <1>2, <1>6, <1>10, <2>1, <2>2 DEF CallsInv, CallInv
<1>13. TableInv(t)'
  BY <1>1, <1>2, <1>5, <1>6, <1>8, <1>11 DEF TableInv, ItsInv, ShownInv, TypeInv, TablesTyped
<1>14. EntriesInv(t)'
  BY <1>5, <1>6, <1>8, <1>11 DEF EntriesInv, RowsInv
<1>15. CountedKept
  BY <1>1, <1>6, <1>8 DEF CountedKept
<1>16. QED BY <1>7, <1>12, <1>13, <1>14, <1>15, PageStepInv DEF RequestsInv

\* An open page asks for its rows.
LEMMA AsksKeeps ==
  ASSUME Inv, NEW t \in Tabs, IsOpen(t), page[t].table # "myfeedback", NEW q \in Pages, NEW d \in TableCalls,
         UNCHANGED session, Step, UNCHANGED <<version, opened, entries, overlaps>>,
         page' = [page EXCEPT ![t] = q], calls' = [calls EXCEPT ![t] = @ \cup {d}],
         q.id = page[t].id, q.table = page[t].table, q.shown = page[t].shown, q.holds = page[t].holds,
         q.saved = page[t].saved, q.asks = page[t].asks + 1,
         d.kind = "table", d.step = "sent", d.token = stored, d.id = q.id, d.table = q.table,
         d.n = q.asks, d.key = q.choice
  PROVE  Inv' /\ UNCHANGED owner /\ CountedKept
<1> USE DEF Inv
<1> DEFINE X == calls[t] \cup {d}
<1>1. page[t] \in Pages /\ Mounted(t) /\ RequestsInv(t)
  BY OpenType DEF RequestInv
<1>2. PageStep(t, X, q)
  <2>1. calls' = [calls EXCEPT ![t] = X]
    OBVIOUS
  <2>2. QED BY <1>1, <2>1, Adding, Stepping
<1>3. /\ calls'[t] = X /\ page'[t] = q /\ (Clean(t)' <=> Clean(t)) /\ Shows(t)' = Shows(t)
      /\ \A s \in Tabs \ {t} : calls'[s] = calls[s]
  BY <1>2, PageStepKeeps DEF Alike
<1>4. \A e \in Asked(t)' : e = d \/ e \in Asked(t)
  BY <1>3 DEF Asked
<1>5. \A e \in Its(t)' : e = d \/ e \in Its(t)
  BY <1>3, <1>4 DEF Its
<1>6. TableInv(t) /\ CallsInv(t) /\ page[t].asks \in Nat /\ page[t].holds \in Nat /\ page[t].id <= opened[t]
  BY <1>1 DEF RequestsInv, TableInv, Pages
<1>7. CallsInv(t)'
  <2>1. \A k : Owner(k)' = Owner(k)
    BY DEF session, tokens, Owner
  <2>2. QED BY <1>4, <1>6, <2>1 DEF CallsInv, CallInv
<1>8. TableInv(t)'
  <2>1. \A e \in Its(t) : e.n \in Nat
    BY AskedType DEF Its
  <2>2. ASSUME NEW e \in Its(t)' PROVE ItsInv(t, e)'
    <3>1. CASE e = d
      BY <1>3, <1>6, <3>1 DEF ItsInv
    <3>2. CASE e \in Its(t)
      <4>1. ItsInv(t, e) /\ e.n \in Nat
        BY <1>6, <2>1, <3>2 DEF TableInv
      <4>2. QED BY <1>3, <1>6, <4>1 DEF ItsInv
    <3>3. QED BY <1>5, <2>2, <3>1, <3>2
  <2>3. ShownInv(t)'
    BY <1>3, <1>6 DEF TableInv, ShownInv
  <2>4. QED BY <1>3, <1>6, <2>2, <2>3 DEF TableInv
<1>9. EntriesInv(t)'
  BY <1>3 DEF EntriesInv
<1>10. CountedKept
  BY <1>3 DEF CountedKept
<1>11. QED BY <1>2, <1>7, <1>8, <1>9, <1>10, PageStepInv DEF RequestsInv

\* A page that asks is a page.
LEMMA AskingType ==
  ASSUME NEW p \in Pages, NEW k \in Keys
  PROVE  /\ Asking(p, k) \in Pages /\ Asking(p, k).choice = k /\ Asking(p, k).asks = p.asks + 1
         /\ Asking(p, k).id = p.id /\ Asking(p, k).table = p.table /\ Asking(p, k).shown = p.shown
         /\ Asking(p, k).holds = p.holds /\ Asking(p, k).saved = p.saved
<1> DEFINE q == Asking(p, k)
           n == p.asks + 1
<1>1. q = [p EXCEPT !.choice = k, !.asks = n, !.busy = TRUE, !.behind = FALSE]
  BY DEF Asking
<1>2. n \in Nat /\ TRUE \in BOOLEAN /\ FALSE \in BOOLEAN
  BY DEF Pages
<1>3. q \in Pages
  <2> HIDE DEF q, n
  <2> QED BY <1>1, <1>2, ZenonT(30) DEF Pages
<1>4. QED BY <1>3 DEF Asking, Pages

\* A page asks for what is chosen; its newest request is the one just sent.
LEMMA AskForKeeps ==
  ASSUME Inv, NEW t \in Tabs, IsOpen(t), page[t].table # "myfeedback", NEW k \in Keys, AskFor(t, k)
  PROVE  Inv' /\ UNCHANGED owner /\ CountedKept
<1> DEFINE q == Asking(page[t], k)
           d == TableCall(page[t], k, q.asks)
<1>1. page[t] \in Pages /\ page \in [Tabs -> Pages \cup {None}] /\ calls \in [Tabs -> SUBSET AllCalls]
  BY OpenType DEF Inv, TypeInv, TablesTyped, CallsTyped
<1>2. /\ page' = [page EXCEPT ![t] = q] /\ calls' = [calls EXCEPT ![t] = @ \cup {d}] /\ Step
      /\ UNCHANGED session /\ UNCHANGED <<version, opened, entries, overlaps>>
  <2>1. page' = [page EXCEPT ![t] = q] /\ page'[t] = q
    BY <1>1 DEF AskFor
  <2>2. QED BY <1>1, <2>1 DEF AskFor, Add, feedback
<1>3. /\ q \in Pages /\ q.choice = k /\ q.asks = page[t].asks + 1 /\ q.id = page[t].id
      /\ q.table = page[t].table /\ q.shown = page[t].shown /\ q.holds = page[t].holds
      /\ q.saved = page[t].saved
  BY <1>1, AskingType
<1> HIDE DEF q
<1>4. page[t].id \in Nat /\ page[t].table \in AllTables /\ q.asks \in Nat
  BY <1>1, <1>3 DEF Pages
<1>5. /\ d \in TableCalls /\ d.kind = "table" /\ d.step = "sent" /\ d.token = stored /\ d.id = page[t].id
      /\ d.table = page[t].table /\ d.n = q.asks /\ d.key = k
  BY <1>4, TableCallType DEF Inv
<1> HIDE DEF d
<1>6. QED BY <1>2, <1>3, <1>5, AsksKeeps

\* The jobs are asked for again, for what was chosen.
LEMMA PollKeeps ==
  ASSUME Inv, NEW t \in Tabs, Poll(t)
  PROVE  Inv' /\ UNCHANGED owner /\ CountedKept
<1> DEFINE q == [page[t] EXCEPT !.asks = @ + 1]
           d == TableCall(page[t], page[t].choice, q.asks)
<1>1. /\ page[t] \in Pages /\ page \in [Tabs -> Pages \cup {None}] /\ calls \in [Tabs -> SUBSET AllCalls]
      /\ IsOpen(t) /\ page[t].table # "myfeedback"
  BY OpenType DEF Inv, TypeInv, TablesTyped, CallsTyped, Poll
<1>2. /\ page' = [page EXCEPT ![t] = q] /\ calls' = [calls EXCEPT ![t] = @ \cup {d}] /\ Step
      /\ UNCHANGED session /\ UNCHANGED <<version, opened, entries, overlaps>>
  <2>1. page' = [page EXCEPT ![t] = q] /\ page'[t] = q
    BY <1>1 DEF Poll
  <2>2. QED BY <1>1, <2>1 DEF Poll, Add, feedback
<1>3. /\ q \in Pages /\ q.choice = page[t].choice /\ q.asks = page[t].asks + 1 /\ q.id = page[t].id
      /\ q.table = page[t].table /\ q.shown = page[t].shown /\ q.holds = page[t].holds
      /\ q.saved = page[t].saved
  BY <1>1 DEF Pages
<1> HIDE DEF q
<1>4. page[t].id \in Nat /\ page[t].table \in AllTables /\ q.asks \in Nat /\ page[t].choice \in Keys
  BY <1>1, <1>3 DEF Pages
<1>5. /\ d \in TableCalls /\ d.kind = "table" /\ d.step = "sent" /\ d.token = stored /\ d.id = page[t].id
      /\ d.table = page[t].table /\ d.n = q.asks /\ d.key = page[t].choice
  BY <1>4, TableCallType DEF Inv
<1> HIDE DEF d
<1>6. QED BY <1>1, <1>2, <1>3, <1>5, AsksKeeps

\* The server has taken request c one step on: it is d now.
Follows(t, c, d) ==
    /\ c.kind \in TableKinds /\ d \in TableCalls /\ d.id = c.id /\ d.kind = c.kind
    /\ d.token = c.token /\ d.table = c.table /\ d.key = c.key /\ d.n = c.n
    /\ PageStep(t, (calls[t] \ {c}) \cup {d}, page[t]) /\ opened' = opened /\ CallInv(t, d)'
    /\ IsOpen(t) /\ c \in Its(t) =>
          /\ d.kind = "table" /\ d.step = "served" => d.version >= page[t].saved
          /\ Clean(t) /\ page[t].shown # None /\ d.kind = "submit" /\ d.step = "inserted"
             /\ page[t].table = "myfeedback" /\ ~page[t].early =>
                d.version > page[t].shown.version

\* A request goes on to its next step: what holds of the next request is all there is to show.
LEMMA FollowKeeps ==
  ASSUME Inv, NEW t \in Tabs, NEW c \in calls[t], NEW d, Follows(t, c, d)
  PROVE  /\ Inv' /\ UNCHANGED owner /\ \A s \in Tabs \ {t} : calls'[s] = calls[s]
         /\ calls'[t] = (calls[t] \ {c}) \cup {d}
<1> USE DEF Inv, Follows
<1> DEFINE X == (calls[t] \ {c}) \cup {d}
<1>1. /\ calls'[t] = X /\ page'[t] = page[t] /\ (Clean(t)' <=> Clean(t)) /\ Shows(t)' = Shows(t)
      /\ \A s \in Tabs \ {t} : calls'[s] = calls[s]
  BY PageStepKeeps DEF Alike
<1>2. /\ version \in Nat /\ version' \in Nat /\ version <= version' /\ UNCHANGED owner
      /\ entries \in [Users -> Nat] /\ entries' \in [Users -> Nat]
      /\ \A u \in Users : entries[u] <= entries'[u]
  BY DEF PageStep, TypeInv, TablesTyped, session, tokens
<1>3. RequestsInv(t) /\ c \in Asked(t)
  BY DEF RequestInv, Asked
<1>4. \A e \in Asked(t)' : e = d \/ (e \in Asked(t) /\ e # c)
  BY <1>1 DEF Asked
<1>5. \A e \in Its(t)' : (e = d /\ c \in Its(t)) \/ (e \in Its(t) /\ e # c)
  BY <1>1, <1>3, <1>4 DEF Its
<1>6. CallsInv(t)'
  <2>1. \A e \in Asked(t) : CallInv(t, e) /\ e.version \in Nat
    BY <1>3, AskedType DEF RequestsInv, CallsInv
  <2>2. \A k : Owner(k)' = Owner(k)
    BY <1>2 DEF Owner
  <2>3. ASSUME NEW e \in Asked(t), CallInv(t, e), e.version \in Nat PROVE CallInv(t, e)'
    BY <1>2, <2>2, <2>3 DEF CallInv
  <2>4. QED BY <1>4, <2>1, <2>3 DEF CallsInv
<1>7. TableInv(t)'
  <2>1. SUFFICES ASSUME IsOpen(t) PROVE TableInv(t)'
    BY <1>1 DEF TableInv, IsOpen
  <2>2. TableInv(t) /\ page[t].saved \in Nat
    BY <1>3, <2>1, OpenType DEF RequestsInv, Pages
  <2>3. ASSUME NEW e \in Its(t)' PROVE ItsInv(t, e)'
    <3>1. CASE e = d /\ c \in Its(t)
      <4>1. ItsInv(t, c)
        BY <2>1, <2>2, <3>1 DEF TableInv
      <4>2. QED BY <1>1, <2>1, <3>1, <4>1 DEF ItsInv
    <3>2. CASE e \in Its(t)
      BY <1>1, <2>1, <2>2, <3>2 DEF TableInv, ItsInv
    <3>3. QED BY <1>5, <2>3, <3>1, <3>2
  <2>4. ShownInv(t)'
    BY <1>1, <2>1, <2>2 DEF TableInv, ShownInv
  <2>5. QED BY <1>1, <1>2, <2>1, <2>2, <2>3, <2>4 DEF TableInv
<1>8. EntriesInv(t)'
  <2>1. SUFFICES ASSUME IsOpen(t), page[t].table = "myfeedback"
                 PROVE  /\ (\A e, f \in Its(t) : e.kind = "table" /\ f.kind = "table" => e = f /\ page[t].busy)'
                        /\ ~page[t].early => RowsInv(t)'
    BY <1>1 DEF EntriesInv, IsOpen
  <2>2. EntriesInv(t)
    BY <1>3 DEF RequestsInv
  <2>3. (\A e, f \in Its(t) : e.kind = "table" /\ f.kind = "table" => e = f /\ page[t].busy)'
    BY <1>1, <1>5, <2>1, <2>2 DEF EntriesInv
  <2>4. ASSUME ~page[t].early PROVE RowsInv(t)'
    <3>1. RowsInv(t)
      BY <2>1, <2>2, <2>4 DEF EntriesInv
    <3>2. (\A e \in Its(t) : e.kind = "table" => page[t].added = {} /\ \A f \in Its(t) : f.kind = "table")'
      BY <1>1, <1>5, <3>1 DEF RowsInv
    <3>3. ASSUME Clean(t), page[t].shown # None
          PROVE  /\ page[t].shown.version <= entries'[Shows(t)]
                 /\ \A e \in Its(t)' : e.kind = "submit" /\ e.step = "inserted" => e.version > page[t].shown.version
                 /\ \A n \in page[t].added : n > page[t].shown.version
      <4>1. Shows(t) \in Users /\ page[t].shown.version \in Nat
        BY <2>1, <3>3, OpenType DEF Pages, Rows
      <4>2. page[t].shown.version <= entries'[Shows(t)]
        BY <1>2, <3>1, <3>3, <4>1 DEF RowsInv
      <4>3. QED BY <1>5, <2>1, <2>4, <3>1, <3>3, <4>2 DEF RowsInv
    <3>4. QED BY <1>1, <3>1, <3>2, <3>3 DEF RowsInv
  <2>5. QED BY <2>3, <2>4
<1>9. QED BY <1>1, <1>2, <1>6, <1>7, <1>8, PageStepInv DEF RequestsInv

\* What is known when a request of a page is served.
LEMMA ServedType ==
  ASSUME Inv, NEW t \in Tabs, NEW c \in calls[t], c.kind \in TableKinds
  PROVE  /\ c \in TableCalls /\ c \in Asked(t) /\ CallInv(t, c)
         /\ c.version \in Nat /\ c.n \in Nat /\ c.id \in Nat /\ c.of \in Someone /\ c.key \in Keys
         /\ c.table \in AllTables /\ version \in Nat /\ entries \in [Users -> Nat]
         /\ page \in [Tabs -> Pages \cup {None}] /\ page[t] \in Pages \cup {None}
         /\ page = [page EXCEPT ![t] = page[t]] /\ (page[t] # None => Mounted(t))
         /\ Valid(c.token) => Owner(c.token) \in Users
         /\ (IsOpen(t) => page[t] \in Pages /\ RequestsInv(t))
<1>1. c \in Asked(t) /\ RequestsInv(t)
  BY DEF Asked, Inv, RequestInv
<1>2. /\ version \in Nat /\ entries \in [Users -> Nat] /\ page \in [Tabs -> Pages \cup {None}]
  BY DEF Inv, TypeInv, TablesTyped
<1>3. Valid(c.token) => Owner(c.token) \in Users
  BY OwnerType DEF Inv, Valid
<1>4. page[t] # None => Mounted(t) /\ page[t] \in Pages
  BY OpenType DEF Inv, IsOpen
<1>5. QED BY <1>1, <1>2, <1>3, <1>4, AskedType DEF Inv, RequestsInv, CallsInv, IsOpen

\* Rows are read: no row is older than the saves that are reported, and all are of the token.
LEMMA ReadKeeps ==
  ASSUME Inv, NEW t \in Tabs, NEW c \in calls[t], NEW table, NEW v \in Nat, Read(t, c, table, v),
         table = "users" => v = version,
         table = "myfeedback" => v <= entries[Owner(c.token)]
  PROVE  Inv' /\ UNCHANGED owner /\ CountedKept
<1> DEFINE u == Owner(c.token)
<1>d. PICK d : d = [c EXCEPT !.step = "served", !.version = v, !.of = u]
  OBVIOUS
<1> DEFINE X == (calls[t] \ {c}) \cup {d}
<1>1. /\ c.kind = "table" /\ c.table = table /\ Valid(c.token) /\ calls \in [Tabs -> SUBSET AllCalls]
      /\ UNCHANGED session /\ UNCHANGED <<steps, version, page, opened, entries, overlaps>>
  BY DEF Read, tables, feedback, Inv, TypeInv, CallsTyped
<1>2. calls' = [calls EXCEPT ![t] = X]
  BY <1>1, <1>d DEF Read, Replace
<1>3. c.kind \in TableKinds
  BY <1>1 DEF TableKinds
<1>4. c \in TableCalls /\ CallInv(t, c) /\ u \in Users /\ u \in Someone
  BY <1>1, <1>3, ServedType DEF Someone
<1>5. /\ d \in TableCalls /\ d.step = "served" /\ d.version = v /\ d.of = u /\ d.kind = c.kind
      /\ d.token = c.token /\ d.id = c.id /\ d.table = c.table /\ d.key = c.key /\ d.n = c.n
  <2> HIDE DEF u
  <2> QED BY <1>d, <1>4 DEF TableCalls
<1>6. PageStep(t, X, page[t])
  <2>1. X \in SUBSET AllCalls /\ NewCalls(t, X)
    BY <1>3, <1>5, Following DEF Inv
  <2>2. page' = [page EXCEPT ![t] = page[t]] /\ page[t] \in Pages \cup {None} /\ (page[t] # None => Mounted(t))
    BY <1>1, <1>3, ServedType
  <2>3. QED BY <1>1, <1>2, <2>1, <2>2, Stepping DEF Inv
<1>7. CallInv(t, d)'
  <2>1. Owner(c.token)' = u
    BY <1>1 DEF session, tokens, Owner
  <2>2. QED BY <1>1, <1>4, <1>5, <2>1 DEF CallInv
<1>8. ASSUME IsOpen(t), c \in Its(t) PROVE v >= page[t].saved
  <2>1. TableInv(t) /\ page[t].saved \in Nat /\ version \in Nat
    BY <1>3, <1>8, ServedType DEF RequestsInv, Pages
  <2>2. c.table = page[t].table /\ page[t].saved <= version
    BY <1>8, <2>1 DEF TableInv, ItsInv
  <2>3. CASE table = "users"
    BY <2>1, <2>2, <2>3
  <2>4. CASE table # "users"
    BY <1>1, <1>8, <2>1, <2>2, <2>4 DEF TableInv
  <2>5. QED BY <2>3, <2>4
<1>9. /\ Inv' /\ UNCHANGED owner /\ (\A s \in Tabs \ {t} : calls'[s] = calls[s]) /\ calls'[t] = X
  <2>1. IsOpen(t) /\ c \in Its(t) =>
           /\ d.kind = "table" /\ d.step = "served" => d.version >= page[t].saved
           /\ Clean(t) /\ page[t].shown # None /\ d.kind = "submit" /\ d.step = "inserted"
              /\ page[t].table = "myfeedback" /\ ~page[t].early =>
                 d.version > page[t].shown.version
    BY <1>1, <1>5, <1>8
  <2>2. /\ d.id = c.id /\ d.kind = c.kind /\ d.token = c.token /\ d.table = c.table /\ d.key = c.key
        /\ d.n = c.n /\ d \in TableCalls /\ c.kind \in TableKinds /\ opened' = opened
    BY <1>1, <1>3, <1>5
  <2>3. PageStep(t, (calls[t] \ {c}) \cup {d}, page[t])
    BY <1>6
  <2>4. /\ Inv' /\ UNCHANGED owner /\ (\A s \in Tabs \ {t} : calls'[s] = calls[s])
        /\ calls'[t] = (calls[t] \ {c}) \cup {d}
    <3>1. Follows(t, c, d)
      BY <1>7, <2>1, <2>2, <2>3 DEF Follows
    <3>2. QED BY <3>1, FollowKeeps
  <2>5. QED BY <2>4
<1>10. CountedKept
  BY <1>1, <1>5, <1>9 DEF CountedKept
<1>11. QED BY <1>9, <1>10

\* Each of the reads is such a read.
LEMMA ReadsKeep ==
  ASSUME Inv, NEW t \in Tabs, NEW c \in calls[t], Reads(t, c)
  PROVE  Inv' /\ UNCHANGED owner /\ CountedKept
<1>1. version \in Nat /\ entries \in [Users -> Nat]
  BY DEF Inv, TypeInv, TablesTyped
<1>2. CASE Read(t, c, "users", version) \/ Read(t, c, "stats", version)
  BY <1>1, <1>2, ReadKeeps
<1>3. CASE Read(t, c, "audit", version) \/ Read(t, c, "feedback", version)
  BY <1>1, <1>3, ReadKeeps
<1>4. CASE Read(t, c, "bets", version) \/ Read(t, c, "history", version)
  BY <1>1, <1>4, ReadKeeps
<1>5. CASE Read(t, c, "challenges", version) \/ Read(t, c, "jobs", version)
  BY <1>1, <1>5, ReadKeeps
<1>6. CASE \E v \in 0 .. version : Read(t, c, "leaderboard", v)
  <2>1. PICK v \in 0 .. version : Read(t, c, "leaderboard", v)
    BY <1>6
  <2>2. v \in Nat
    BY <1>1
  <2>3. QED BY <2>1, <2>2, ReadKeeps
<1>7. CASE Read(t, c, "myfeedback", entries[Owner(c.token)])
  <2>1. Valid(c.token) /\ c.kind \in TableKinds
    BY <1>7 DEF Read, TableKinds
  <2>2. entries[Owner(c.token)] \in Nat
    BY <1>1, <2>1, ServedType
  <2> DEFINE v == entries[Owner(c.token)]
  <2>3. Read(t, c, "myfeedback", v) /\ v \in Nat /\ v <= entries[Owner(c.token)]
    BY <1>7, <2>2
  <2> HIDE DEF v
  <2>4. QED BY <2>3, ReadKeeps
<1>8. QED BY <1>2, <1>3, <1>4, <1>5, <1>6, <1>7
  DEF Reads, ListUsers, GetPlatformStats, GetAllAuditLog, GetAll, GetMyBets, GetUserAuditLog,
      GetMyFeedback, GetJobSchedules, GetActiveChallenges, GetLeaderboard

\* A save is written: its version is the newest.
LEMMA WriteSaveKeeps ==
  ASSUME Inv, NEW t \in Tabs, NEW c \in calls[t], WriteSave(t, c)
  PROVE  Inv' /\ UNCHANGED owner /\ CountedKept
<1> DEFINE v == version + 1
<1>d. PICK d : d = [c EXCEPT !.step = "served", !.version = v]
  OBVIOUS
<1> DEFINE X == (calls[t] \ {c}) \cup {d}
<1>1. /\ c.kind = "save" /\ calls \in [Tabs -> SUBSET AllCalls] /\ version' = v
      /\ UNCHANGED session /\ UNCHANGED <<steps, page, opened, entries, overlaps>>
  BY DEF WriteSave, feedback, Inv, TypeInv, CallsTyped
<1>2. calls' = [calls EXCEPT ![t] = X]
  BY <1>1, <1>d DEF WriteSave, Replace
<1>3. c.kind \in TableKinds
  BY <1>1 DEF TableKinds
<1>4. c \in TableCalls /\ CallInv(t, c) /\ version \in Nat /\ v \in Nat /\ c.of \in Someone
  BY <1>3, ServedType
<1>5. /\ d \in TableCalls /\ d.step = "served" /\ d.version = v /\ d.of = c.of /\ d.kind = c.kind
      /\ d.token = c.token /\ d.id = c.id /\ d.table = c.table /\ d.key = c.key /\ d.n = c.n
  <2> HIDE DEF v
  <2> QED BY <1>d, <1>4 DEF TableCalls
<1>6. PageStep(t, X, page[t])
  <2>1. X \in SUBSET AllCalls /\ NewCalls(t, X)
    BY <1>3, <1>5, Following DEF Inv
  <2>2. page' = [page EXCEPT ![t] = page[t]] /\ page[t] \in Pages \cup {None} /\ (page[t] # None => Mounted(t))
    BY <1>1, <1>3, ServedType
  <2>3. /\ steps' \in 0 .. MaxSteps /\ version' \in Nat /\ version <= version'
        /\ opened' \in [Tabs -> Nat] /\ opened[t] <= opened'[t]
        /\ entries' \in [Users -> Nat] /\ (\A u \in Users : entries[u] <= entries'[u])
        /\ overlaps' \in [Users -> Nat]
    BY <1>1, <1>4 DEF Inv, TypeInv, SessionTyped, TablesTyped
  <2>4. QED BY <1>1, <1>2, <2>1, <2>2, <2>3 DEF PageStep
<1>7. CallInv(t, d)'
  BY <1>1, <1>4, <1>5 DEF CallInv
<1>8. /\ Inv' /\ UNCHANGED owner /\ (\A s \in Tabs \ {t} : calls'[s] = calls[s]) /\ calls'[t] = X
  <2>1. IsOpen(t) /\ c \in Its(t) =>
           /\ d.kind = "table" /\ d.step = "served" => d.version >= page[t].saved
           /\ Clean(t) /\ page[t].shown # None /\ d.kind = "submit" /\ d.step = "inserted"
              /\ page[t].table = "myfeedback" /\ ~page[t].early =>
                 d.version > page[t].shown.version
    BY <1>1, <1>5
  <2>2. /\ d.id = c.id /\ d.kind = c.kind /\ d.token = c.token /\ d.table = c.table /\ d.key = c.key
        /\ d.n = c.n /\ d \in TableCalls /\ c.kind \in TableKinds /\ opened' = opened
    BY <1>1, <1>3, <1>5
  <2>3. PageStep(t, (calls[t] \ {c}) \cup {d}, page[t])
    BY <1>6
  <2>4. /\ Inv' /\ UNCHANGED owner /\ (\A s \in Tabs \ {t} : calls'[s] = calls[s])
        /\ calls'[t] = (calls[t] \ {c}) \cup {d}
    <3>1. Follows(t, c, d)
      BY <1>7, <2>1, <2>2, <2>3 DEF Follows
    <3>2. QED BY <3>1, FollowKeeps
  <2>5. QED BY <2>4
<1>9. CountedKept
  BY <1>1, <1>5, <1>8 DEF CountedKept
<1>10. QED BY <1>8, <1>9

\* Requests are answered, or the page is left.
LEMMA DropKeeps ==
  ASSUME Inv, NEW t \in Tabs, NEW X, X \subseteq calls[t], NEW q, q = page[t] \/ q = None,
         UNCHANGED session, Step \/ steps' = steps, UNCHANGED <<version, opened, entries, overlaps>>,
         calls' = [calls EXCEPT ![t] = X], page' = [page EXCEPT ![t] = q]
  PROVE  Inv' /\ UNCHANGED owner /\ CountedKept
<1> USE DEF Inv
<1>1. page[t] \in Pages \cup {None} /\ (page[t] # None => Mounted(t))
  BY OpenType DEF IsOpen
<1>2. PageStep(t, X, q)
  <2>1. X \in SUBSET AllCalls /\ NewCalls(t, X)
    BY CallsType DEF NewCalls
  <2>2. QED BY <1>1, <2>1, Stepping
<1>3. /\ calls'[t] = X /\ page'[t] = q /\ (Clean(t)' <=> Clean(t)) /\ Shows(t)' = Shows(t)
      /\ OwnersKept /\ \A s \in Tabs \ {t} : calls'[s] = calls[s]
  BY <1>2, PageStepKeeps DEF Alike
<1>4. RequestsInv(t)'
  <2>1. Asked(t)' \subseteq Asked(t) /\ (IsOpen(t)' => page'[t] = page[t]) /\ RequestsInv(t)
    BY <1>3 DEF Asked, IsOpen, RequestInv
  <2>2. /\ version \in Nat /\ version' \in Nat /\ version <= version'
        /\ entries \in [Users -> Nat] /\ entries' \in [Users -> Nat]
        /\ (\A u \in Users : entries[u] <= entries'[u]) /\ opened'[t] = opened[t]
    BY DEF TypeInv, TablesTyped
  <2>3. QED BY <1>3, <2>1, <2>2, TablesKept
<1>5. CountedKept
  BY <1>3 DEF CountedKept
<1>6. QED BY <1>2, <1>4, <1>5, PageStepInv

\* A page is left; its requests are nobody's.
LEMMA LeavePageKeeps ==
  ASSUME Inv, NEW t \in Tabs, LeavePage(t)
  PROVE  Inv' /\ UNCHANGED owner /\ CountedKept
<1>1. /\ page' = [page EXCEPT ![t] = None] /\ calls' = [calls EXCEPT ![t] = calls[t]] /\ Step
      /\ UNCHANGED session /\ UNCHANGED <<version, opened, entries, overlaps>>
  BY DEF LeavePage, feedback, Inv, TypeInv, CallsTyped
<1> DEFINE X == calls[t]
<1>2. X \subseteq calls[t] /\ calls' = [calls EXCEPT ![t] = X]
  BY <1>1
<1> HIDE DEF X
<1>3. QED BY <1>1, <1>2, DropKeeps

\* A request is refused, or fails: the rows stay as they are.
LEMMA RefusedKeeps ==
  ASSUME Inv, NEW t \in Tabs, NEW c \in calls[t], Refused(t, c), Step \/ steps' = steps
  PROVE  Inv' /\ UNCHANGED owner /\ CountedKept
<1> DEFINE X == calls[t] \ {c}
<1>1. /\ c.kind \in TableKinds /\ calls' = [calls EXCEPT ![t] = X] /\ X \subseteq calls[t]
      /\ UNCHANGED session /\ UNCHANGED <<version, opened, entries, overlaps>>
  BY Following DEF Refused, Answered, Follow, feedback, TableKinds, Inv
<1>2. CASE ~(Open(t, c) /\ c.kind = "table")
  <2>1. page' = [page EXCEPT ![t] = page[t]]
    BY <1>1, <1>2, ServedType DEF Refused
  <2> HIDE DEF X
  <2>2. QED BY <1>1, <2>1, DropKeeps
<1>3. CASE Open(t, c) /\ c.kind = "table"
  <2> DEFINE p == page[t]
             q == [p EXCEPT !.busy = FALSE]
  <2>1. /\ IsOpen(t) /\ c.id = p.id /\ c \in Its(t) /\ p \in Pages /\ page \in [Tabs -> Pages \cup {None}]
        /\ RequestsInv(t) /\ Mounted(t)
    BY <1>1, <1>3, ServedType DEF Open, IsOpen, Its
  <2>2. page' = [page EXCEPT ![t] = q]
    BY <1>3, <2>1 DEF Refused
  <2>3. /\ q \in Pages /\ q.id = p.id /\ q.table = p.table /\ q.choice = p.choice /\ q.shown = p.shown
        /\ q.added = p.added /\ q.asks = p.asks /\ q.holds = p.holds /\ q.saved = p.saved
        /\ q.reported = p.reported /\ q.behind = p.behind /\ q.early = p.early
    BY <2>1 DEF Pages
  <2> HIDE DEF q
  <2>4. PageStep(t, X, q)
    BY <1>1, <2>1, <2>2, <2>3, Following, Stepping DEF Inv
  <2>5. /\ calls'[t] = X /\ page'[t] = q /\ (Clean(t)' <=> Clean(t)) /\ Shows(t)' = Shows(t)
        /\ UNCHANGED owner /\ \A s \in Tabs \ {t} : calls'[s] = calls[s]
    BY <1>1, <2>4, PageStepKeeps DEF Alike, Inv, session, tokens
  <2>6. \A e \in Asked(t)' : e \in Asked(t)
    BY <1>1, <2>5 DEF Asked
  <2>7. \A e \in Its(t)' : e \in Its(t) /\ e # c
    BY <1>1, <2>3, <2>5, <2>6 DEF Its, Asked
  <2>8. CallsInv(t)'
    BY <1>1, <2>1, <2>5, <2>6 DEF RequestsInv, CallsInv, CallInv, Owner
  <2>9. TableInv(t)'
    <3>1. TableInv(t)
      BY <2>1 DEF RequestsInv
    <3>2. \A e \in Its(t)' : ItsInv(t, e)'
      BY <2>1, <2>3, <2>5, <2>7, <3>1 DEF TableInv, ItsInv
    <3>3. ShownInv(t)'
      BY <2>1, <2>3, <2>5, <3>1 DEF TableInv, ShownInv
    <3>4. QED BY <1>1, <2>1, <2>3, <2>5, <3>1, <3>2, <3>3 DEF TableInv
  <2>10. EntriesInv(t)'
    <3>1. SUFFICES ASSUME p.table = "myfeedback"
                   PROVE  EntriesInv(t)'
      BY <2>3, <2>5 DEF EntriesInv
    <3>2. \A e \in Its(t)' : e.kind # "table"
      BY <1>3, <2>1, <2>7, <3>1 DEF RequestsInv, EntriesInv
    <3>3. ASSUME ~p.early PROVE RowsInv(t)'
      <4>1. RowsInv(t)
        BY <2>1, <3>1, <3>3 DEF RequestsInv, EntriesInv
      <4>2. QED BY <1>1, <2>3, <2>5, <2>7, <3>2, <4>1 DEF RowsInv
    <3>4. QED BY <2>3, <2>5, <3>2, <3>3 DEF EntriesInv
  <2>11. CountedKept
    BY <1>1, <2>5 DEF CountedKept
  <2>12. QED BY <2>4, <2>8, <2>9, <2>10, <2>11, PageStepInv DEF RequestsInv
<1>4. QED BY <1>2, <1>3

\* An open page's requests are of the user it shows.
LEMMA OwnToken ==
  ASSUME Inv, NEW t \in Tabs, IsOpen(t), Clean(t), NEW c \in Asked(t)
  PROVE  Owner(c.token) = Shows(t) /\ Shows(t) \in Users
<1>1. TabInv(t) /\ Screen(t) = "app" /\ ~auth[t].loading /\ Shows(t) \in Users
  BY OpenType DEF Inv, SessionInv
<1>2. auth[t].token # 0 /\ stored = auth[t].token /\ c.token \in {auth[t].token, stored}
  BY <1>1 DEF TabInv, OwnInv, Screen, Asked, TableKinds
<1>3. Owner(auth[t].token) = Shows(t)
  BY <1>1 DEF TabInv, LoadInv, Clean
<1>4. QED BY <1>1, <1>2, <1>3

\* An answer is shown: if it is the newest request's, it is what is chosen.
LEMMA ShowTableKeeps ==
  ASSUME Inv, NEW t \in Tabs, NEW c \in calls[t], ShowTable(t, c)
  PROVE  Inv' /\ UNCHANGED owner /\ CountedKept
<1> DEFINE X == calls[t] \ {c}
<1>1. /\ c.kind \in TableKinds /\ calls' = [calls EXCEPT ![t] = X] /\ X \subseteq calls[t] /\ steps' = steps
      /\ UNCHANGED session /\ UNCHANGED <<version, opened, entries, overlaps>>
      /\ c.kind = "table" /\ c.step = "served"
  BY Following DEF ShowTable, Answered, Follow, feedback, TableKinds, Inv
<1>2. CASE ~Open(t, c)
  <2>1. page' = [page EXCEPT ![t] = page[t]]
    BY <1>1, <1>2, ServedType DEF ShowTable
  <2> HIDE DEF X
  <2>2. QED BY <1>1, <2>1, DropKeeps
<1>3. CASE Open(t, c)
  <2> DEFINE p == page[t]
             r == [key |-> c.key, version |-> c.version, of |-> c.of]
             q == [p EXCEPT !.shown = r, !.holds = c.n, !.busy = FALSE, !.added = {}]
  <2>1. /\ IsOpen(t) /\ c.id = p.id /\ c \in Its(t) /\ p \in Pages /\ page \in [Tabs -> Pages \cup {None}]
        /\ RequestsInv(t) /\ Mounted(t) /\ CallInv(t, c)
    BY <1>1, <1>3, ServedType DEF Open, IsOpen, Its
  <2>2. page' = [page EXCEPT ![t] = q]
    BY <1>3, <2>1 DEF ShowTable
  <2>3. r \in Rows \cup {None} /\ r.key = c.key /\ r.version = c.version /\ r.of = c.of
    BY <1>1, ServedType DEF Rows
  <2> HIDE DEF r
  <2>4. c.n \in Nat /\ c.version \in Nat /\ FALSE \in BOOLEAN /\ {} \in SUBSET Nat
    BY <1>1, ServedType
  <2>5. /\ q.id = p.id /\ q.table = p.table /\ q.choice = p.choice /\ q.shown = r
        /\ q.added = {} /\ q.asks = p.asks /\ q.holds = c.n /\ q.saved = p.saved
        /\ q.reported = p.reported /\ q.behind = p.behind /\ q.early = p.early
    BY <2>1 DEF Pages
  <2>6. q \in Pages
    <3> HIDE DEF p
    <3> QED BY <2>1, <2>3, <2>4, ZenonT(30) DEF Pages
  <2> HIDE DEF q
  <2>7. PageStep(t, X, q)
    BY <1>1, <2>1, <2>2, <2>6, Following, Stepping DEF Inv
  <2>8. /\ calls'[t] = X /\ page'[t] = q /\ (Clean(t)' <=> Clean(t)) /\ Shows(t)' = Shows(t)
        /\ UNCHANGED owner /\ \A s \in Tabs \ {t} : calls'[s] = calls[s]
    BY <1>1, <2>7, PageStepKeeps DEF Alike, Inv, session, tokens
  <2>9. \A e \in Asked(t)' : e \in Asked(t)
    BY <1>1, <2>8 DEF Asked
  <2>10. \A e \in Its(t)' : e \in Its(t) /\ e # c
    BY <1>1, <2>5, <2>8, <2>9 DEF Its, Asked
  <2>11. CallsInv(t)'
    BY <1>1, <2>1, <2>8, <2>9 DEF RequestsInv, CallsInv, CallInv, Owner
  <2>12. ItsInv(t, c) /\ TableInv(t)
    BY <2>1 DEF RequestsInv, TableInv
  <2>13. Clean(t) => c.of = Shows(t) /\ c.of \in Users
    BY <1>1, <2>1, OwnToken DEF CallInv, Its
  <2>14. TableInv(t)'
    <3>1. \A e \in Its(t)' : ItsInv(t, e)'
      BY <2>1, <2>5, <2>8, <2>10, <2>12 DEF TableInv, ItsInv
    <3>2. ShownInv(t)'
      BY <1>1, <2>3, <2>5, <2>8, <2>12, <2>13 DEF ShownInv, ItsInv
    <3>3. QED BY <1>1, <2>1, <2>5, <2>8, <2>12, <3>1, <3>2 DEF TableInv, ItsInv
  <2>15. EntriesInv(t)'
    <3>1. SUFFICES ASSUME p.table = "myfeedback"
                   PROVE  EntriesInv(t)'
      BY <2>5, <2>8 DEF EntriesInv
    <3>2. \A e \in Its(t)' : e.kind # "table"
      BY <1>1, <2>1, <2>10, <3>1 DEF RequestsInv, EntriesInv
    <3>3. ASSUME ~p.early PROVE RowsInv(t)'
      <4>1. RowsInv(t)
        BY <2>1, <3>1, <3>3 DEF RequestsInv, EntriesInv
      <4>2. p.reported = {} /\ \A e \in Its(t) : e.kind = "table"
        BY <1>1, <2>1, <4>1 DEF RowsInv
      <4>3. Clean(t) => c.version <= entries[Shows(t)]
        BY <1>1, <2>1, <2>12, <2>13, <3>1 DEF CallInv, ItsInv
      <4>4. QED BY <1>1, <2>3, <2>5, <2>8, <2>10, <3>2, <4>2, <4>3 DEF RowsInv
    <3>4. QED BY <2>5, <2>8, <3>2, <3>3 DEF EntriesInv
  <2>16. CountedKept
    BY <1>1, <2>8 DEF CountedKept
  <2>17. QED BY <2>7, <2>11, <2>14, <2>15, <2>16, PageStepInv DEF RequestsInv
<1>4. QED BY <1>2, <1>3

\* A save is sent.
LEMMA SaveKeeps ==
  ASSUME Inv, NEW t \in Tabs, Save(t)
  PROVE  Inv' /\ UNCHANGED owner /\ CountedKept
<1> USE DEF Inv
<1>1. /\ IsOpen(t) /\ page[t].table = "users" /\ Step /\ page \in [Tabs -> Pages \cup {None}]
      /\ UNCHANGED session /\ UNCHANGED <<version, page, opened, entries, overlaps>>
      /\ page[t] \in Pages /\ Mounted(t) /\ RequestsInv(t) /\ page[t].id \in Nat
  BY OpenType DEF Save, tables, feedback, RequestInv, TypeInv, TablesTyped, Pages
<1>d. PICK d : d = SaveCall(page[t])
  OBVIOUS
<1> DEFINE X == calls[t] \cup {d}
<1>2. /\ d \in TableCalls /\ d.kind = "save" /\ d.token = stored /\ d.step = "sent" /\ d.id = page[t].id
      /\ d.table = "users"
  BY <1>1, <1>d, OtherCallType
<1>3. calls' = [calls EXCEPT ![t] = X] /\ page' = [page EXCEPT ![t] = page[t]]
  BY <1>1, <1>d DEF Save, Add, CallsTyped
<1>4. PageStep(t, X, page[t])
  BY <1>1, <1>2, <1>3, Adding, Stepping
<1>5. /\ calls'[t] = X /\ (Clean(t)' <=> Clean(t)) /\ Shows(t)' = Shows(t)
      /\ UNCHANGED owner /\ \A s \in Tabs \ {t} : calls'[s] = calls[s]
  BY <1>1, <1>4, PageStepKeeps DEF Alike, session, tokens
<1>6. \A e \in Asked(t)' : e = d \/ e \in Asked(t)
  BY <1>5 DEF Asked
<1>7. \A e \in Its(t)' : e = d \/ e \in Its(t)
  BY <1>1, <1>6 DEF Its
<1>8. TableInv(t) /\ CallsInv(t) /\ page[t].id <= opened[t]
  BY <1>1 DEF RequestsInv, TableInv
<1>9. CallsInv(t)'
  BY <1>1, <1>2, <1>5, <1>6, <1>8 DEF CallsInv, CallInv, Owner
<1>10. TableInv(t)'
  <2>1. \A e \in Its(t)' : ItsInv(t, e)'
    BY <1>1, <1>2, <1>7, <1>8 DEF TableInv, ItsInv
  <2>2. QED BY <1>1, <1>5, <1>8, <2>1 DEF TableInv, ShownInv
<1>11. EntriesInv(t)'
  BY <1>1 DEF EntriesInv
<1>12. CountedKept
  BY <1>1, <1>2, <1>5 DEF CountedKept
<1>13. QED BY <1>4, <1>9, <1>10, <1>11, <1>12, PageStepInv DEF RequestsInv

\* A save is answered: the rows are asked for again, and are not older than the save.
LEMMA SaveDoneKeeps ==
  ASSUME Inv, NEW t \in Tabs, NEW c \in calls[t], SaveDone(t, c)
  PROVE  Inv' /\ UNCHANGED owner /\ CountedKept
<1> USE DEF Inv
<1>1. /\ c.kind = "save" /\ c.step = "served" /\ c.kind \in TableKinds /\ steps' = steps
      /\ UNCHANGED session /\ UNCHANGED <<version, opened, entries, overlaps>>
  BY DEF SaveDone, feedback, TableKinds
<1>2. /\ c \in TableCalls /\ c \in Asked(t) /\ CallInv(t, c) /\ c.id \in Nat /\ c.table \in AllTables
      /\ c.key \in Keys /\ c.version \in Nat /\ c.table = "users" /\ c.version <= version /\ RequestsInv(t)
  BY <1>1, ServedType DEF CallInv, RequestInv
<1>3. CASE ~Open(t, c)
  <2>d. PICK d : d = TableCall(c, c.key, 0)
    OBVIOUS
  <2> DEFINE X == (calls[t] \ {c}) \cup {d}
  <2>1. /\ d \in TableCalls /\ d.kind = "table" /\ d.token = stored /\ d.step = "sent" /\ d.id = c.id
    BY <1>2, <2>d, TableCallType
  <2>2. calls' = [calls EXCEPT ![t] = X] /\ page' = [page EXCEPT ![t] = page[t]]
        /\ page[t] \in Pages \cup {None} /\ (page[t] # None => Mounted(t))
    BY <1>1, <1>3, <2>d, ServedType DEF SaveDone, Replace
  <2>3. PageStep(t, X, page[t])
    BY <1>1, <2>1, <2>2, Following, Stepping
  <2>4. /\ calls'[t] = X /\ page'[t] = page[t] /\ (Clean(t)' <=> Clean(t)) /\ Shows(t)' = Shows(t)
        /\ UNCHANGED owner /\ \A s \in Tabs \ {t} : calls'[s] = calls[s]
    BY <1>1, <2>3, PageStepKeeps DEF Alike, session, tokens
  <2>5. \A e \in Asked(t)' : e = d \/ e \in Asked(t)
    BY <2>4 DEF Asked
  <2>6. IsOpen(t) => \A e \in Its(t)' : e \in Its(t)
    BY <1>3, <2>1, <2>4, <2>5 DEF Its, Open, IsOpen
  <2>7. CallsInv(t)'
    BY <1>1, <1>2, <2>1, <2>4, <2>5 DEF RequestsInv, CallsInv, CallInv, Owner
  <2>8. TableInv(t)'
    BY <1>1, <1>2, <2>4, <2>6 DEF RequestsInv, TableInv, ItsInv, ShownInv, IsOpen
  <2>9. EntriesInv(t)'
    BY <1>1, <1>2, <2>4, <2>6 DEF RequestsInv, EntriesInv, RowsInv, IsOpen
  <2>10. CountedKept
    BY <1>1, <2>1, <2>4 DEF CountedKept
  <2>11. QED BY <2>3, <2>7, <2>8, <2>9, <2>10, PageStepInv DEF RequestsInv
<1>4. CASE Open(t, c)
  <2> DEFINE p == page[t]
             n == p.asks + 1
             v == IF c.version > p.saved THEN c.version ELSE p.saved
             b == c.key # p.choice
             q == [p EXCEPT !.asks = n, !.busy = TRUE, !.saved = v, !.behind = b]
  <2>1. /\ IsOpen(t) /\ c.id = p.id /\ c \in Its(t) /\ p \in Pages /\ page \in [Tabs -> Pages \cup {None}]
        /\ RequestsInv(t) /\ Mounted(t) /\ TableInv(t) /\ calls \in [Tabs -> SUBSET AllCalls]
    BY <1>1, <1>2, <1>4, ServedType DEF Open, IsOpen, Its, RequestsInv, TypeInv, CallsTyped
  <2>2. page' = [page EXCEPT ![t] = q]
    BY <1>4, <2>1 DEF SaveDone
  <2>3. n \in Nat /\ v \in Nat /\ b \in BOOLEAN /\ TRUE \in BOOLEAN /\ v <= version /\ p.saved <= v
    BY <1>2, <2>1 DEF Pages, TableInv, TypeInv, TablesTyped
  <2>4. /\ q.id = p.id /\ q.table = p.table /\ q.choice = p.choice /\ q.shown = p.shown
        /\ q.asks = n /\ q.holds = p.holds /\ q.saved = v /\ q.behind = b
    <3> HIDE DEF n, v, b
    <3> QED BY <2>1 DEF Pages
  <2>5. q \in Pages
    <3> HIDE DEF n, v, b, p
    <3> QED BY <2>1, <2>3, ZenonT(30) DEF Pages
  <2>6. page'[t] = q
    BY <2>1, <2>2
  <2>d. PICK d : d = TableCall(c, c.key, n)
    OBVIOUS
  <2> HIDE DEF q
  <2> DEFINE X == (calls[t] \ {c}) \cup {d}
  <2>7. calls' = [calls EXCEPT ![t] = X]
    BY <1>4, <2>1, <2>4, <2>6, <2>d DEF SaveDone, Replace
  <2>8. /\ d \in TableCalls /\ d.kind = "table" /\ d.token = stored /\ d.step = "sent" /\ d.id = c.id
        /\ d.table = "users" /\ d.key = c.key /\ d.n = n
    <3> HIDE DEF n
    <3> QED BY <1>2, <2>3, <2>d, TableCallType
  <2>9. PageStep(t, X, q)
    BY <1>1, <2>1, <2>2, <2>5, <2>7, <2>8, Following, Stepping
  <2>10. /\ calls'[t] = X /\ (Clean(t)' <=> Clean(t)) /\ Shows(t)' = Shows(t)
         /\ UNCHANGED owner /\ \A s \in Tabs \ {t} : calls'[s] = calls[s]
    BY <1>1, <2>9, PageStepKeeps DEF Alike, session, tokens
  <2>11. \A e \in Asked(t)' : e = d \/ e \in Asked(t)
    BY <2>10 DEF Asked
  <2>12. \A e \in Its(t)' : e = d \/ (e \in Its(t) /\ e.n \in Nat)
    BY <2>4, <2>6, <2>11, AskedType DEF Its
  <2>13. CallsInv(t)'
    BY <1>1, <1>2, <2>8, <2>10, <2>11 DEF RequestsInv, CallsInv, CallInv, Owner
  <2>14. p.table = "users" /\ p.asks \in Nat /\ p.holds \in Nat
    BY <1>2, <2>1 DEF TableInv, ItsInv, Pages
  <2>15. TableInv(t)'
    <3>1. ASSUME NEW e \in Its(t)' PROVE ItsInv(t, e)'
      <4>1. CASE e = d
        <5>1. ~q.behind => d.key = p.choice
          <6>1. q.behind = b /\ d.key = c.key
            BY <2>4, <2>8
          <6>2. b <=> c.key # p.choice
            OBVIOUS
          <6> HIDE DEF b
          <6>3. QED BY <6>1, <6>2
        <5>2. d.table = q.table /\ d.n <= q.asks /\ d.step # "served" /\ q.choice = p.choice
          BY <2>4, <2>8, <2>14
        <5>3. QED BY <2>6, <4>1, <5>1, <5>2 DEF ItsInv
      <4>2. CASE e \in Its(t) /\ e.n \in Nat
        <5>1. e.table = p.table /\ (e.n <= p.asks \/ e.kind # "table")
          BY <2>1, <4>2 DEF TableInv, ItsInv
        <5>2. QED BY <2>4, <2>6, <2>14, <4>2, <5>1 DEF ItsInv
      <4>3. QED BY <2>12, <3>1, <4>1, <4>2
    <3>2. q.holds < q.asks /\ p.holds <= p.asks
      BY <2>1, <2>4, <2>14 DEF TableInv
    <3>3. ShownInv(t)'
      BY <2>1, <2>4, <2>6, <2>10, <2>14, <3>2 DEF TableInv, ShownInv
    <3>4. QED BY <1>1, <2>1, <2>3, <2>4, <2>6, <2>14, <3>1, <3>2, <3>3 DEF TableInv
  <2>16. EntriesInv(t)'
    BY <2>4, <2>6, <2>14 DEF EntriesInv
  <2>17. CountedKept
    BY <1>1, <2>8, <2>10 DEF CountedKept
  <2>18. QED BY <2>9, <2>13, <2>15, <2>16, <2>17, PageStepInv DEF RequestsInv
<1>5. QED BY <1>3, <1>4

\* An entry is submitted; early, if the rows are not there.
LEMMA SubmitKeeps ==
  ASSUME Inv, NEW t \in Tabs, Submit(t)
  PROVE  Inv' /\ UNCHANGED owner /\ CountedKept
<1> USE DEF Inv
<1> DEFINE p == page[t]
           b == p.early \/ p.busy
           q == [p EXCEPT !.early = b]
<1>1. /\ IsOpen(t) /\ p.table = "myfeedback" /\ Step /\ page \in [Tabs -> Pages \cup {None}]
      /\ UNCHANGED session /\ UNCHANGED <<version, opened, entries, overlaps>>
      /\ p \in Pages /\ Mounted(t) /\ RequestsInv(t) /\ p.id \in Nat /\ b \in BOOLEAN
  BY OpenType DEF Submit, feedback, RequestInv, TypeInv, TablesTyped, Pages
<1>2. page' = [page EXCEPT ![t] = q]
  BY <1>1 DEF Submit
<1>3. /\ q \in Pages /\ q.id = p.id /\ q.table = p.table /\ q.choice = p.choice /\ q.shown = p.shown
      /\ q.added = p.added /\ q.asks = p.asks /\ q.holds = p.holds /\ q.saved = p.saved
      /\ q.reported = p.reported /\ q.behind = p.behind /\ q.early = b /\ q.busy = p.busy
  <2> HIDE DEF b
  <2> QED BY <1>1 DEF Pages
<1>d. PICK d : d = SubmitCall(p)
  OBVIOUS
<1> HIDE DEF q
<1> DEFINE X == calls[t] \cup {d}
<1>4. /\ d \in TableCalls /\ d.kind = "submit" /\ d.token = stored /\ d.step = "sent" /\ d.id = p.id
      /\ d.table = "myfeedback"
  BY <1>1, <1>d, OtherCallType
<1>5. calls' = [calls EXCEPT ![t] = X]
  BY <1>1, <1>d DEF Submit, Add, CallsTyped
<1>6. PageStep(t, X, q)
  BY <1>1, <1>2, <1>3, <1>4, <1>5, Adding, Stepping
<1>7. /\ calls'[t] = X /\ page'[t] = q /\ (Clean(t)' <=> Clean(t)) /\ Shows(t)' = Shows(t)
      /\ UNCHANGED owner /\ \A s \in Tabs \ {t} : calls'[s] = calls[s]
  BY <1>1, <1>6, PageStepKeeps DEF Alike, session, tokens
<1>8. \A e \in Asked(t)' : e = d \/ e \in Asked(t)
  BY <1>7 DEF Asked
<1>9. \A e \in Its(t)' : e = d \/ e \in Its(t)
  BY <1>3, <1>7, <1>8 DEF Its
<1>10. TableInv(t) /\ CallsInv(t) /\ EntriesInv(t) /\ p.id <= opened[t]
  BY <1>1 DEF RequestsInv, TableInv
<1>11. CallsInv(t)'
  BY <1>1, <1>4, <1>7, <1>8, <1>10 DEF CallsInv, CallInv, Owner
<1>12. TableInv(t)'
  <2>1. \A e \in Its(t)' : ItsInv(t, e)'
    BY <1>1, <1>3, <1>4, <1>7, <1>9, <1>10 DEF TableInv, ItsInv
  <2>2. ShownInv(t)'
    BY <1>1, <1>3, <1>7, <1>10 DEF TableInv, ShownInv
  <2>3. QED BY <1>1, <1>3, <1>7, <1>10, <2>1, <2>2 DEF TableInv
<1>13. EntriesInv(t)'
  <2>1. (\A e, f \in Its(t) : e.kind = "table" /\ f.kind = "table" => e = f /\ page[t].busy)'
    BY <1>1, <1>3, <1>4, <1>7, <1>9, <1>10 DEF EntriesInv
  <2>2. ASSUME ~b PROVE RowsInv(t)'
    <3>1. RowsInv(t) /\ \A e \in Its(t) : e.kind # "table"
      BY <1>1, <1>10, <2>2 DEF EntriesInv
    <3>2. QED BY <1>1, <1>3, <1>4, <1>7, <1>9, <3>1 DEF RowsInv
  <2>3. QED BY <1>3, <1>7, <2>1, <2>2 DEF EntriesInv
<1>14. CountedKept
  BY <1>1, <1>4, <1>7 DEF CountedKept
<1>15. QED BY <1>6, <1>11, <1>12, <1>13, <1>14, PageStepInv DEF RequestsInv

\* What is inserted is newer than the rows the page of its user shows.
LEMMA InsertEntryKeeps ==
  ASSUME Inv, NEW t \in Tabs, NEW c \in calls[t], InsertEntry(t, c)
  PROVE  /\ Inv' /\ UNCHANGED <<owner, overlaps>> /\ Owner(c.token) \in Users
         /\ entries' = [entries EXCEPT ![Owner(c.token)] = @ + 1]
         /\ c.kind = "submit" /\ c.step = "counted"
         /\ \A s \in Tabs : \A d \in calls'[s] :
               d.kind = "submit" /\ d.step = "counted" => d \in calls[s] /\ (s = t => d # c)
<1> DEFINE u == Owner(c.token)
<1>1. /\ c.kind = "submit" /\ c.step = "counted" /\ calls \in [Tabs -> SUBSET AllCalls]
      /\ entries' = [entries EXCEPT ![u] = @ + 1]
      /\ UNCHANGED session /\ UNCHANGED <<steps, version, page, opened, overlaps>>
  BY DEF InsertEntry, tables, Inv, TypeInv, CallsTyped
<1>2. c.kind \in TableKinds
  BY <1>1 DEF TableKinds
<1>3. /\ c \in TableCalls /\ CallInv(t, c) /\ entries \in [Users -> Nat] /\ c.of \in Someone
  BY <1>2, ServedType
<1>4. u \in Users
  <2>1. c.token \in Tokens
    BY <1>1, <1>2, <1>3, ServedType, AskedType, CallsType DEF CallInv, Tokens, Inv
  <2>2. QED BY <2>1, OwnerType DEF Inv
<1> DEFINE v == entries[u] + 1
<1>5. /\ entries' \in [Users -> Nat] /\ entries'[u] = v /\ v \in Nat
      /\ \A w \in Users : entries[w] <= entries'[w]
  BY <1>1, <1>3, <1>4
<1>d. PICK d : d = [c EXCEPT !.step = "inserted", !.version = v]
  OBVIOUS
<1> DEFINE X == (calls[t] \ {c}) \cup {d}
<1>6. calls' = [calls EXCEPT ![t] = X]
  BY <1>1, <1>5, <1>d DEF InsertEntry, Replace
<1>7. /\ d \in TableCalls /\ d.step = "inserted" /\ d.version = v /\ d.of = c.of /\ d.kind = c.kind
      /\ d.token = c.token /\ d.id = c.id /\ d.table = c.table /\ d.key = c.key /\ d.n = c.n
  <2> HIDE DEF v
  <2> QED BY <1>d, <1>3, <1>5 DEF TableCalls
<1>8. PageStep(t, X, page[t])
  <2>1. X \in SUBSET AllCalls /\ NewCalls(t, X)
    BY <1>2, <1>7, Following DEF Inv
  <2>2. page' = [page EXCEPT ![t] = page[t]] /\ page[t] \in Pages \cup {None} /\ (page[t] # None => Mounted(t))
    BY <1>1, <1>2, ServedType
  <2>3. /\ steps' \in 0 .. MaxSteps /\ version' \in Nat /\ version <= version'
        /\ opened' \in [Tabs -> Nat] /\ opened[t] <= opened'[t] /\ overlaps' \in [Users -> Nat]
    BY <1>1 DEF Inv, TypeInv, SessionTyped, TablesTyped
  <2>4. QED BY <1>1, <1>5, <1>6, <2>1, <2>2, <2>3 DEF PageStep
<1>9. CallInv(t, d)'
  BY <1>1, <1>3, <1>7 DEF CallInv
<1>10. ASSUME IsOpen(t), Clean(t), page[t].shown # None, page[t].table = "myfeedback", ~page[t].early
      PROVE  c \in Its(t) => d.version > page[t].shown.version
  <2>1. ASSUME c \in Its(t) PROVE Owner(c.token) = Shows(t)
    BY <1>10, <2>1, OwnToken DEF Its
  <2>2. page[t].shown.version \in Nat /\ RequestsInv(t)
    BY <1>2, <1>10, ServedType DEF Pages, Rows
  <2>3. page[t].shown.version <= entries[Shows(t)]
    BY <1>10, <2>2 DEF RequestsInv, EntriesInv, RowsInv
  <2>4. QED BY <1>3, <1>4, <1>7, <2>1, <2>2, <2>3
<1>11. /\ Inv' /\ UNCHANGED owner /\ (\A s \in Tabs \ {t} : calls'[s] = calls[s]) /\ calls'[t] = X
  <2>1. IsOpen(t) /\ c \in Its(t) =>
           /\ d.kind = "table" /\ d.step = "served" => d.version >= page[t].saved
           /\ Clean(t) /\ page[t].shown # None /\ d.kind = "submit" /\ d.step = "inserted"
              /\ page[t].table = "myfeedback" /\ ~page[t].early =>
                 d.version > page[t].shown.version
    BY <1>1, <1>7, <1>10
  <2>2. /\ d.id = c.id /\ d.kind = c.kind /\ d.token = c.token /\ d.table = c.table /\ d.key = c.key
        /\ d.n = c.n /\ d \in TableCalls /\ c.kind \in TableKinds /\ opened' = opened
    BY <1>1, <1>2, <1>7
  <2>3. PageStep(t, (calls[t] \ {c}) \cup {d}, page[t])
    BY <1>8
  <2>4. /\ Inv' /\ UNCHANGED owner /\ (\A s \in Tabs \ {t} : calls'[s] = calls[s])
        /\ calls'[t] = (calls[t] \ {c}) \cup {d}
    <3>1. Follows(t, c, d)
      BY <1>9, <2>1, <2>2, <2>3 DEF Follows
    <3>2. QED BY <3>1, FollowKeeps
  <2>5. QED BY <2>4
<1>12. \A s \in Tabs : \A e \in calls'[s] :
          e.kind = "submit" /\ e.step = "counted" => e \in calls[s] /\ (s = t => e # c)
  BY <1>7, <1>11
<1>13. QED BY <1>1, <1>4, <1>11, <1>12

\* An entry is put before the rows: it is newer than they are.
LEMMA SubmitDoneKeeps ==
  ASSUME Inv, NEW t \in Tabs, NEW c \in calls[t], SubmitDone(t, c)
  PROVE  Inv' /\ UNCHANGED owner /\ CountedKept
<1> DEFINE X == calls[t] \ {c}
<1>1. /\ c.kind \in TableKinds /\ calls' = [calls EXCEPT ![t] = X] /\ X \subseteq calls[t] /\ steps' = steps
      /\ UNCHANGED session /\ UNCHANGED <<version, opened, entries, overlaps>>
      /\ c.kind = "submit" /\ c.step = "inserted"
  BY Following DEF SubmitDone, Answered, Follow, feedback, TableKinds, Inv
<1>2. CASE ~Open(t, c)
  <2>1. page' = [page EXCEPT ![t] = page[t]]
    BY <1>1, <1>2, ServedType DEF SubmitDone
  <2> HIDE DEF X
  <2>2. QED BY <1>1, <2>1, DropKeeps
<1>3. CASE Open(t, c)
  <2> DEFINE p == page[t]
             A == p.added \cup {c.version}
             R == p.reported \cup {c.version}
             q == [p EXCEPT !.added = A, !.reported = R]
  <2>1. /\ IsOpen(t) /\ c.id = p.id /\ c \in Its(t) /\ p \in Pages /\ page \in [Tabs -> Pages \cup {None}]
        /\ RequestsInv(t) /\ Mounted(t)
    BY <1>1, <1>3, ServedType DEF Open, IsOpen, Its
  <2>2. page' = [page EXCEPT ![t] = q]
    BY <1>3, <2>1 DEF SubmitDone
  <2>3. A \in SUBSET Nat /\ R \in SUBSET Nat
    BY <1>1, <2>1, ServedType DEF Pages
  <2>4. /\ q.id = p.id /\ q.table = p.table /\ q.choice = p.choice /\ q.shown = p.shown
        /\ q.added = A /\ q.asks = p.asks /\ q.holds = p.holds /\ q.saved = p.saved
        /\ q.reported = R /\ q.behind = p.behind /\ q.early = p.early /\ q.busy = p.busy
    <3> HIDE DEF A, R
    <3> QED BY <2>1 DEF Pages
  <2>5. q \in Pages
    <3> HIDE DEF p, A, R
    <3> QED BY <2>1, <2>3, ZenonT(30) DEF Pages
  <2> HIDE DEF q
  <2>6. PageStep(t, X, q)
    BY <1>1, <2>1, <2>2, <2>5, Following, Stepping DEF Inv
  <2>7. /\ calls'[t] = X /\ page'[t] = q /\ (Clean(t)' <=> Clean(t)) /\ Shows(t)' = Shows(t)
        /\ UNCHANGED owner /\ \A s \in Tabs \ {t} : calls'[s] = calls[s]
    BY <1>1, <2>6, PageStepKeeps DEF Alike, Inv, session, tokens
  <2>8. \A e \in Asked(t)' : e \in Asked(t)
    BY <1>1, <2>7 DEF Asked
  <2>9. \A e \in Its(t)' : e \in Its(t)
    BY <1>1, <2>4, <2>7, <2>8 DEF Its
  <2>10. CallsInv(t)'
    BY <1>1, <2>1, <2>7, <2>8 DEF RequestsInv, CallsInv, CallInv, Owner
  <2>11. TableInv(t)'
    <3>1. TableInv(t)
      BY <2>1 DEF RequestsInv
    <3>2. \A e \in Its(t)' : ItsInv(t, e)'
      BY <2>1, <2>4, <2>7, <2>9, <3>1 DEF TableInv, ItsInv
    <3>3. ShownInv(t)'
      BY <2>1, <2>4, <2>7, <3>1 DEF TableInv, ShownInv
    <3>4. QED BY <1>1, <2>1, <2>4, <2>7, <3>1, <3>2, <3>3 DEF TableInv
  <2>12. EntriesInv(t)'
    <3>1. SUFFICES ASSUME p.table = "myfeedback"
                   PROVE  EntriesInv(t)'
      BY <2>4, <2>7 DEF EntriesInv
    <3>2. EntriesInv(t)
      BY <2>1 DEF RequestsInv
    <3>3. (\A e, f \in Its(t) : e.kind = "table" /\ f.kind = "table" => e = f /\ page[t].busy)'
      BY <2>1, <2>4, <2>7, <2>9, <3>1, <3>2 DEF EntriesInv
    <3>4. ASSUME ~p.early PROVE RowsInv(t)'
      <4>1. RowsInv(t)
        BY <2>1, <3>1, <3>2, <3>4 DEF EntriesInv
      <4>2. \A e \in Its(t) : e.kind # "table"
        BY <1>1, <2>1, <4>1 DEF RowsInv
      <4>3. Clean(t) /\ p.shown # None => \A n \in A : n > p.shown.version
        BY <1>1, <2>1, <4>1 DEF RowsInv
      <4>4. R \subseteq A
        BY <4>1 DEF RowsInv
      <4> HIDE DEF A, R
      <4>5. QED BY <1>1, <2>4, <2>7, <2>9, <4>1, <4>2, <4>3, <4>4 DEF RowsInv
    <3>5. QED BY <2>4, <2>7, <3>3, <3>4 DEF EntriesInv
  <2>13. CountedKept
    BY <1>1, <2>7 DEF CountedKept
  <2>14. QED BY <2>6, <2>10, <2>11, <2>12, <2>13, PageStepInv DEF RequestsInv
<1>4. QED BY <1>2, <1>3

\* One more submission is counted, and it overlaps if another is between its steps.
Counts(t, c) ==
    /\ UNCHANGED entries /\ Owner(c.token) \in Users /\ entries[Owner(c.token)] < WeeklyLimit
    /\ overlaps' = [overlaps EXCEPT ![Owner(c.token)] =
                      IF Between(Owner(c.token)) = {} THEN @ ELSE @ + 1]
    /\ \E d : /\ d.token = c.token
              /\ \A s \in Tabs : \A e \in calls'[s] :
                    e.kind = "submit" /\ e.step = "counted" => e \in calls[s] \/ (s = t /\ e = d)

\* The entries of the week are counted: it is the only step that counts a submission.
LEMMA CountEntriesKeeps ==
  ASSUME Inv, NEW t \in Tabs, NEW c \in calls[t], CountEntries(t, c)
  PROVE  Inv' /\ UNCHANGED owner /\ (CountedKept \/ Counts(t, c))
<1> DEFINE u == Owner(c.token)
<1>1. /\ c.kind = "submit" /\ c.step = "sent" /\ Valid(c.token) /\ calls \in [Tabs -> SUBSET AllCalls]
      /\ UNCHANGED session /\ UNCHANGED <<steps, version, page, opened, entries>>
  BY DEF CountEntries, tables, Inv, TypeInv, CallsTyped
<1>2. c.kind \in TableKinds
  BY <1>1 DEF TableKinds
<1>3. /\ c \in TableCalls /\ CallInv(t, c) /\ u \in Users /\ entries \in [Users -> Nat] /\ c.of \in Someone
      /\ page = [page EXCEPT ![t] = page[t]] /\ c.version \in Nat
  BY <1>1, <1>2, ServedType
<1>4. CASE entries[u] >= WeeklyLimit
  <2> DEFINE X == calls[t] \ {c}
  <2>1. /\ calls' = [calls EXCEPT ![t] = X] /\ X \subseteq calls[t] /\ UNCHANGED overlaps
    BY <1>2, <1>4, Following DEF CountEntries, Answered, Follow, Inv
  <2>2. page' = [page EXCEPT ![t] = page[t]]
    BY <1>1, <1>3
  <2> HIDE DEF X
  <2>3. QED BY <1>1, <2>1, <2>2, DropKeeps
<1>5. CASE ~(entries[u] >= WeeklyLimit)
  <2>d. PICK d : d = [c EXCEPT !.step = "counted"]
    OBVIOUS
  <2> DEFINE X == (calls[t] \ {c}) \cup {d}
  <2>1. calls' = [calls EXCEPT ![t] = X]
        /\ overlaps' = [overlaps EXCEPT ![u] = IF Between(u) = {} THEN @ ELSE @ + 1]
    BY <1>5, <2>d DEF CountEntries, Replace
  <2>2. /\ d \in TableCalls /\ d.step = "counted" /\ d.version = c.version /\ d.of = c.of /\ d.kind = c.kind
        /\ d.token = c.token /\ d.id = c.id /\ d.table = c.table /\ d.key = c.key /\ d.n = c.n
    BY <1>3, <2>d DEF TableCalls
  <2>3. overlaps' \in [Users -> Nat]
    <3>1. overlaps \in [Users -> Nat]
      BY DEF Inv, TypeInv, TablesTyped
    <3>2. QED BY <1>3, <2>1, <3>1
  <2>4. PageStep(t, X, page[t])
    <3>1. X \in SUBSET AllCalls /\ NewCalls(t, X)
      BY <1>2, <2>2, Following DEF Inv
    <3>2. page' = [page EXCEPT ![t] = page[t]] /\ page[t] \in Pages \cup {None} /\ (page[t] # None => Mounted(t))
      BY <1>1, <1>2, ServedType
    <3>3. /\ steps' \in 0 .. MaxSteps /\ version' \in Nat /\ version <= version'
          /\ opened' \in [Tabs -> Nat] /\ opened[t] <= opened'[t]
          /\ entries' \in [Users -> Nat] /\ \A w \in Users : entries[w] <= entries'[w]
      BY <1>1 DEF Inv, TypeInv, SessionTyped, TablesTyped
    <3>4. QED BY <1>1, <2>1, <2>3, <3>1, <3>2, <3>3 DEF PageStep
  <2>5. CallInv(t, d)'
    <3>1. c.token # 0
      BY <1>1, CallsType DEF Valid, Tokens, Inv
    <3>2. QED BY <1>1, <1>3, <2>2, <3>1 DEF CallInv
  <2>6. Follows(t, c, d)
    BY <1>1, <1>2, <2>2, <2>4, <2>5 DEF Follows
  <2>7. /\ Inv' /\ UNCHANGED owner /\ (\A s \in Tabs \ {t} : calls'[s] = calls[s]) /\ calls'[t] = X
    BY <2>6, FollowKeeps
  <2>8. \A s \in Tabs : \A e \in calls'[s] : e \in calls[s] \/ (s = t /\ e = d)
    BY <2>7
  <2>9. Counts(t, c)
    <3>1. entries[u] < WeeklyLimit
      BY <1>3, <1>5
    <3>2. QED BY <1>1, <1>3, <2>1, <2>2, <2>8, <3>1 DEF Counts
  <2>10. QED BY <2>7, <2>9
<1>6. QED BY <1>4, <1>5

\* The history is asked for again when its user is replaced.
LEMMA ReplyUserKeeps ==
  ASSUME Inv, NEW t \in Tabs, NEW c \in calls[t], IsOpen(t), page[t].table = "history", ReplyUser(t, c)
  PROVE  Inv' /\ UNCHANGED owner /\ CountedKept
<1> USE DEF Inv
<1> DEFINE p == page[t]
           q == Asking(p, p.choice)
<1>1. /\ p \in Pages /\ Mounted(t) /\ RequestsInv(t) /\ page \in [Tabs -> Pages \cup {None}]
      /\ p.choice \in Keys /\ p.asks \in Nat /\ p.holds \in Nat /\ ~auth[t].loading /\ Screen(t) = "app"
  BY OpenType DEF RequestInv, TypeInv, TablesTyped, Pages
<1>2. /\ q \in Pages /\ q.choice = p.choice /\ q.asks = p.asks + 1 /\ q.id = p.id
      /\ q.table = p.table /\ q.shown = p.shown /\ q.holds = p.holds /\ q.saved = p.saved
  BY <1>1, AskingType
<1>d. PICK d : d = TableCall(q, q.choice, q.asks)
  OBVIOUS
<1> DEFINE more == {d}
<1>3. /\ UserAnswered(t, c, more) /\ page' = [page EXCEPT ![t] = q]
      /\ UNCHANGED <<version, opened, entries, overlaps>>
  BY <1>d DEF ReplyUser, feedback
<1> HIDE DEF q
<1>4. q.id \in Nat /\ q.table \in AllTables /\ q.asks \in Nat /\ q.choice \in Keys
  BY <1>2 DEF Pages
<1>5. /\ d \in TableCalls /\ d.kind = "table" /\ d.step = "sent" /\ d.token = stored /\ d.id = p.id
      /\ d.table = p.table /\ d.n = q.asks /\ d.key = p.choice
  BY <1>2, <1>4, <1>d, TableCallType
<1>6. /\ Goal' /\ calls'[t] = (calls[t] \ {c}) \cup {d} /\ \A s \in Tabs \ {t} : calls'[s] = calls[s]
      /\ auth'[t].user = Owner(c.token) /\ Owner(c.token) \in Users /\ auth'[t].token = auth[t].token
      /\ at'[t] = at[t] /\ \A s \in Tabs \ {t} : auth'[s] = auth[s]
  <2>1. more \in SUBSET TableCalls /\ \A e \in more : e.token = stored
    BY <1>5
  <2> HIDE DEF more
  <2>2. /\ Goal' /\ calls'[t] = (calls[t] \ {c}) \cup more /\ \A s \in Tabs \ {t} : calls'[s] = calls[s]
        /\ auth'[t].user = Owner(c.token) /\ Owner(c.token) \in Users /\ auth'[t].token = auth[t].token
        /\ at'[t] = at[t] /\ \A s \in Tabs \ {t} : auth'[s] = auth[s]
    BY <1>3, <2>1, UserAnsweredKeeps
  <2>3. QED BY <2>2 DEF more
<1>7. /\ UNCHANGED <<owner, foreign, stored, at>> /\ c.kind \in {"first", "refresh"}
      /\ crossed' = IF c.token = auth[t].token THEN crossed ELSE crossed \cup {t}
  BY <1>3 DEF UserAnswered, tokens
<1>8. OwnersKept
  BY <1>7, NoneIssued
<1>9. page'[t] = q /\ (\A s \in Tabs \ {t} : page'[s] = page[s]) /\ TablesTyped'
  BY <1>1, <1>2, <1>3 DEF TypeInv, TablesTyped
<1>10. PagesInv'
  <2>1. ASSUME NEW s \in Tabs, IsOpen(s)' PROVE Mounted(s)'
    <3>1. CASE s = t
      BY <1>1, <1>6, <1>7, <3>1 DEF Mounted, Screen, Shows
    <3>2. CASE s # t
      BY <1>6, <1>7, <1>9, <2>1, <3>2 DEF IsOpen, PagesInv, PageInv, Mounted, Screen, Shows
    <3>3. QED BY <3>1, <3>2
  <2>2. QED BY <2>1 DEF PagesInv, PageInv
<1>11. ASSUME NEW s \in Tabs \ {t} PROVE RequestsInv(s)'
  <2>1. /\ RequestsInv(s) /\ Asked(s)' = Asked(s) /\ page'[s] = page[s]
        /\ Shows(s)' = Shows(s) /\ (Clean(s)' => Clean(s))
    BY <1>6, <1>7, <1>9 DEF RequestInv, Asked, Shows, Clean
  <2>2. /\ version \in Nat /\ version' \in Nat /\ version <= version'
        /\ entries \in [Users -> Nat] /\ entries' \in [Users -> Nat]
        /\ (\A u \in Users : entries[u] <= entries'[u]) /\ opened'[s] = opened[s]
    BY <1>3 DEF TypeInv, TablesTyped
  <2>3. QED BY <1>8, <2>1, <2>2, TablesKept
<1>12. Clean(t)' => Clean(t) /\ Shows(t)' = Shows(t)
  <2>1. SUFFICES ASSUME Clean(t)' PROVE Clean(t) /\ Shows(t)' = Shows(t)
    OBVIOUS
  <2>2. Clean(t) /\ c.token = auth[t].token
    <3>1. crossed \subseteq Tabs
      BY DEF TypeInv, SessionTyped
    <3>2. QED BY <1>7, <2>1, <3>1 DEF Clean
  <2>3. Shows(t) = Owner(auth[t].token)
    BY <1>1, <2>2 DEF SessionInv, TabInv, LoadInv, Clean
  <2>4. QED BY <1>6, <2>2, <2>3 DEF Shows
<1>13. \A e \in Asked(t)' : e = d \/ e \in Asked(t)
  BY <1>6 DEF Asked
<1>14. \A e \in Its(t)' : e = d \/ (e \in Its(t) /\ e.n \in Nat)
  BY <1>2, <1>9, <1>13, AskedType DEF Its
<1>15. CallsInv(t)'
  <2>1. CallsInv(t) /\ p.id <= opened[t]
    BY <1>1 DEF RequestsInv, TableInv
  <2>2. QED BY <1>3, <1>5, <1>7, <1>13, <2>1 DEF CallsInv, CallInv, Owner
<1>16. TableInv(t)'
  <2>1. TableInv(t)
    BY <1>1 DEF RequestsInv
  <2>2. ASSUME NEW e \in Its(t)' PROVE ItsInv(t, e)'
    <3>1. CASE e = d
      BY <1>2, <1>4, <1>5, <1>9, <3>1 DEF ItsInv
    <3>2. CASE e \in Its(t) /\ e.n \in Nat
      <4>1. ItsInv(t, e)
        BY <2>1, <3>2 DEF TableInv
      <4>2. QED BY <1>1, <1>2, <1>9, <3>2, <4>1 DEF ItsInv
    <3>3. QED BY <1>14, <2>2, <3>1, <3>2
  <2>3. q.holds < q.asks
    BY <1>1, <1>2, <2>1 DEF TableInv
  <2>4. ShownInv(t)'
    BY <1>2, <1>4, <1>9, <1>12, <2>1, <2>3 DEF TableInv, ShownInv
  <2>5. QED BY <1>1, <1>2, <1>3, <1>9, <2>1, <2>2, <2>3, <2>4 DEF TableInv
<1>17. EntriesInv(t)'
  BY <1>2, <1>9 DEF EntriesInv
<1>18. CountedKept
  BY <1>3, <1>5, <1>6 DEF CountedKept
<1>19. QED
  BY <1>6, <1>7, <1>9, <1>10, <1>11, <1>15, <1>16, <1>17, <1>18
     DEF Goal, TypeInv, RequestInv, RequestsInv

-----------------------------------------------------------------------------
\* All steps

\* Whatever a user does in a page.
LEMMA UseKeeps ==
  ASSUME Inv, NEW t \in Tabs, Use(t)
  PROVE  Inv' /\ UNCHANGED owner /\ CountedKept
<1>1. CASE \E table \in Tables[t] : OpenPage(t, table)
  BY <1>1, OpenPageKeeps
<1>2. ASSUME NEW f \in Filters, ChooseFilter(t, f) PROVE Inv' /\ UNCHANGED owner /\ CountedKept
  <2> DEFINE k == [FirstKey EXCEPT !.filter = f]
  <2>1. k \in Keys
    BY DEF FirstKey, Keys
  <2> HIDE DEF k
  <2>2. IsOpen(t) /\ page[t].table # "myfeedback" /\ AskFor(t, k)
    BY <1>2 DEF ChooseFilter, Filtered, k
  <2>3. QED BY <2>1, <2>2, AskForKeeps
<1>3. ASSUME NEW n \in 1 .. LastPage, TurnPage(t, n) PROVE Inv' /\ UNCHANGED owner /\ CountedKept
  <2> DEFINE k == [page[t].choice EXCEPT !.number = n]
  <2>1. IsOpen(t) /\ page[t].table # "myfeedback" /\ AskFor(t, k)
    BY <1>3 DEF TurnPage, Paged
  <2>2. k \in Keys
    <3>1. page[t].choice \in Keys /\ n \in Nat
      BY <2>1, OpenType DEF Inv, Pages
    <3>2. QED BY <3>1 DEF Keys
  <2> HIDE DEF k
  <2>3. QED BY <2>1, <2>2, AskForKeeps
<1>4. CASE LeavePage(t)
  BY <1>4, LeavePageKeeps
<1>5. CASE AskAgain(t)
  <2>1. IsOpen(t) /\ page[t].table # "myfeedback" /\ AskFor(t, page[t].choice)
    BY <1>5 DEF AskAgain
  <2>2. page[t].choice \in Keys
    BY <2>1, OpenType DEF Inv, Pages
  <2> DEFINE k == page[t].choice
  <2>3. k \in Keys /\ AskFor(t, k)
    BY <2>1, <2>2
  <2> HIDE DEF k
  <2>4. QED BY <2>1, <2>3, AskForKeeps
<1>6. CASE Poll(t)
  BY <1>6, PollKeeps
<1>7. CASE Save(t)
  BY <1>7, SaveKeeps
<1>8. CASE Submit(t)
  BY <1>8, SubmitKeeps
<1>9. QED BY <1>1, <1>2, <1>3, <1>4, <1>5, <1>6, <1>7, <1>8 DEF Use

\* Whatever the server answers, but to the two steps of a submission.
LEMMA ServeKeeps ==
  ASSUME Inv, NEW t \in Tabs, NEW c \in calls[t],
         Reads(t, c) \/ ShowTable(t, c) \/ Forbidden(t, c) \/ WriteSave(t, c) \/ SaveDone(t, c)
            \/ SubmitDone(t, c) \/ RequestFails(t, c)
  PROVE  Inv' /\ UNCHANGED owner /\ CountedKept
<1>1. CASE Reads(t, c)
  BY <1>1, ReadsKeep
<1>2. CASE ShowTable(t, c)
  BY <1>2, ShowTableKeeps
<1>3. CASE Forbidden(t, c) \/ RequestFails(t, c)
  BY <1>3, RefusedKeeps DEF Forbidden, RequestFails
<1>4. CASE WriteSave(t, c)
  BY <1>4, WriteSaveKeeps
<1>5. CASE SaveDone(t, c)
  BY <1>5, SaveDoneKeeps
<1>6. CASE SubmitDone(t, c)
  BY <1>6, SubmitDoneKeeps
<1>7. QED BY <1>1, <1>2, <1>3, <1>4, <1>5, <1>6

\* What a step may do to the submissions.
Inserts(t, c) ==
    /\ UNCHANGED overlaps /\ Owner(c.token) \in Users
    /\ entries' = [entries EXCEPT ![Owner(c.token)] = @ + 1]
    /\ c.kind = "submit" /\ c.step = "counted"
    /\ \A s \in Tabs : \A d \in calls'[s] :
          d.kind = "submit" /\ d.step = "counted" => d \in calls[s] /\ (s = t => d # c)

\* What every step keeps, and what it may do to the submissions.
StepKept ==
    /\ Inv' /\ OwnersKept
    /\ \/ CountedKept
       \/ \E t \in Tabs : \E c \in calls[t] : Counts(t, c) \/ Inserts(t, c)

\* A step of the session counts and inserts no submission.
LEMMA SessionStepKept ==
  ASSUME Inv, SessionStep, ClosePages
  PROVE  StepKept
<1>1. /\ Inv' /\ OwnersKept /\ UNCHANGED <<version, opened, entries, overlaps>>
      /\ \A t \in Tabs : Asked(t)' \subseteq Asked(t)
  BY SessionClosesInv
<1>2. CountedKept
  BY <1>1 DEF CountedKept, Asked, TableKinds
<1>3. QED BY <1>1, <1>2 DEF StepKept

\* A step of the server.
LEMMA ServeStepKept ==
  ASSUME Inv, NEW t \in Tabs, Serve(t)
  PROVE  StepKept
<1>1. PICK c \in calls[t] :
        \/ Reads(t, c) \/ ShowTable(t, c) \/ Forbidden(t, c)
        \/ WriteSave(t, c) \/ SaveDone(t, c)
        \/ CountEntries(t, c) \/ InsertEntry(t, c) \/ SubmitDone(t, c)
        \/ RequestFails(t, c)
  BY DEF Serve
<1>2. CASE CountEntries(t, c)
  <2>1. Inv' /\ UNCHANGED owner /\ (CountedKept \/ Counts(t, c))
    BY <1>2, CountEntriesKeeps
  <2>2. QED BY <2>1, NoneIssued DEF Inv, StepKept
<1>3. CASE InsertEntry(t, c)
  <2>1. Inv' /\ UNCHANGED owner /\ Inserts(t, c)
    BY <1>3, InsertEntryKeeps DEF Inserts
  <2>2. QED BY <2>1, NoneIssued DEF Inv, StepKept
<1>4. CASE ~(CountEntries(t, c) \/ InsertEntry(t, c))
  <2>1. Inv' /\ UNCHANGED owner /\ CountedKept
    BY <1>1, <1>4, ServeKeeps
  <2>2. QED BY <2>1, NoneIssued DEF Inv, StepKept
<1>5. QED BY <1>2, <1>3, <1>4

\* Every step keeps the invariant.
LEMMA NextKeeps ==
  ASSUME Inv, Next
  PROVE  StepKept
<1>1. CASE \E t \in Tabs : Act(t) /\ ClosePages
  BY <1>1, SessionStepKept DEF SessionStep
<1>2. CASE \E t \in Tabs : Reply(t)
  BY <1>2, SessionStepKept DEF SessionStep, Reply
<1>3. CASE (\E k \in Tokens : Expire(k)) /\ ClosePages
  BY <1>3, SessionStepKept DEF SessionStep
<1>4. ASSUME NEW t \in Tabs, NEW c \in calls[t], ReplyUser(t, c) PROVE StepKept
  <2>1. CASE IsOpen(t) /\ page[t].table = "history"
    <3>1. Inv' /\ UNCHANGED owner /\ CountedKept
      BY <1>4, <2>1, ReplyUserKeeps
    <3>2. QED BY <3>1, NoneIssued DEF Inv, StepKept
  <2>2. CASE ~(IsOpen(t) /\ page[t].table = "history")
    <3>1. UserAnswered(t, c, {}) /\ ClosePages
      BY <1>4, <2>2 DEF ReplyUser
    <3>2. SessionStep
      BY <3>1 DEF SessionStep
    <3>3. QED BY <3>1, <3>2, SessionStepKept
  <2>3. QED BY <2>1, <2>2
<1>5. ASSUME NEW t \in Tabs, Use(t) PROVE StepKept
  <2>1. Inv' /\ UNCHANGED owner /\ CountedKept
    BY <1>5, UseKeeps
  <2>2. QED BY <2>1, NoneIssued DEF Inv, StepKept
<1>6. ASSUME NEW t \in Tabs, Serve(t) PROVE StepKept
  BY <1>6, ServeStepKept
<1>7. QED BY <1>1, <1>2, <1>3, <1>4, <1>5, <1>6 DEF Next

\* So does a step that changes nothing.
LEMMA StutterKeeps ==
  ASSUME Inv, UNCHANGED vars
  PROVE  Inv'
<1>1. UNCHANGED <<owner, expired, stored, auth, at, form, calls, foreign, crossed, steps,
                  version, page, opened, entries, overlaps>>
  BY DEF vars, session, tokens, browser, past, tables, feedback
<1>2. TypeInv'
  BY <1>1 DEF Inv, TypeInv, SessionTyped, CallsTyped, TablesTyped, Tokens
<1>3. SessionInv'
  BY <1>1 DEF Inv, SessionInv, TabInv, SignInInv, LoadInv, OwnInv, Clean, Screen, Shows, Owner
<1>4. PagesInv'
  BY <1>1 DEF Inv, PagesInv, PageInv, IsOpen, Mounted, Screen, Shows
<1>5. ASSUME NEW t \in Tabs PROVE RequestsInv(t)'
  <2>1. Asked(t)' = Asked(t) /\ Shows(t)' = Shows(t) /\ (Clean(t)' <=> Clean(t)) /\ RequestsInv(t)
    BY <1>1 DEF Asked, Shows, Clean, Inv, RequestInv
  <2>2. /\ version \in Nat /\ version' \in Nat /\ version <= version'
        /\ entries \in [Users -> Nat] /\ entries' \in [Users -> Nat]
        /\ (\A u \in Users : entries[u] <= entries'[u]) /\ opened'[t] = opened[t] /\ page'[t] = page[t]
    BY <1>1 DEF Inv, TypeInv, TablesTyped
  <2>3. OwnersKept
    BY <1>1, NoneIssued DEF Inv
  <2>4. QED BY <2>1, <2>2, <2>3, TablesKept DEF Inv
<1>6. QED BY <1>2, <1>3, <1>4, <1>5 DEF Inv, RequestInv

\* The invariant holds when nobody is signed in.
LEMMA InitInv ==
  ASSUME Init
  PROVE  Inv
<1>1. /\ owner = << >> /\ expired = {} /\ stored = 0 /\ auth = [t \in Tabs |-> SignedOut]
      /\ at = [t \in Tabs |-> "login"] /\ form = [t \in Tabs |-> None] /\ calls = [t \in Tabs |-> {}]
      /\ foreign = {} /\ crossed = {} /\ steps = 0 /\ version = 0 /\ page = [t \in Tabs |-> None]
      /\ opened = [t \in Tabs |-> 0] /\ entries = [u \in Users |-> 0] /\ overlaps = entries
  BY DEF Init, SessionInit
<1>2. SignedOut \in Auths /\ SignedOut.token = 0 /\ SignedOut.user = None /\ SignedOut.loading = FALSE
  BY DEF SignedOut, Auths, Someone
<1>3. SessionTyped
  BY <1>1, <1>2 DEF SessionTyped, Tokens, Someone
<1>4. CallsTyped /\ TablesTyped
  BY <1>1 DEF CallsTyped, TablesTyped
<1>5. SessionInv
  BY <1>1, <1>2 DEF SessionInv, TabInv, SignInInv, LoadInv, OwnInv, Screen
<1>6. PagesInv /\ RequestInv
  BY <1>1 DEF PagesInv, PageInv, IsOpen, RequestInv, RequestsInv, CallsInv, TableInv, EntriesInv, Asked
<1>7. QED BY <1>3, <1>4, <1>5, <1>6 DEF Inv, TypeInv

\* The invariant holds.
LEMMA AlwaysInv == Spec => []Inv
<1>1. Init => Inv
  BY InitInv
<1>2. Inv /\ [Next]_vars => Inv'
  BY NextKeeps, StutterKeeps DEF StepKept
<1>3. QED BY <1>1, <1>2, PTL DEF Spec

-----------------------------------------------------------------------------
\* Who is signed in

\* The session has its types: tokens are users', each tab's is one that was issued.
THEOREM TypeCorrect == Spec => []SessionTypeOK
<1>1. ASSUME Inv PROVE SessionTypeOK
  <2>1. ASSUME NEW t \in Tabs
        PROVE  /\ auth[t] \in [token : 0 .. Len(owner), user : Users \cup {None}, loading : BOOLEAN]
               /\ at[t] \in {"login", "app"} /\ form[t] \in Users \cup {None}
               /\ \A c \in calls[t] : c.token \in 0 .. Len(owner)
    BY <1>1, CallsType DEF Inv, Auths, Someone
  <2>2. QED BY <1>1, <2>1 DEF Inv, TypeInv, SessionTyped, SessionTypeOK
<1>2. QED BY <1>1, AlwaysInv, PTL

\* What a tab does is done by the user it shows (ActsAsShown), however many tabs and
\* tokens there are, and in whatever order the requests are answered.
THEOREM DoneByWhomItShows == Spec => []ActsAsShown
<1>1. ASSUME Inv PROVE ActsAsShown
  BY <1>1 DEF Inv, SessionInv, TabInv, LoadInv, OwnInv, Clean, ActsAsShown
<1>2. QED BY <1>1, AlwaysInv, PTL

\* No step but these signs a tab out that has only its own tokens.
LEMMA SignsOut ==
  ASSUME TypeInv, SessionInv, NEW t \in Tabs, Clean(t), auth[t].token # 0,
         auth'[t].token = 0, SessionStep
  PROVE  {auth[t].token, stored} \cap expired # {} \/ auth[t].loading \/ Logout(t)
<1>1. /\ auth \in [Tabs -> Auths] /\ TabInv(t) /\ auth[t].token \in Tokens /\ stored \in Tokens
  <2>1. /\ TabInv(t) /\ auth \in [Tabs -> Auths] /\ auth[t].token \in Nat
        /\ auth[t].token <= Len(owner) /\ stored \in Nat /\ stored <= Len(owner) /\ stored # 0
    BY CallsType DEF TypeInv, SessionTyped, SessionInv, TabInv, OwnInv
  <2>2. QED BY <2>1, CallsType DEF Tokens
<1>2. CASE \E s \in Tabs : Act(s)
  <2>1. PICK s \in Tabs : Act(s)
    BY <1>2
  <2>2. CASE Logout(s)
    <3>1. s = t
      BY <1>1, <2>2 DEF Logout
    <3>2. QED BY <2>2, <3>1
  <2>3. CASE \E where \in {"login", "app"} : Visit(s, where)
    <3>1. auth' = [auth EXCEPT ![s] = [token |-> stored, user |-> None, loading |-> stored # 0]]
      BY <2>3 DEF Visit, Load
    <3>2. auth'[t].token \in {auth[t].token, stored}
      BY <1>1, <3>1
    <3>3. QED BY <1>1, <3>2 DEF Tokens
  <2>4. CASE (\E u \in Users : SignIn(s, u)) \/ RefreshUser(s)
    BY <2>4 DEF SignIn, RefreshUser, session, browser
  <2>5. QED BY <2>1, <2>2, <2>3, <2>4 DEF Act
<1>3. CASE \E k \in Tokens : Expire(k)
  BY <1>3 DEF Expire, browser
<1>4. CASE \E s \in Tabs : \E c \in calls[s] : Answer(s, c) \/ UserAnswered(s, c, {})
  <2>0. PICK s \in Tabs : \E c \in calls[s] : Answer(s, c) \/ UserAnswered(s, c, {})
    BY <1>4
  <2>1. PICK c \in calls[s] : Answer(s, c) \/ UserAnswered(s, c, {})
    BY <2>0
  <2>2. CASE UserAnswered(s, c, {})
    <3>1. auth'[t].token = auth[t].token
      BY <1>1, <2>2 DEF UserAnswered, Auths
    <3>2. QED BY <3>1
  <2>3. CASE LoggedIn(s, c) \/ LoginFails(s, c) \/ MeFails(s, c)
    BY <2>3 DEF LoggedIn, LoginFails, MeFails, browser
  <2>4. CASE MeAnswered(s, c)
    <3>1. s = t => c.issued = c.token /\ c.token # 0
      BY <1>1, <2>1, <2>4 DEF MeAnswered, Valid, Tokens, TabInv, SignInInv
    <3>2. auth' = [auth EXCEPT ![s] = [token |-> c.issued, user |-> Owner(c.token), loading |-> FALSE]]
      BY <2>4 DEF MeAnswered
    <3>3. QED BY <1>1, <3>1, <3>2
  <2>5. CASE Unauthorized(s, c)
    <3>1. auth' = [auth EXCEPT ![s] = [token |-> 0, user |-> None, loading |-> 0 # 0]]
      BY <2>5 DEF Unauthorized, Load
    <3>2. s = t
      BY <1>1, <3>1
    <3>3. c \in calls[t] /\ c.kind # "login" /\ ~Valid(c.token)
      BY <2>1, <2>5, <3>2 DEF Unauthorized
    <3>4. c.token \in {auth[t].token, stored}
      BY <1>1, <3>3 DEF TabInv, OwnInv
    <3>5. c.token \in expired
      BY <1>1, <3>3, <3>4 DEF Valid
    <3>6. QED BY <3>4, <3>5
  <2>6. CASE FirstFails(s, c)
    <3>1. c.kind = "first" /\ auth' = [auth EXCEPT ![s] = SignedOut]
      BY <2>6 DEF FirstFails
    <3>2. s = t
      BY <1>1, <3>1
    <3>3. auth[t].loading
      BY <1>1, <2>1, <3>1, <3>2 DEF TabInv, LoadInv, Clean
    <3>4. QED BY <3>3
  <2>7. QED BY <2>1, <2>2, <2>3, <2>4, <2>5, <2>6 DEF Answer
<1>5. QED BY <1>2, <1>3, <1>4 DEF SessionStep

\* A page's step signs nobody out.
LEMMA PagesSignNobodyOut ==
  ASSUME TypeInv, NEW s \in Tabs, Use(s) \/ Serve(s)
  PROVE  auth' = auth
<1>1. CASE Use(s)
  BY <1>1 DEF Use, OpenPage, ChooseFilter, TurnPage, LeavePage, AskAgain, AskFor, Poll, Save, Submit,
              session, browser
<1>2. CASE Serve(s)
  <2>1. PICK c \in calls[s] :
          \/ Reads(s, c) \/ ShowTable(s, c) \/ Forbidden(s, c)
          \/ WriteSave(s, c) \/ SaveDone(s, c)
          \/ CountEntries(s, c) \/ InsertEntry(s, c) \/ SubmitDone(s, c)
          \/ RequestFails(s, c)
    BY <1>2 DEF Serve
  <2>2. CASE Reads(s, c)
    BY <2>2 DEF Reads, ListUsers, GetPlatformStats, GetAllAuditLog, GetAll, GetMyBets, GetUserAuditLog,
                GetMyFeedback, GetJobSchedules, GetActiveChallenges, GetLeaderboard, Read,
                session, browser
  <2>3. CASE ShowTable(s, c) \/ Forbidden(s, c) \/ RequestFails(s, c)
    BY <2>3 DEF ShowTable, Forbidden, RequestFails, Refused, session, browser
  <2>4. CASE \/ WriteSave(s, c) \/ SaveDone(s, c) \/ CountEntries(s, c)
             \/ InsertEntry(s, c) \/ SubmitDone(s, c)
    BY <2>4 DEF WriteSave, SaveDone, CountEntries, InsertEntry, SubmitDone, session, browser
  <2>5. QED BY <2>1, <2>2, <2>3, <2>4
<1>3. QED BY <1>1, <1>2

\* A tab that has only its own tokens stays signed in (StaysSignedIn): no answer to a
\* request of another session, and no page, signs it out.
THEOREM NobodySignedOut == Spec => StaysSignedIn
<1> DEFINE Stays == \A t \in Tabs \ (foreign \cup crossed) :
                       auth[t].token # 0 /\ auth'[t].token = 0 =>
                         {auth[t].token, stored} \cap expired # {} \/ auth[t].loading \/ Logout(t)
<1>1. ASSUME Inv, [Next]_vars PROVE Stays
  <2>1. SUFFICES ASSUME NEW t \in Tabs, Clean(t), auth[t].token # 0, auth'[t].token = 0
                 PROVE  {auth[t].token, stored} \cap expired # {} \/ auth[t].loading \/ Logout(t)
    BY DEF Clean
  <2>2. ASSUME SessionStep
        PROVE  {auth[t].token, stored} \cap expired # {} \/ auth[t].loading \/ Logout(t)
    BY <1>1, <2>1, <2>2, SignsOut DEF Inv
  <2>3. CASE \E s \in Tabs : Act(s) \/ Reply(s)
    BY <2>2, <2>3 DEF SessionStep, Reply
  <2>4. CASE \E k \in Tokens : Expire(k)
    BY <2>2, <2>4 DEF SessionStep
  <2>5. CASE \E s \in Tabs : \E c \in calls[s] : ReplyUser(s, c)
    <3>0. PICK s \in Tabs : \E c \in calls[s] : ReplyUser(s, c)
      BY <2>5
    <3>1. PICK c \in calls[s] : ReplyUser(s, c)
      BY <3>0
    <3>2. auth \in [Tabs -> Auths] /\ \E more : UserAnswered(s, c, more)
      BY <1>1, <3>1 DEF ReplyUser, Inv, TypeInv, SessionTyped
    <3>3. auth'[t].token = auth[t].token
      BY <3>2 DEF UserAnswered, Auths
    <3>4. QED BY <2>1, <3>3
  <2>6. CASE \E s \in Tabs : Use(s) \/ Serve(s)
    BY <1>1, <2>1, <2>6, PagesSignNobodyOut DEF Inv
  <2>7. CASE UNCHANGED vars
    BY <2>1, <2>7 DEF vars, session, browser
  <2>8. QED BY <1>1, <2>3, <2>4, <2>5, <2>6, <2>7 DEF Next
<1>2. QED BY <1>1, AlwaysInv, PTL DEF Spec, StaysSignedIn

-----------------------------------------------------------------------------
\* The weekly limit of the feedback

\* The submissions of u that are counted and not inserted.
Counted(u) ==
    {x \in Tabs \X AllCalls :
        /\ x[2] \in calls[x[1]] /\ x[2].kind = "submit" /\ x[2].step = "counted"
        /\ Owner(x[2].token) = u}

\* What is counted has its room below the limit, or is one of the overlaps.
LimitInv ==
    \A u \in Users : /\ IsFiniteSet(Counted(u))
                     /\ entries[u] + Cardinality(Counted(u)) <= WeeklyLimit + overlaps[u]

\* If nothing more of u is counted, and u's entries stay as they are.
LEMMA FewerCounted ==
  ASSUME Inv, LimitInv, Inv', NEW u \in Users, Counted(u)' \subseteq Counted(u),
         entries'[u] = entries[u], overlaps[u] <= overlaps'[u]
  PROVE  IsFiniteSet(Counted(u)') /\ entries'[u] + Cardinality(Counted(u)') <= WeeklyLimit + overlaps'[u]
<1>1. IsFiniteSet(Counted(u)) /\ entries[u] + Cardinality(Counted(u)) <= WeeklyLimit + overlaps[u]
  BY DEF LimitInv
<1>2. entries[u] \in Nat /\ overlaps[u] \in Nat /\ overlaps'[u] \in Nat
  BY DEF Inv, TypeInv, TablesTyped
<1>3. /\ IsFiniteSet(Counted(u)') /\ Cardinality(Counted(u)') <= Cardinality(Counted(u))
      /\ Cardinality(Counted(u)) \in Nat /\ Cardinality(Counted(u)') \in Nat
  BY <1>1, FS_Subset, FS_CardinalityType
<1>4. QED BY <1>1, <1>2, <1>3

\* If no submission is counted anew, those of u are among those of before.
LEMMA NoMoreCounted ==
  ASSUME Inv, OwnersKept, CountedKept, NEW u \in Users
  PROVE  Counted(u)' \subseteq Counted(u)
<1>1. ASSUME NEW x \in Counted(u)' PROVE x \in Counted(u)
  <2>1. /\ x \in Tabs \X AllCalls /\ x[2] \in calls'[x[1]] /\ x[2].kind = "submit"
        /\ x[2].step = "counted" /\ Owner(x[2].token)' = u
    BY <1>1 DEF Counted
  <2>2. x[1] \in Tabs /\ x[2] \in calls[x[1]]
    BY <2>1 DEF CountedKept
  <2>3. Owner(x[2].token) = u
    BY <2>1, <2>2, CallsType, OwnerKept DEF Inv
  <2>4. QED BY <2>1, <2>2, <2>3 DEF Counted
<1>2. QED BY <1>1

\* Every step keeps the limit: counting takes the room, or overlaps; inserting fills it.
LEMMA LimitNext ==
  ASSUME Inv, LimitInv, Next
  PROVE  LimitInv'
<1>1. StepKept
  BY NextKeeps
<1>2. CASE CountedKept
  <2>1. ASSUME NEW u \in Users
        PROVE  /\ IsFiniteSet(Counted(u)')
               /\ entries'[u] + Cardinality(Counted(u)') <= WeeklyLimit + overlaps'[u]
    <3>1. entries'[u] = entries[u] /\ overlaps'[u] = overlaps[u] /\ overlaps[u] \in Nat
      BY <1>2 DEF CountedKept, Inv, TypeInv, TablesTyped
    <3>2. QED BY <1>1, <1>2, <3>1, NoMoreCounted, FewerCounted DEF StepKept
  <2>2. QED BY <2>1 DEF LimitInv
<1>3. ASSUME NEW t \in Tabs, NEW c \in calls[t], Counts(t, c)
      PROVE  LimitInv'
  <2> DEFINE w == Owner(c.token)
  <2>1. /\ UNCHANGED entries /\ w \in Users /\ entries[w] < WeeklyLimit
        /\ overlaps' = [overlaps EXCEPT ![w] = IF Between(w) = {} THEN @ ELSE @ + 1]
        /\ entries \in [Users -> Nat] /\ overlaps \in [Users -> Nat]
    BY <1>3 DEF Counts, Inv, TypeInv, TablesTyped
  <2>2. PICK d : /\ d.token = c.token
                 /\ \A s \in Tabs : \A e \in calls'[s] :
                       e.kind = "submit" /\ e.step = "counted" => e \in calls[s] \/ (s = t /\ e = d)
    BY <1>3 DEF Counts
  <2>3. c.token \in Nat /\ c.token <= Len(owner) /\ w = Owner(c.token)'
    BY <1>1, CallsType, OwnerKept DEF Inv, StepKept
  <2> HIDE DEF w
  <2>4. ASSUME NEW u \in Users, NEW x \in Counted(u)' 
        PROVE  x \in Counted(u) \/ (u = w /\ x = <<t, d>>)
    <3>1. /\ x \in Tabs \X AllCalls /\ x[2] \in calls'[x[1]] /\ x[2].kind = "submit"
          /\ x[2].step = "counted" /\ Owner(x[2].token)' = u
      BY <2>4 DEF Counted
    <3>2. CASE x[2] \in calls[x[1]]
      <4>1. Owner(x[2].token) = u
        BY <1>1, <3>1, <3>2, CallsType, OwnerKept DEF Inv, StepKept
      <4>2. QED BY <3>1, <3>2, <4>1 DEF Counted
    <3>3. CASE x[2] \notin calls[x[1]]
      <4>1. x[1] = t /\ x[2] = d
        BY <2>2, <3>1, <3>3
      <4>2. x = <<t, d>>
        BY <3>1, <4>1
      <4>3. u = w
        BY <2>2, <2>3, <3>1, <4>1
      <4>4. QED BY <4>2, <4>3
    <3>4. QED BY <3>2, <3>3
  <2>5. ASSUME NEW u \in Users
        PROVE  /\ IsFiniteSet(Counted(u)')
               /\ entries'[u] + Cardinality(Counted(u)') <= WeeklyLimit + overlaps'[u]
    <3>1. CASE u # w
      <4>1. Counted(u)' \subseteq Counted(u) /\ entries'[u] = entries[u]
            /\ overlaps'[u] = overlaps[u] /\ overlaps[u] <= overlaps'[u]
        BY <2>1, <2>4, <3>1
      <4>2. QED BY <1>1, <4>1, FewerCounted DEF StepKept
    <3>2. CASE u = w
      <4>1. /\ IsFiniteSet(Counted(u))
            /\ entries[u] + Cardinality(Counted(u)) <= WeeklyLimit + overlaps[u]
        BY DEF LimitInv
      <4>2. Counted(u)' \subseteq Counted(u) \cup {<<t, d>>}
        BY <2>4
      <4>3. /\ IsFiniteSet(Counted(u) \cup {<<t, d>>})
            /\ Cardinality(Counted(u) \cup {<<t, d>>}) <= Cardinality(Counted(u)) + 1
            /\ Cardinality(Counted(u)) \in Nat
            /\ Cardinality(Counted(u) \cup {<<t, d>>}) \in Nat
        <5>1. Cardinality(Counted(u)) \in Nat
          BY <4>1, FS_CardinalityType
        <5>2. /\ IsFiniteSet(Counted(u) \cup {<<t, d>>})
              /\ Cardinality(Counted(u) \cup {<<t, d>>}) =
                    IF <<t, d>> \in Counted(u) THEN Cardinality(Counted(u)) ELSE Cardinality(Counted(u)) + 1
          BY <4>1, FS_AddElement
        <5>3. QED BY <5>1, <5>2
      <4>4. /\ IsFiniteSet(Counted(u)') /\ Cardinality(Counted(u)') \in Nat
            /\ Cardinality(Counted(u)') <= Cardinality(Counted(u)) + 1
        BY <4>2, <4>3, FS_Subset, FS_CardinalityType
      <4>5. entries'[u] = entries[u] /\ entries[u] \in Nat /\ overlaps[u] \in Nat /\ WeeklyLimit \in Nat
        BY <2>1
      <4>6. CASE Between(u) = {}
        <5>1. Counted(u) = {}
          <6>1. ASSUME NEW x \in Counted(u) PROVE x[2] \in Between(u)
            BY DEF Counted, Between
          <6>2. QED BY <4>6, <6>1
        <5>2. Cardinality(Counted(u)) = 0
          BY <5>1, FS_EmptySet
        <5>3. overlaps'[u] = overlaps[u]
          BY <2>1, <3>2, <4>6
        <5>4. entries[u] < WeeklyLimit
          BY <2>1, <3>2
        <5>5. QED BY <4>4, <4>5, <5>2, <5>3, <5>4
      <4>7. CASE Between(u) # {}
        <5>1. overlaps'[u] = overlaps[u] + 1
          BY <2>1, <3>2, <4>7
        <5>2. QED BY <4>1, <4>3, <4>4, <4>5, <5>1
      <4>8. QED BY <4>6, <4>7
    <3>3. QED BY <3>1, <3>2
  <2>6. QED BY <2>5 DEF LimitInv
<1>4. ASSUME NEW t \in Tabs, NEW c \in calls[t], Inserts(t, c)
      PROVE  LimitInv'
  <2> DEFINE w == Owner(c.token)
  <2>1. /\ UNCHANGED overlaps /\ w \in Users /\ entries' = [entries EXCEPT ![w] = @ + 1]
        /\ entries \in [Users -> Nat] /\ overlaps \in [Users -> Nat]
        /\ c.kind = "submit" /\ c.step = "counted"
        /\ \A s \in Tabs : \A e \in calls'[s] :
              e.kind = "submit" /\ e.step = "counted" => e \in calls[s] /\ (s = t => e # c)
    BY <1>4 DEF Inserts, Inv, TypeInv, TablesTyped
  <2>2. <<t, c>> \in Counted(w)
    BY <2>1, CallsType DEF Inv, Counted
  <2> HIDE DEF w
  <2>3. ASSUME NEW u \in Users, NEW x \in Counted(u)'
        PROVE  x \in Counted(u) /\ x # <<t, c>>
    <3>1. /\ x \in Tabs \X AllCalls /\ x[2] \in calls'[x[1]] /\ x[2].kind = "submit"
          /\ x[2].step = "counted" /\ Owner(x[2].token)' = u
      BY <2>3 DEF Counted
    <3>2. x[2] \in calls[x[1]] /\ x # <<t, c>>
      BY <2>1, <3>1
    <3>3. Owner(x[2].token) = u
      BY <1>1, <3>1, <3>2, CallsType, OwnerKept DEF Inv, StepKept
    <3>4. QED BY <3>1, <3>2, <3>3 DEF Counted
  <2>4. ASSUME NEW u \in Users
        PROVE  /\ IsFiniteSet(Counted(u)')
               /\ entries'[u] + Cardinality(Counted(u)') <= WeeklyLimit + overlaps'[u]
    <3>1. CASE u # w
      <4>1. Counted(u)' \subseteq Counted(u) /\ entries'[u] = entries[u]
            /\ overlaps'[u] = overlaps[u] /\ overlaps[u] <= overlaps'[u]
        BY <2>1, <2>3, <3>1
      <4>2. QED BY <1>1, <4>1, FewerCounted DEF StepKept
    <3>2. CASE u = w
      <4>1. /\ IsFiniteSet(Counted(u))
            /\ entries[u] + Cardinality(Counted(u)) <= WeeklyLimit + overlaps[u]
        BY DEF LimitInv
      <4>2. Counted(u)' \subseteq Counted(u) \ {<<t, c>>}
        BY <2>3
      <4>3. /\ IsFiniteSet(Counted(u) \ {<<t, c>>})
            /\ Cardinality(Counted(u) \ {<<t, c>>}) = Cardinality(Counted(u)) - 1
            /\ Cardinality(Counted(u)) \in Nat
        BY <2>2, <3>2, <4>1, FS_RemoveElement, FS_CardinalityType
      <4>4. /\ IsFiniteSet(Counted(u)') /\ Cardinality(Counted(u)') \in Nat
            /\ Cardinality(Counted(u)') <= Cardinality(Counted(u)) - 1
        BY <4>2, <4>3, FS_Subset, FS_CardinalityType
      <4>5. entries'[u] = entries[u] + 1 /\ entries[u] \in Nat /\ overlaps'[u] = overlaps[u]
            /\ overlaps[u] \in Nat
        BY <2>1, <3>2
      <4>6. QED BY <4>1, <4>3, <4>4, <4>5
    <3>3. QED BY <3>1, <3>2
  <2>5. QED BY <2>4 DEF LimitInv
<1>5. QED BY <1>1, <1>2, <1>3, <1>4 DEF StepKept

\* Nobody has more entries than the limit and the submissions that were counted while
\* another was (FeedbackLimit): of two at once, one may be too many, but none is
\* counted twice, and none is inserted that was not counted.
THEOREM NoneBeyondTheLimit == Spec => []FeedbackLimit
<1>1. Init => LimitInv
  <2>1. ASSUME Init, NEW u \in Users PROVE Counted(u) = {} /\ entries[u] = 0 /\ overlaps[u] = 0
    BY <2>1 DEF Init, SessionInit, Counted
  <2>2. ASSUME Init, NEW u \in Users
        PROVE  IsFiniteSet(Counted(u)) /\ entries[u] + Cardinality(Counted(u)) <= WeeklyLimit + overlaps[u]
    <3>1. Counted(u) = {} /\ entries[u] = 0 /\ overlaps[u] = 0
      BY <2>1, <2>2
    <3>2. IsFiniteSet(Counted(u)) /\ Cardinality(Counted(u)) = 0
      BY <3>1, FS_EmptySet
    <3>3. QED BY <3>1, <3>2
  <2>3. QED BY <2>2 DEF LimitInv
<1>2. Inv /\ LimitInv /\ [Next]_vars => LimitInv'
  <2>1. ASSUME LimitInv, UNCHANGED vars PROVE LimitInv'
    <3>1. UNCHANGED <<owner, calls, entries, overlaps>>
      BY <2>1 DEF vars, session, tokens, feedback
    <3>2. \A u \in Users : Counted(u)' = Counted(u)
      BY <3>1 DEF Counted, Owner
    <3>3. QED BY <2>1, <3>1, <3>2 DEF LimitInv
  <2>2. QED BY <2>1, LimitNext
<1>3. ASSUME Inv, LimitInv PROVE FeedbackLimit
  <2>1. ASSUME NEW u \in Users PROVE entries[u] <= WeeklyLimit + overlaps[u]
    <3>1. /\ IsFiniteSet(Counted(u))
          /\ entries[u] + Cardinality(Counted(u)) <= WeeklyLimit + overlaps[u]
          /\ entries[u] \in Nat /\ overlaps[u] \in Nat
      BY <1>3 DEF LimitInv, Inv, TypeInv, TablesTyped
    <3>2. Cardinality(Counted(u)) \in Nat
      BY <3>1, FS_CardinalityType
    <3>3. QED BY <3>1, <3>2
  <2>2. QED BY <2>1 DEF FeedbackLimit
<1>4. QED BY <1>1, <1>2, <1>3, AlwaysInv, PTL DEF Spec

-----------------------------------------------------------------------------
\* The tables

\* The answer to the newest request shows what is chosen (TableIsChosen), for any
\* number of requests on their way, whichever is answered first.
THEOREM ShowsWhatIsChosen == Spec => []TableIsChosen
<1>1. ASSUME Inv PROVE TableIsChosen
  <2>1. SUFFICES ASSUME NEW t \in Tabs, IsOpen(t), page[t].shown # None, page[t].holds = page[t].asks
                 PROVE  /\ ~page[t].behind => page[t].shown.key = page[t].choice
                        /\ page[t].shown.version >= page[t].saved
                        /\ Clean(t) =>
                             /\ page[t].shown.of = Shows(t)
                             /\ page[t].table = "myfeedback" /\ ~page[t].early =>
                                  /\ page[t].added \cap 1 .. page[t].shown.version = {}
                                  /\ page[t].reported \subseteq page[t].added \cup 1 .. page[t].shown.version
    BY DEF TableIsChosen, Clean
  <2>2. TableInv(t) /\ EntriesInv(t) /\ page[t] \in Pages
    BY <1>1, <2>1, OpenType DEF Inv, RequestInv, RequestsInv
  <2>3. ShownInv(t)
    BY <2>1, <2>2 DEF TableInv
  <2>4. ASSUME Clean(t), page[t].table = "myfeedback", ~page[t].early
        PROVE  /\ page[t].added \cap 1 .. page[t].shown.version = {}
               /\ page[t].reported \subseteq page[t].added \cup 1 .. page[t].shown.version
    <3>1. RowsInv(t)
      BY <2>1, <2>2, <2>4 DEF EntriesInv
    <3>2. page[t].reported \subseteq page[t].added /\ \A n \in page[t].added : n > page[t].shown.version
      BY <2>1, <2>4, <3>1 DEF RowsInv
    <3>3. page[t].shown.version \in Nat /\ page[t].added \subseteq Nat
      BY <2>1, <2>2 DEF Pages, Rows
    <3>4. QED BY <3>2, <3>3
  <2>5. QED BY <2>1, <2>3, <2>4 DEF ShownInv
<1>2. QED BY <1>1, AlwaysInv, PTL
=============================================================================
