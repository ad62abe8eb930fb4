------------------------------ MODULE Session ------------------------------
(***************************************************************************)
(* Who is signed in.  The tabs of a browser share the token of its local   *)
(* storage, which every request takes from there when it is sent; each tab *)
(* keeps the token and the user it shows in its own state.  Answers come   *)
(* in any order.  An answer 401 to anything but a login removes the token  *)
(* from the storage, whichever is there by now, and loads the login page.  *)
(*                                                                         *)
(* A token is its number in the order of issue.  Registering is signing in *)
(* with a user nobody has yet.                                             *)
(***************************************************************************)
EXTENDS Integers, Sequences

CONSTANTS
    Users,
    Tabs,
    None,
    MaxSteps        \* bound: what users do, failures and expiries together

ASSUME SessionAssumption == None \notin Users /\ MaxSteps \in Nat

VARIABLES
    owner,      \* tokens issued: number -> user
    expired,    \* those that have expired
    stored,     \* the token in the local storage: its number, or 0
    auth,       \* tab -> [token, user, loading], the state of useAuth
    at,         \* tab -> the login page, or a page of the layout
    form,       \* tab -> the user being signed in there, or None
    calls,      \* tab -> requests that wait for their answer
    foreign,    \* history: tabs since whose last load or sign-in another wrote the storage
    crossed,    \* history: tabs that were still asking, or answered, by an earlier token then
    steps

tokens   == <<owner, expired, stored>>
browser  == <<auth, at, form>>
past     == <<foreign, crossed>>
session  == <<tokens, browser, past>>

Step     == steps < MaxSteps /\ steps' = steps + 1
Tokens   == 1 .. Len(owner)
Owner(k) == IF k = 0 THEN None ELSE owner[k]
Valid(k) == k \in Tokens \ expired
SignedOut == [token |-> 0, user |-> None, loading |-> FALSE]

\* token: of the request's header; issued: the token that the login has returned.
Call(kind, k) == [kind |-> kind, token |-> k, issued |-> 0, step |-> "sent"]

Shows(t) == auth[t].user
\* What a tab shows when it is not loading.
Screen(t) == IF at[t] = "login" \/ auth[t].token = 0 THEN "login" ELSE "app"

SessionTypeOK ==
    /\ owner \in Seq(Users) /\ expired \subseteq Tokens /\ stored \in 0 .. Len(owner)
    /\ \A t \in Tabs :
          /\ auth[t] \in [token : 0 .. Len(owner), user : Users \cup {None}, loading : BOOLEAN]
          /\ at[t] \in {"login", "app"} /\ form[t] \in Users \cup {None}
          /\ \A c \in calls[t] : c.token \in 0 .. Len(owner)
    /\ foreign \subseteq Tabs /\ crossed \subseteq Tabs /\ steps \in 0 .. MaxSteps

\* A tab is loaded: its state is read from the storage, and its user asked for.
Load(t, where, k) ==
    /\ auth' = [auth EXCEPT ![t] = [token |-> k, user |-> None, loading |-> k # 0]]
    /\ at' = [at EXCEPT ![t] = where]
    /\ form' = [form EXCEPT ![t] = None]
    /\ calls' = [calls EXCEPT ![t] = IF k = 0 THEN {} ELSE {Call("first", k)}]
    /\ crossed' = crossed \ {t}

\* Another tab's state does not follow the storage.
Store(t, k) ==
    /\ stored' = k
    /\ foreign' = (foreign \ {t}) \cup (Tabs \ {t})

SessionInit ==
    /\ owner = << >> /\ expired = {} /\ stored = 0
    /\ auth = [t \in Tabs |-> SignedOut]
    /\ at = [t \in Tabs |-> "login"]
    /\ form = [t \in Tabs |-> None]
    /\ calls = [t \in Tabs |-> {}]
    /\ foreign = {} /\ crossed = {}
    /\ steps = 0

-----------------------------------------------------------------------------
\* What users do, and time

\* Any page by its address, the login page included.
Visit(t, where) ==
    /\ Step
    /\ Load(t, where, stored)
    /\ foreign' = foreign \ {t}
    /\ UNCHANGED tokens

SignIn(t, u) ==
    /\ Screen(t) = "login" /\ form[t] = None
    /\ Step
    /\ form' = [form EXCEPT ![t] = u]
    /\ calls' = [calls EXCEPT ![t] = @ \cup {Call("login", 0)}]
    /\ UNCHANGED <<tokens, auth, at, past>>

Logout(t) ==
    /\ Screen(t) = "app" /\ ~auth[t].loading
    /\ Step
    /\ Store(t, 0)
    /\ auth' = [auth EXCEPT ![t] = SignedOut]
    /\ at' = [at EXCEPT ![t] = "login"]
    /\ UNCHANGED <<owner, expired, form, calls, crossed>>

\* refreshUser, after a bet or a change of the profile.
RefreshUser(t) ==
    /\ Screen(t) = "app" /\ ~auth[t].loading
    /\ Step
    /\ calls' = [calls EXCEPT ![t] = @ \cup {Call("refresh", stored)}]
    /\ UNCHANGED session

Expire(k) ==
    /\ Valid(k)
    /\ Step
    /\ expired' = expired \cup {k}
    /\ UNCHANGED <<owner, stored, browser, calls, past>>

-----------------------------------------------------------------------------
\* Answers

Follow(t, c, more) == calls' = [calls EXCEPT ![t] = (@ \ {c}) \cup more]
Answered(t, c) == Follow(t, c, {})

\* A token is stored, and the user asked for with the one that is stored.
StoreAndAsk(t, c, k) ==
    /\ owner' = Append(owner, form[t])
    /\ Store(t, k)
    /\ calls' = [calls EXCEPT ![t] = (@ \ {c}) \cup
                   {[Call("me", k) EXCEPT !.issued = Len(owner')]}]

\* Variant that does not replace a token that is there.
StoreFirst(t, c) == StoreAndAsk(t, c, IF stored = 0 THEN Len(owner) + 1 ELSE stored)

StoreToken(t, c) == StoreAndAsk(t, c, Len(owner) + 1)

LoggedIn(t, c) ==
    /\ c.kind = "login"
    /\ StoreToken(t, c)
    /\ crossed' = IF calls[t] = {c} THEN crossed \ {t} ELSE crossed \cup {t}
    /\ UNCHANGED <<expired, browser, steps>>

\* Variant without the exemption of the login's own 401 from the interceptor.
LoginThrowsOut(t, c) ==
    /\ c.kind = "login"
    /\ Step
    /\ Load(t, "login", 0)
    /\ Store(t, 0)
    /\ UNCHANGED <<owner, expired>>

\* Wrong password, taken name, or no answer: a message, and the form is free again.
LoginFails(t, c) ==
    /\ c.kind = "login"
    /\ Step
    /\ form' = [form EXCEPT ![t] = None]
    /\ Answered(t, c)
    /\ UNCHANGED <<tokens, auth, at, past>>

\* The user of the new token: the tab is signed in.
MeAnswered(t, c) ==
    /\ c.kind = "me" /\ Valid(c.token)
    /\ auth' = [auth EXCEPT ![t] = [token |-> c.issued, user |-> Owner(c.token), loading |-> FALSE]]
    /\ at' = [at EXCEPT ![t] = "app"]
    /\ form' = [form EXCEPT ![t] = None]
    /\ Answered(t, c)
    /\ UNCHANGED <<tokens, past, steps>>

\* The user of a loaded tab, or of a refresh: only the user is replaced; more are
\* the requests of the pages whose effects depend on the user.
UserAnswered(t, c, more) ==
    /\ c.kind \in {"first", "refresh"} /\ Valid(c.token)
    /\ auth' = [auth EXCEPT ![t].user = Owner(c.token),
                            ![t].loading = IF c.kind = "first" THEN FALSE ELSE @]
    /\ Follow(t, c, more)
    /\ crossed' = IF c.token = auth[t].token THEN crossed ELSE crossed \cup {t}
    /\ UNCHANGED <<tokens, at, form, foreign, steps>>

\* 401: the storage is cleared, and the login page loaded.
Unauthorized(t, c) ==
    /\ c.kind # "login" /\ c.step = "sent" /\ ~Valid(c.token)
    /\ Load(t, "login", 0)
    /\ Store(t, 0)
    /\ UNCHANGED <<owner, expired, steps>>

\* Any other failure of a request for the user.  Of a loaded tab's: it is signed out.
FirstFails(t, c) ==
    /\ Step
    /\ c.kind = "first"
    /\ Store(t, 0)
    /\ auth' = [auth EXCEPT ![t] = SignedOut]
    /\ Answered(t, c)
    /\ UNCHANGED <<owner, expired, at, form, crossed>>

\* Of a sign-in: a message; the storage keeps the token.  Of a refresh: nothing.
MeFails(t, c) ==
    /\ Step
    /\ c.kind \in {"me", "refresh"}
    /\ form' = IF c.kind = "me" THEN [form EXCEPT ![t] = None] ELSE form
    /\ Answered(t, c)
    /\ UNCHANGED <<tokens, auth, at, past>>

-----------------------------------------------------------------------------
Answer(t, c) ==
    \/ LoggedIn(t, c) \/ LoginFails(t, c) \/ MeAnswered(t, c)
    \/ Unauthorized(t, c) \/ FirstFails(t, c) \/ MeFails(t, c)

Act(t) ==
    \/ \E where \in {"login", "app"} : Visit(t, where)
    \/ \E u \in Users : SignIn(t, u)
    \/ Logout(t) \/ RefreshUser(t)

-----------------------------------------------------------------------------
\* Properties

\* What a tab does is done by the user it shows, for it sends the token of that
\* user; unless another tab has written the storage, or an answer or a call of an
\* earlier token was still on its way, since it was loaded or signed in.
ActsAsShown ==
    \A t \in Tabs \ (foreign \cup crossed) : Screen(t) = "app" /\ ~auth[t].loading =>
        /\ Shows(t) = Owner(auth[t].token)
        /\ stored = auth[t].token
=============================================================================
