------------------------------- MODULE Access -------------------------------
(***************************************************************************)
(* Who is served, and as whom: the staff's accounts and tokens             *)
(* (pkg/controllers/auth, pkg/repository/users), the guards                *)
(* (pkg/middleware), the order in which the application mounts guards and  *)
(* routes (pkg/app, pkg/routes), and the log of activities.                *)
(*                                                                         *)
(* A guard covers the routes below its path that are registered after it.  *)
(* A request passes its guards one after the other, each with a query of   *)
(* its own: an account may change, or go, between two of them.             *)
(*                                                                         *)
(* Abstractions.  A token is what it decrypts to; none is forged.  A       *)
(* route is the area of the application it belongs to.  Passwords are left *)
(* out: logging in is for whoever has the account.  The accounts of the    *)
(* store are those of Accounts; here they are ids.  Accounts are changed   *)
(* and deleted by the repository alone, for which there is no endpoint.    *)
(***************************************************************************)
EXTENDS Handlers, Sequences

CONSTANTS
    Staff, Visitor,     \* names of staff accounts, ids of accounts of the store
    Role, Capable,      \* roles; those that grant the handoff capabilities
    Desk,               \* branches
    AccessLife, RefreshLife, StoreLife, \* how long tokens are good for
    MaxClock            \* bound: the clock

ASSUME AccessAssumption ==
    /\ Capable \subseteq Role /\ MaxClock \in Nat
    /\ AccessLife \in Nat /\ RefreshLife \in Nat /\ StoreLife \in Nat

VARIABLES
    staff,      \* users, with role and branch
    visitor,    \* store_customers: those there are
    token,      \* the tokens in circulation
    clock,
    visit,      \* requests in flight
    activity,   \* activities, of which only the newest: whose, and where
    signedIn,   \* history: when each account last got tokens
    altered     \* history: staff whose account changed or went

accessVars == <<staff, visitor, token, clock, visit, activity, signedIn, altered>>

NoStaff == [state |-> "none"]
Employed(u) == staff[u].state = "there"
Never == -1
Nothing == [who |-> {}, area |-> "auth"]

-----------------------------------------------------------------------------
(* SetupRoutes.                                                            *)

Route(area, guard) == [kind |-> "route", of |-> area, guard |-> guard]
Mount(path, guard) == [kind |-> "mount", of |-> path, guard |-> guard]

\* What is registered, in its order.
Registered ==
    << Route("auth", "none"),
       Route("store_public", "none"), Route("handoff", "session"),
       Mount("api_v1_store", "customer"), Route("store", "none"),
       Mount("api", "staff"), Route("admin", "none"),
       Route("dashboard", "basic"), Route("proxy", "staff"),
       Route("seller", "capability") >>

Area == {"auth", "store_public", "handoff", "store", "admin", "dashboard", "proxy",
         "seller"}

\* The mounted paths that an area lies below.
Above(area) ==
    CASE area \in {"store_public", "store"} -> {"api_v1_store", "api"}
      [] area \in {"auth", "handoff", "admin", "seller"} -> {"api"}
      [] OTHER -> {}

IsRoute(i, area) == Registered[i].kind = "route" /\ Registered[i].of = area

\* The guards that a request to an area meets, by their places: those mounted above
\* it before it is registered, and its own.
Guards ==
    [area \in Area |->
        { i \in DOMAIN Registered :
            /\ Registered[i].guard # "none"
            /\ \/ IsRoute(i, area)
               \/ /\ Registered[i].kind = "mount" /\ Registered[i].of \in Above(area)
                  /\ \E k \in DOMAIN Registered : i < k /\ IsRoute(k, area) }]

-----------------------------------------------------------------------------

AccessInit ==
    /\ staff = [u \in Staff |-> NoStaff]
    /\ visitor = {}
    /\ token = {}
    /\ clock = 0
    /\ visit = [r \in Request |-> Idle]
    /\ activity = Nothing
    /\ signedIn = [x \in Staff \cup Visitor |-> Never]
    /\ altered = {}

\* Time passes; a token that is out of date is as good as none.
Tick ==
    /\ clock < MaxClock
    /\ clock' = clock + 1
    /\ token' = { t \in token : t.until > clock }
    /\ UNCHANGED <<staff, visitor, visit, activity, signedIn, altered>>

\* Register: names are unique; the role and the branch are those of the body.
\* It is logged first, for nobody.
RegisterStaff(u, role, desk) ==
    /\ activity' = Nothing
    /\ staff' = IF staff[u] = NoStaff
                THEN [staff EXCEPT ![u] = [state |-> "there", role |-> role, desk |-> desk]]
                ELSE staff
    /\ UNCHANGED <<visitor, token, clock, visit, signedIn, altered>>

\* AdminUserRepository's Update and Delete.
UpdateStaff(u, role, desk) ==
    /\ Employed(u)
    /\ staff' = [staff EXCEPT ![u].role = role, ![u].desk = desk]
    /\ altered' = altered \cup {u}
    /\ UNCHANGED <<visitor, token, clock, visit, activity, signedIn>>

DeleteStaff(u) ==
    /\ Employed(u)
    /\ staff' = [staff EXCEPT ![u] = [state |-> "gone"]]
    /\ altered' = altered \cup {u}
    /\ UNCHANGED <<visitor, token, clock, visit, activity, signedIn>>

Token(type, x, life) == [type |-> type, subject |-> x, until |-> clock + life]

\* createTokenPair.
Pair(u) == { Token("access", u, AccessLife), Token("refresh", u, RefreshLife) }

Issue(x, tokens) ==
    /\ token' = token \cup tokens
    /\ signedIn' = [signedIn EXCEPT ![x] = clock]
    /\ UNCHANGED <<staff, clock, visit, activity, altered>>

LoginStaff(u) ==
    /\ Employed(u)
    /\ Issue(u, Pair(u))
    /\ UNCHANGED visitor

\* parseRefreshToken.
Refreshes(t) == clock <= t.until /\ t.type = "refresh"

\* A pair for a pair; the old tokens stay good.
RefreshTokens(t) ==
    /\ t \in token /\ t.subject \in Staff
    /\ Refreshes(t)
    /\ Employed(t.subject)
    /\ Issue(t.subject, Pair(t.subject))
    /\ UNCHANGED visitor

\* The store's Register and Login: issueToken.
JoinStore(c) ==
    /\ visitor' = visitor \cup {c}
    /\ Issue(c, {Token("store", c, StoreLife)})

\* A request arrives with a token.
Arrive(r, area, t) ==
    /\ visit[r] = Idle
    /\ t \in token
    /\ visit' = [visit EXCEPT ![r] =
                   [stage |-> "guarded", area |-> area, token |-> t, met |-> {},
                    user |-> {}, seat |-> {}]]
    /\ UNCHANGED <<staff, visitor, token, clock, activity, signedIn, altered>>

\* AuthMiddleware (mutant: without the test of the token's type) and
\* CustomerAuthMiddleware, behind the decryption and the expiry.
StaffPassesAny(t) == t.subject \in Staff /\ Employed(t.subject)
StaffPasses(t) == t.type = "access" /\ t.subject \in Staff /\ Employed(t.subject)
CustomerPasses(t) == t.type = "store" /\ t.subject \in visitor

\* RequireCapability: the account as it is now.
CapabilityPasses(u) == Employed(u) /\ staff[u].role \in Capable

\* The next guard of a request lets it pass, with what it leaves for the handler.
\* Basic authentication and a session's token are other keys than these.
IsNext(i, v) == i \in Guards[v.area] \ v.met /\ \A k \in Guards[v.area] \ v.met : i <= k
Passed(r, i) == [visit[r] EXCEPT !.met = @ \cup {i}]
PassGuard(r) ==
    /\ visit[r] # Idle
    /\ \E i \in DOMAIN Registered :
          LET v == visit[r] g == Registered[i].guard IN
          /\ IsNext(i, v)
          /\ \/ /\ g = "staff" /\ clock <= v.token.until /\ StaffPasses(v.token)
                /\ visit' = [visit EXCEPT ![r] = [Passed(r, i) EXCEPT !.user = {v.token.subject}]]
             \/ /\ g = "customer" /\ clock <= v.token.until /\ CustomerPasses(v.token)
                /\ visit' = [visit EXCEPT ![r] = Passed(r, i)]
             \/ /\ g = "capability"
                /\ \E u \in v.user : CapabilityPasses(u)
                      /\ visit' = [visit EXCEPT ![r] = [Passed(r, i) EXCEPT !.seat = {staff[u]}]]
             \/ /\ g \in {"basic", "session"}
                /\ visit' = [visit EXCEPT ![r] = Passed(r, i)]
    /\ UNCHANGED <<staff, visitor, token, clock, activity, signedIn, altered>>

Served(r) == visit[r] # Idle /\ Guards[visit[r].area] \subseteq visit[r].met

\* The handler ends, with an activity, if it logs one and the log can be written,
\* of the user that the guard has left.
Answer(r) ==
    /\ Served(r)
    /\ \/ activity' = [who |-> visit[r].user, area |-> visit[r].area]
       \/ UNCHANGED activity
    /\ visit' = Answered(visit, r)
    /\ UNCHANGED <<staff, visitor, token, clock, signedIn, altered>>

\* 401, 403.
TurnAway(r) ==
    /\ visit[r] # Idle /\ ~ Served(r)
    /\ visit' = Answered(visit, r)
    /\ UNCHANGED <<staff, visitor, token, clock, activity, signedIn, altered>>

AccessNext ==
    \/ Tick
    \/ \E u \in Staff : LoginStaff(u) \/ DeleteStaff(u)
    \/ \E u \in Staff, role \in Role, desk \in Desk :
          RegisterStaff(u, role, desk) \/ UpdateStaff(u, role, desk)
    \/ \E t \in token : RefreshTokens(t)
    \/ \E c \in Visitor : JoinStore(c)
    \/ \E r \in Request, area \in Area, t \in token : Arrive(r, area, t)
    \/ \E r \in Request : PassGuard(r) \/ Answer(r) \/ TurnAway(r)

AccessSpec == AccessInit /\ [][AccessNext]_accessVars

-----------------------------------------------------------------------------

\* Staff are served as themselves: whoever reaches the back office, or the proxy,
\* was let in as a member of the staff who had logged in or refreshed within the
\* life of an access token -- a refresh token and a token of the store open no
\* door of theirs --, a seller has a role that may sell and the branch of the
\* account, unless the account changed meanwhile; the store's own pages are
\* reached with a token of the store; and what is open to all, logging in and
\* refreshing above all, can be reached without any.
ServedAsThemselves ==
    /\ Guards["auth"] = {} /\ Guards["store_public"] = {}
    /\ \A r \in Request : Served(r) =>
          LET v == visit[r] IN
          /\ v.area \in {"admin", "proxy", "seller"} =>
                \E u \in v.user : /\ signedIn[u] >= 0
                                  /\ v.token.subject = u
                                  /\ v.token.until - AccessLife <= signedIn[u]
          /\ v.area = "seller" =>
                \E s \in v.seat : /\ s.role \in Capable
                                  /\ v.user \cap altered = {} => v.user # {} /\ \A u \in v.user : s = staff[u]
          /\ v.area = "store" => v.token.subject \in visitor /\ v.user = {}
    /\ activity.area \in {"admin", "proxy", "seller"} => activity.who # {}
=============================================================================
