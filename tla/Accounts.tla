------------------------------ MODULE Accounts ------------------------------
(* Accounts, sessions and e-mailed links (app/auth, app/main.py, app/web.py)
   and the clubs they belong to (app/platform, app/limits, the user and team
   forms of app/admin_routes.py).  A session is a signed cookie that carries
   the account's auth_version; every event that must end the sessions of an
   account increments that column.  Most requests read the account's row first
   and write it after hashing a password or after a database lock: the row is
   not locked, the session's copy is never refreshed, and only the columns a
   request changes are written. *)
EXTENDS Naturals, Sequences, SequencesExt, FiniteSets, TLC

CONSTANTS
    Users, Clubs, Addresses, Browsers,
    Owner, Club1, Address1,     \* the account, club and address there are at first
    LockAfter,                  \* wrong passwords that lock an account (5 in the code)
    MaxLimit,                   \* the highest team limit of a club
    MaxLinks,                   \* bound: links of each kind that are mailed
    MaxEvents,                  \* bound: events that end sessions, role and club changes
    Perils                      \* further requests that others overtake; "login", "club": see below

Requests == {"password", "reset", "email", "forgot", "team"}

ASSUME AccountsAssumption ==
    /\ Owner \in Users /\ Club1 \in Clubs /\ Address1 \in Addresses
    /\ "none" \notin Clubs \cup Addresses
    /\ LockAfter \in Nat \ {0} /\ {MaxLimit, MaxLinks, MaxEvents} \subseteq Nat
    /\ Perils \subseteq Requests \cup {"login", "club"}

VARIABLES
    user,       \* the rows of users
    club,       \* the rows of clubs, with the number of active teams
    cookie,     \* each browser's session: a sequence of at most one
    request,    \* each browser's request under way: a sequence of at most one
    resets,     \* password_reset_tokens
    changes,    \* email_change_tokens
    era,        \* ghost: how many events had to end an account's sessions
    events      \* bound

vars == <<user, club, cookie, request, resets, changes, era, events>>

NoUser == [club |-> "none", admin |-> FALSE, auth |-> 0, email |-> "none", failed |-> 0, locked |-> "never"]
NewUser(c, isAdmin, a) ==
    [club |-> c, admin |-> isAdmin, auth |-> 1, email |-> a, failed |-> 0, locked |-> "never"]
NoClub == [status |-> "none", limit |-> 0, teams |-> 0]
Open(c) == c.status = "active"

Taken(a) == \E u \in Users : user[u].email = a
Members(c) == {u \in Users : user[u].club = c}
Admins(c) == {u \in Members(c) : user[u].admin}

(* optional_current_user: the cookie's copy of auth_version and club must be
   the row's. *)
Session(b) == cookie[b][1]
Valid(b) ==
    /\ cookie[b] # <<>>
    /\ user[Session(b).user].auth = Session(b).auth
    /\ user[Session(b).user].club = Session(b).club
Me(b) == Session(b).user
Manages(b) == Valid(b) /\ user[Me(b)].admin /\ Open(club[user[Me(b)].club])

-----------------------------------------------------------------------------
(* A request that takes a while goes on with the rows it read when it began.
   The others are taken as one step. *)
Slow == {"password", "reset", "team"} \cup (Perils \cap Requests)

Bound(l, row) == row.email = changes[l].old /\ row.auth = changes[l].auth

Served(b, kind, u, l) ==
    LET link(links) == l \in DOMAIN links /\ links[l].user = u /\ ~links[l].used IN
    CASE kind = "reset" -> link(resets)
      [] kind = "email" -> link(changes) /\ Bound(l, user[u])
      [] kind = "forgot" -> l = 0 /\ user[u].club # "none"
      [] kind = "password" -> l = 0 /\ Valid(b) /\ u = Me(b)
      [] kind = "team" -> l = 0 /\ Manages(b) /\ u = Me(b)

Read(kind, u, l) ==
    [kind |-> kind, user |-> u, link |-> l,
     row |-> IF kind = "team" THEN NoUser ELSE user[u],
     at |-> IF kind = "team" THEN user[u].club ELSE "none",
     copy |-> IF kind = "team" THEN club[user[u].club] ELSE NoClub]

Possible(b, kind) ==
    {Read(kind, x[1], x[2]) : x \in {y \in Users \X (0..MaxLinks) : Served(b, kind, y[1], y[2])}}

RequestBegins(b) ==
    /\ request[b] = <<>>
    /\ \E r \in UNION {Possible(b, kind) : kind \in Slow} : request' = [request EXCEPT ![b] = <<r>>]
    /\ UNCHANGED <<user, club, cookie, resets, changes, era, events>>

InHand(b, kind) ==
    IF kind \in Slow THEN {r \in Range(request[b]) : r.kind = kind}
    ELSE IF request[b] = <<>> THEN Possible(b, kind) ELSE {}
Ends(b) == request' = [request EXCEPT ![b] = <<>>]

Counted == events < MaxEvents /\ events' = events + 1
Retired(links, u) == [l \in DOMAIN links |->
    IF links[l].user = u THEN [links[l] EXCEPT !.used = TRUE] ELSE links[l]]

(* The columns a successful password change writes: counters and locks only if
   the copy had to be changed. *)
WithPassword(u, row) ==
    [user[u] EXCEPT !.auth = row.auth + 1,
                    !.failed = IF row.failed = 0 THEN @ ELSE 0,
                    !.locked = IF row.locked = "never" THEN @ ELSE "never"]

-----------------------------------------------------------------------------
(* authenticate and login, in one step.  Counting on beyond LockAfter makes no
   difference; a login waits for the account's requests unless it is in Perils. *)
Alone(u) == "login" \in Perils \/ \A b \in Browsers : \A r \in Range(request[b]) : r.user # u

\* mutant
CountsOn(u) == [user[u] EXCEPT !.failed = @ + 1,
                              !.locked = IF user[u].failed + 1 > LockAfter THEN "locked" ELSE @]
WrongPassword(u) ==
    LET n == user[u].failed IN
    [user[u] EXCEPT !.failed = IF n < LockAfter THEN n + 1 ELSE LockAfter,
                    !.locked = IF n + 1 >= LockAfter THEN "locked" ELSE @]

authenticate(b, u) ==
    /\ user[u].club # "none" /\ user[u].locked # "locked" /\ request[b] = <<>> /\ Alone(u)
    /\ \/ /\ user' = [user EXCEPT ![u] = WrongPassword(u)]
          /\ Counted /\ UNCHANGED cookie
       \/ /\ user' = [user EXCEPT ![u].failed = 0, ![u].locked = "never"]
          /\ cookie' = [cookie EXCEPT ![b] =
                <<[user |-> u, auth |-> user[u].auth, club |-> user[u].club, era |-> era[u]]>>]
          /\ UNCHANGED events
    /\ UNCHANGED <<club, request, resets, changes, era>>

LockExpires(u) ==
    /\ user[u].locked = "locked"
    /\ user' = [user EXCEPT ![u].locked = "past"]
    /\ UNCHANGED <<club, cookie, request, resets, changes, era, events>>

(* logout, or a request with a session that is no longer valid. *)
SessionCleared(b) ==
    /\ cookie[b] # <<>> /\ request[b] = <<>>
    /\ cookie' = [cookie EXCEPT ![b] = <<>>]
    /\ UNCHANGED <<user, club, request, resets, changes, era, events>>

-----------------------------------------------------------------------------
(* change_password. *)
SessionsOver(us) == era' = [u \in Users |-> IF u \in us THEN era[u] + 1 ELSE era[u]]
PasswordSet(b, r) ==
    /\ user' = [user EXCEPT ![r.user] = WithPassword(r.user, r.row)]
    /\ cookie' = [cookie EXCEPT ![b] = <<>>]
    /\ SessionsOver({r.user})

change_password(b) ==
    /\ \E r \in InHand(b, "password") : PasswordSet(b, r)
    /\ Ends(b) /\ Counted
    /\ UNCHANGED <<club, resets, changes>>

(* request_password_reset: earlier links of the account are retired; a link
   whose mail cannot be sent is retired as well. *)
request_password_reset(b, delivered) ==
    /\ Len(resets) < MaxLinks /\ Ends(b)
    /\ \E r \in InHand(b, "forgot") :
        resets' = Append(Retired(resets, r.user),
            [user |-> r.user, to |-> r.row.email, used |-> ~delivered, uses |-> 0])
    /\ UNCHANGED <<user, club, cookie, changes, era, events>>

(* find_valid_reset_token, then complete_password_reset: the link is claimed by
   a conditional update. *)
\* mutant
FreshWhenOpened(l) == TRUE
Claimable(l) == ~resets[l].used
ResetClaims(l) == [Retired(resets, resets[l].user) EXCEPT ![l].uses = @ + 1]

complete_password_reset(b) ==
    /\ Ends(b)
    /\ \E r \in InHand(b, "reset") :
        \/ /\ Claimable(r.link) /\ Counted
           /\ resets' = ResetClaims(r.link)
           /\ PasswordSet(b, r)
        \/ /\ ~Claimable(r.link)
           /\ UNCHANGED <<user, cookie, resets, era, events>>
    /\ UNCHANGED <<club, changes>>

-----------------------------------------------------------------------------
(* request_email_change: the link goes to the address the account has, and
   carries that address and the account's auth_version. *)
request_email_change(b, a, delivered) ==
    /\ Valid(b) /\ request[b] = <<>> /\ ~Taken(a) /\ Len(changes) < MaxLinks
    /\ changes' = Append(Retired(changes, Me(b)),
            [user |-> Me(b), old |-> user[Me(b)].email, new |-> a, auth |-> user[Me(b)].auth,
             era |-> era[Me(b)], used |-> ~delivered])
    /\ UNCHANGED <<user, club, cookie, request, resets, era, events>>

\* mutant
LinksLeft(u) == resets
EmailResets(u) == Retired(resets, u)

complete_email_change(b) ==
    /\ Ends(b)
    /\ \E r \in InHand(b, "email") : LET link == changes[r.link] IN
        \/ /\ Bound(r.link, r.row) /\ ~Taken(link.new) /\ ~link.used /\ Counted
           /\ user' = [user EXCEPT ![r.user].email = link.new, ![r.user].auth = r.row.auth + 1]
           /\ changes' = Retired(changes, r.user)
           /\ resets' = EmailResets(r.user)
           /\ cookie' = [cookie EXCEPT ![b] = <<>>]
           /\ SessionsOver({r.user})
        \/ /\ Taken(link.new) \/ link.used
           /\ UNCHANGED <<user, cookie, resets, changes, era, events>>
    /\ UNCHANGED club

-----------------------------------------------------------------------------
(* The club's administration: create_user and assign_user_role. *)
create_user(b, u, isAdmin, a) ==
    /\ Manages(b) /\ request[b] = <<>> /\ user[u].club = "none" /\ ~Taken(a) /\ Counted
    /\ user' = [user EXCEPT ![u] = NewUser(user[Me(b)].club, isAdmin, a)]
    /\ UNCHANGED <<club, cookie, request, resets, changes, era>>

(* The last active administrator of a club is not demoted. *)
assign_user_role(b, u) ==
    /\ Manages(b) /\ request[b] = <<>> /\ u \in Members(user[Me(b)].club)
    /\ user[u].admin => Cardinality(Admins(user[u].club)) > 1
    /\ Counted
    /\ user' = [user EXCEPT ![u].admin = ~@]
    /\ UNCHANGED <<club, cookie, request, resets, changes, era>>

(* create_team and the reactivation of a team.  The club's row was read when
   the request was authenticated; assert_resource_capacity locks it and counts
   the teams, but goes on with the session's copy of the row. *)
\* mutant
CountsUnlocked(r) == Open(r.copy) /\ r.copy.teams + 1 <= r.copy.limit
Capacity(r) == Open(r.copy) /\ club[r.at].teams + 1 <= r.copy.limit

assert_resource_capacity(b) ==
    /\ \E r \in InHand(b, "team") :
        club' = IF Capacity(r) THEN [club EXCEPT ![r.at].teams = @ + 1] ELSE club
    /\ Ends(b)
    /\ UNCHANGED <<user, cookie, resets, changes, era, events>>

team_state(b) ==
    /\ Manages(b) /\ request[b] = <<>> /\ club[user[Me(b)].club].teams > 0
    /\ club' = [club EXCEPT ![user[Me(b)].club].teams = @ - 1]
    /\ UNCHANGED <<user, cookie, request, resets, changes, era, events>>

-----------------------------------------------------------------------------
(* The platform's administration.  Club rows are locked and re-read. *)
ClubQuiet(c) == "club" \in Perils \/
    \A b \in Browsers : \A r \in Range(request[b]) : r.at # c

create_club_with_admin(c, u, a, n) ==
    /\ club[c] = NoClub /\ user[u].club = "none" /\ ~Taken(a) /\ Counted
    /\ club' = [club EXCEPT ![c] = [status |-> "active", limit |-> n, teams |-> 0]]
    /\ user' = [user EXCEPT ![u] = NewUser(c, TRUE, a)]
    /\ UNCHANGED <<cookie, request, resets, changes, era>>

\* mutant
StaysIn(us) == user
Dismissed(us) == [u \in Users |-> IF u \in us THEN [user[u] EXCEPT !.auth = @ + 1] ELSE user[u]]

change_club_status(c) ==
    /\ club[c] # NoClub /\ ClubQuiet(c) /\ Counted
    /\ \/ /\ Open(club[c])
          /\ club' = [club EXCEPT ![c].status = "suspended"]
          /\ user' = Dismissed(Members(c)) /\ SessionsOver(Members(c))
       \/ /\ ~Open(club[c])
          /\ club' = [club EXCEPT ![c].status = "active"]
          /\ UNCHANGED <<user, era>>
    /\ UNCHANGED <<cookie, request, resets, changes>>

update_club_limits(c, n) ==
    /\ club[c] # NoClub /\ n # club[c].limit /\ ClubQuiet(c) /\ Counted
    /\ club' = [club EXCEPT ![c].limit = n]
    /\ UNCHANGED <<user, cookie, request, resets, changes, era>>

Moved(u, c) == [user[u] EXCEPT !.club = c, !.auth = @ + 1]

move_user_to_club(u, c) ==
    /\ user[u].club \notin {"none", c} /\ club[c] # NoClub /\ Counted
    /\ user' = [user EXCEPT ![u] = Moved(u, c)]
    /\ SessionsOver({u})
    /\ UNCHANGED <<club, cookie, request, resets, changes>>

-----------------------------------------------------------------------------
Init ==
    /\ user = [u \in Users |-> IF u = Owner THEN NewUser(Club1, TRUE, Address1) ELSE NoUser]
    /\ club = [c \in Clubs |-> IF c = Club1 THEN [status |-> "active", limit |-> MaxLimit, teams |-> 0]
                               ELSE NoClub]
    /\ cookie = [b \in Browsers |-> <<>>] /\ request = [b \in Browsers |-> <<>>]
    /\ resets = <<>> /\ changes = <<>>
    /\ era = [u \in Users |-> 0] /\ events = 0

Account(b) ==
    \/ \E u \in Users : authenticate(b, u)
    \/ SessionCleared(b) \/ RequestBegins(b) \/ change_password(b)
    \/ \E delivered \in BOOLEAN : request_password_reset(b, delivered)
    \/ complete_password_reset(b)
    \/ \E a \in Addresses, delivered \in BOOLEAN : request_email_change(b, a, delivered)
    \/ complete_email_change(b)

Administration(b) ==
    \/ \E u \in Users, isAdmin \in BOOLEAN, a \in Addresses : create_user(b, u, isAdmin, a)
    \/ \E u \in Users : assign_user_role(b, u)
    \/ assert_resource_capacity(b) \/ team_state(b)

Platform ==
    \/ \E c \in Clubs, u \in Users, a \in Addresses, n \in 0..MaxLimit : create_club_with_admin(c, u, a, n)
    \/ \E c \in Clubs : change_club_status(c) \/ \E n \in 0..MaxLimit : update_club_limits(c, n)
    \/ \E u \in Users, c \in Clubs : move_user_to_club(u, c)

Next ==
    \/ \E b \in Browsers : Account(b) \/ Administration(b)
    \/ \E u \in Users : LockExpires(u)
    \/ Platform

Spec == Init /\ [][Next]_vars

-----------------------------------------------------------------------------
(* The columns, sessions, requests and links have the values the code gives
   them. *)
(* Every account, club, link and browser has its type; addresses are unique. *)
TypeOK ==
    /\ user \in [Users -> [club : Clubs \cup {"none"}, admin : BOOLEAN, auth : Nat,
                           email : Addresses \cup {"none"}, failed : 0..LockAfter,
                           locked : {"never", "past", "locked"}]]
    /\ club \in [Clubs -> [status : {"none", "active", "suspended"}, limit : 0..MaxLimit, teams : Nat]]
    /\ \A b \in Browsers : Len(cookie[b]) <= 1 /\ Len(request[b]) <= 1
    /\ \A u, v \in Users : user[u].club # "none" /\ user[u].email = user[v].email => u = v

(* A session ends with every password change, reset, change of address, move
   and suspension that came after its login (auth_version in app/web.py), also
   when two such requests write the same number. *)
OldSessionsEnd == \A b \in Browsers : Valid(b) => Session(b).era = era[Me(b)]

(* A reset link that still works was sent to the address the account has now
   (complete_email_change retires the links sent to the old one). *)
ResetGoesHome == \A l \in DOMAIN resets :
    ~resets[l].used => resets[l].to = user[resets[l].user].email

(* A reset link that was used, replaced or retired sets no password any more,
   and no link sets two (the conditional update in complete_password_reset). *)
LinkWorksOnce ==
    [][\A l \in DOMAIN resets : resets'[l].uses > resets[l].uses => ~resets[l].used]_vars

(* An address changes only if nothing that ends the account's sessions has
   happened since the change was asked for (auth_version in the link). *)
ChangeKeepsItsBasis ==
    [][\A u \in Users : user[u].club # "none" /\ user'[u].email # user[u].email =>
        \E l \in DOMAIN changes : /\ changes[l].user = u /\ ~changes[l].used
                                  /\ changes[l].new = user'[u].email /\ changes[l].era = era[u]]_vars

(* A link works once, and only on the account it was written for. *)
LinksBind == LinkWorksOnce /\ ChangeKeepsItsBasis

(* A team becomes active only while the club works and its limit, as it is at
   that moment, leaves room for it (assert_resource_capacity). *)
WithinTeamLimit ==
    [][\A c \in Clubs : club'[c].teams > club[c].teams =>
        Open(club[c]) /\ club'[c].teams <= club[c].limit]_vars
=============================================================================
