---------------------- MODULE AccountsAndReview_proofs ----------------------
(***************************************************************************)
(* Two proofs about requests that decide on rows they read before others   *)
(* changed them: Accounts, for any number of accounts, clubs, addresses    *)
(* and browsers, and PostReview, for any number of requests, texts and     *)
(* graphics.  A session or link a reset ended stays ended; what has been   *)
(* published does not go out again, and what goes out is what the last     *)
(* approval bound.                                                         *)
(***************************************************************************)
EXTENDS Accounts, PostReview, SequenceTheorems, TLAPS

-----------------------------------------------------------------------------
(* Part one: Accounts                                                      *)
(*                                                                         *)
(* The account's auth_version is not counted up but written from a copy,   *)
(* so two requests may write the same number, and a late one a smaller     *)
(* number than there was.  What the proofs say is why that does not bring  *)
(* an old session or link back: whatever carries a version carries none    *)
(* that a request under way has not seen.                                  *)

-----------------------------------------------------------------------------
(* Types                                                                   *)

UserRow ==
    [club : Clubs \cup {"none"}, admin : BOOLEAN, auth : Nat, email : Addresses \cup {"none"},
     failed : 0..LockAfter, locked : {"never", "past", "locked"}]
ClubRow == [status : {"none", "active", "suspended"}, limit : 0..MaxLimit, teams : Nat]
Cookie  == [user : Users, auth : Nat, club : Clubs \cup {"none"}, era : Nat]
Request == [kind : Requests, user : Users, link : Nat, row : UserRow,
            at : Clubs \cup {"none"}, copy : ClubRow]
Reset   == [user : Users, to : Addresses \cup {"none"}, used : BOOLEAN, uses : Nat]
Change  == [user : Users, old : Addresses \cup {"none"}, new : Addresses, auth : Nat, era : Nat,
            used : BOOLEAN]

\* A session or a request is there or not.
AtMostOne(S) == {<<>>} \cup {<<x>> : x \in S}

Typed ==
    /\ user \in [Users -> UserRow]
    /\ club \in [Clubs -> ClubRow]
    /\ cookie \in [Browsers -> AtMostOne(Cookie)]
    /\ request \in [Browsers -> AtMostOne(Request)]
    /\ resets \in Seq(Reset)
    /\ changes \in Seq(Change)
    /\ era \in [Users -> Nat]
    /\ events \in Nat

Registered(u) == user[u].club # "none"

\* Sessions, requests and links are of accounts that exist, and a request that
\* follows a link is about the account the link was written for.
RequestFits(r) ==
    /\ Registered(r.user)
    /\ r.kind = "reset" => r.link \in DOMAIN resets /\ resets[r.link].user = r.user
    /\ r.kind = "email" => r.link \in DOMAIN changes /\ changes[r.link].user = r.user

Linked ==
    /\ \A b \in Browsers : cookie[b] # <<>> => Registered(Session(b).user)
    /\ \A b \in Browsers : \A r \in Range(request[b]) : RequestFits(r)
    /\ \A l \in DOMAIN resets : Registered(resets[l].user)
    /\ \A l \in DOMAIN changes : Registered(changes[l].user)

\* Addresses are unique, and every account has one.
OwnAddresses ==
    /\ \A u \in Users : Registered(u) => user[u].email # "none"
    /\ \A u, v \in Users : Registered(u) /\ user[u].email = user[v].email => u = v

TypeInv == Typed /\ Linked /\ OwnAddresses

-----------------------------------------------------------------------------
(* The invariants                                                          *)

\* The requests that end by writing auth_version.
Writers == {"password", "reset", "email"}

\* Something that carries an account's version and the events up to then: it
\* is outdated as soon as an event follows, and what a request under way will
\* write makes it outdated as well.
Based(u, auth, e) ==
    /\ auth <= user[u].auth
    /\ auth = user[u].auth => e = era[u]
    /\ \A b \in Browsers : \A r \in Range(request[b]) :
          r.kind \in Writers /\ r.user = u => auth <= r.row.auth

SessionsBased ==
    \A b \in Browsers :
        cookie[b] # <<>> => Based(Session(b).user, Session(b).auth, Session(b).era)

LinksBased ==
    \A l \in DOMAIN changes : Based(changes[l].user, changes[l].auth, changes[l].era)

\* The copy of the club a request for a team goes on with is still true.
CopiesTrue ==
    \A b \in Browsers : \A r \in Range(request[b]) :
        r.kind = "team" => /\ r.at \in Clubs
                           /\ club[r.at].status = "active" /\ r.copy.status = "active"
                           /\ r.copy.limit = club[r.at].limit


-----------------------------------------------------------------------------
(* Sequences of one, and lists of links                                    *)

LEMMA One ==
    ASSUME NEW S, NEW s \in AtMostOne(S)
    PROVE  /\ s = <<>> => Range(s) = {}
           /\ s # <<>> => s[1] \in S /\ s = <<s[1]>> /\ Range(s) = {s[1]}
BY DEF AtMostOne, Range

LEMMA OneOf == ASSUME NEW S, NEW x \in S PROVE <<>> \in AtMostOne(S) /\ <<x>> \in AtMostOne(S)
BY DEF AtMostOne

LEMMA RangeOfOne == ASSUME NEW x PROVE Range(<<x>>) = {x} /\ <<x>>[1] = x /\ <<x>> # <<>>
BY DEF Range

LEMMA RangeOfNone == Range(<<>>) = {}
BY DEF Range

LEMMA Bounds == LockAfter \in Nat /\ LockAfter > 0 /\ MaxLimit \in Nat /\ 0 \in 0..LockAfter
BY AccountsAssumption

\* Retiring links keeps them, and keeps everything of them but that they work.
LEMMA RetiredResets ==
    ASSUME NEW links \in Seq(Reset), NEW u
    PROVE  /\ Retired(links, u) \in Seq(Reset)
           /\ DOMAIN Retired(links, u) = DOMAIN links
           /\ \A l \in DOMAIN links :
                 /\ Retired(links, u)[l] \in Reset
                 /\ Retired(links, u)[l].used = (links[l].used \/ links[l].user = u)
                 /\ Retired(links, u)[l].user = links[l].user
                 /\ Retired(links, u)[l].to = links[l].to
                 /\ Retired(links, u)[l].uses = links[l].uses
<1>1. Len(links) \in Nat /\ links \in [1..Len(links) -> Reset] /\ DOMAIN links = 1..Len(links)
  BY LenProperties
<1>2. Retired(links, u) \in [1..Len(links) -> Reset]
  BY <1>1 DEF Retired, Reset
<1>3. Retired(links, u) \in Seq(Reset)
  BY <1>1, <1>2
<1>4. \A l \in DOMAIN links :
          /\ Retired(links, u)[l] \in Reset
          /\ Retired(links, u)[l].used = (links[l].used \/ links[l].user = u)
          /\ Retired(links, u)[l].user = links[l].user
          /\ Retired(links, u)[l].to = links[l].to
          /\ Retired(links, u)[l].uses = links[l].uses
  BY <1>1, <1>2 DEF Retired, Reset
<1> QED BY <1>1, <1>2, <1>3, <1>4

LEMMA RetiredChanges ==
    ASSUME NEW links \in Seq(Change), NEW u
    PROVE  /\ Retired(links, u) \in Seq(Change)
           /\ DOMAIN Retired(links, u) = DOMAIN links
           /\ \A l \in DOMAIN links :
                 /\ Retired(links, u)[l] \in Change
                 /\ Retired(links, u)[l].used = (links[l].used \/ links[l].user = u)
                 /\ Retired(links, u)[l].user = links[l].user
                 /\ Retired(links, u)[l].old = links[l].old
                 /\ Retired(links, u)[l].new = links[l].new
                 /\ Retired(links, u)[l].auth = links[l].auth
                 /\ Retired(links, u)[l].era = links[l].era
<1>1. Len(links) \in Nat /\ links \in [1..Len(links) -> Change] /\ DOMAIN links = 1..Len(links)
  BY LenProperties
<1>2. Retired(links, u) \in [1..Len(links) -> Change]
  BY <1>1 DEF Retired, Change
<1>3. Retired(links, u) \in Seq(Change)
  BY <1>1, <1>2
<1>4. \A l \in DOMAIN links :
          /\ Retired(links, u)[l] \in Change
          /\ Retired(links, u)[l].used = (links[l].used \/ links[l].user = u)
          /\ Retired(links, u)[l].user = links[l].user
          /\ Retired(links, u)[l].old = links[l].old
          /\ Retired(links, u)[l].new = links[l].new
          /\ Retired(links, u)[l].auth = links[l].auth
          /\ Retired(links, u)[l].era = links[l].era
  BY <1>1, <1>2 DEF Retired, Change
<1> QED BY <1>1, <1>2, <1>3, <1>4

\* A new link comes last.
LEMMA Appended ==
    ASSUME NEW S, NEW links \in Seq(S), NEW x \in S
    PROVE  /\ Append(links, x) \in Seq(S)
           /\ DOMAIN links \subseteq DOMAIN Append(links, x)
           /\ \A l \in DOMAIN links : Append(links, x)[l] = links[l]
           /\ \A l \in DOMAIN Append(links, x) \ DOMAIN links : Append(links, x)[l] = x
OBVIOUS

-----------------------------------------------------------------------------
(* What a request under way, or one taken as a step, goes on with           *)

LEMMA ValidSession ==
    ASSUME TypeInv, NEW b \in Browsers, Valid(b)
    PROVE  /\ Me(b) \in Users /\ Registered(Me(b)) /\ user[Me(b)].club \in Clubs
           /\ Session(b) \in Cookie /\ user[Me(b)].auth = Session(b).auth
<1>1. cookie[b] # <<>> /\ Session(b) \in Cookie /\ Registered(Session(b).user)
  BY One DEF Valid, Session, TypeInv, Typed, Linked
<1> QED BY <1>1 DEF Valid, Me, Cookie, Registered, TypeInv, Typed, UserRow

LEMMA RequestUnderWay ==
    ASSUME TypeInv, NEW b \in Browsers, NEW r \in Range(request[b])
    PROVE  r \in Request /\ RequestFits(r) /\ request[b] = <<r>>
BY One DEF TypeInv, Typed, Linked

LEMMA ReadFits ==
    ASSUME TypeInv, NEW b \in Browsers, NEW kind \in Requests, NEW u \in Users,
           NEW l \in 0..MaxLinks, Served(b, kind, u, l)
    PROVE  /\ Read(kind, u, l) \in Request /\ RequestFits(Read(kind, u, l))
           /\ Read(kind, u, l).kind = kind /\ Read(kind, u, l).user = u
           /\ kind # "team" => Read(kind, u, l).row = user[u] /\ Read(kind, u, l).at = "none"
           /\ kind = "team" => /\ Read(kind, u, l).at \in Clubs
                               /\ Read(kind, u, l).copy = club[Read(kind, u, l).at]
                               /\ Open(Read(kind, u, l).copy)
<1> DEFINE r == Read(kind, u, l)
<1>1. l \in Nat /\ MaxLimit \in Nat /\ LockAfter \in Nat
  BY AccountsAssumption
<1>2. user[u] \in UserRow /\ NoUser \in UserRow /\ NoClub \in ClubRow
  BY <1>1 DEF TypeInv, Typed, NoUser, NoClub, UserRow, ClubRow
<1>3. CASE kind = "team"
  <2>1. u = Me(b) /\ Registered(u) /\ user[u].club \in Clubs /\ Open(club[user[u].club])
    BY <1>3, ValidSession DEF Served, Manages
  <2>2. /\ r.kind = kind /\ r.user = u /\ r.link = l /\ r.row = NoUser /\ r.at = user[u].club
        /\ r.copy = club[user[u].club]
    BY <1>3 DEF Read
  <2>3. club[user[u].club] \in ClubRow
    BY <2>1 DEF TypeInv, Typed
  <2>4. r \in Request
    BY <1>1, <1>2, <1>3, <2>1, <2>3 DEF Read, Request
  <2> QED BY <1>3, <2>1, <2>2, <2>4 DEF RequestFits
<1>4. CASE kind # "team"
  <2>1. /\ r.kind = kind /\ r.user = u /\ r.link = l /\ r.row = user[u] /\ r.at = "none"
    BY <1>4 DEF Read
  <2>2. r \in Request
    BY <1>1, <1>2, <1>4 DEF Read, Request
  <2>3. RequestFits(r)
    <3>1. CASE kind = "password"
      BY <2>1, <3>1, ValidSession DEF Served, RequestFits
    <3>2. CASE kind \in {"reset", "email"}
      BY <2>1, <3>2 DEF Served, RequestFits, TypeInv, Linked
    <3>3. CASE kind = "forgot"
      BY <2>1, <3>3 DEF Served, RequestFits, Registered
    <3> QED BY <1>4, <3>1, <3>2, <3>3 DEF Requests
  <2> QED BY <1>4, <2>1, <2>2, <2>3
<1> QED BY <1>3, <1>4

LEMMA PossibleFits ==
    ASSUME TypeInv, NEW b \in Browsers, NEW kind \in Requests, NEW r \in Possible(b, kind)
    PROVE  /\ r \in Request /\ RequestFits(r) /\ r.kind = kind
           /\ kind # "team" => r.row = user[r.user] /\ r.at = "none"
           /\ kind = "team" => r.at \in Clubs /\ r.copy = club[r.at] /\ Open(r.copy)
<1>1. PICK x \in Users \X (0..MaxLinks) : Served(b, kind, x[1], x[2]) /\ r = Read(kind, x[1], x[2])
  BY DEF Possible
<1>2. x[1] \in Users /\ x[2] \in 0..MaxLinks
  OBVIOUS
<1> QED BY <1>1, <1>2, ReadFits

LEMMA InHandFits ==
    ASSUME TypeInv, NEW b \in Browsers, NEW kind \in Requests, NEW r \in InHand(b, kind)
    PROVE  /\ r \in Request /\ RequestFits(r) /\ r.kind = kind
           /\ r \in Range(request[b]) \/ r \in Possible(b, kind)
           /\ kind \notin Slow => r \in Possible(b, kind)
BY RequestUnderWay, PossibleFits DEF InHand

-----------------------------------------------------------------------------
(* Every action keeps the types                                            *)

LEMMA TypeInit == Init => TypeInv
<1> SUFFICES ASSUME Init PROVE TypeInv
  OBVIOUS
<1>1. user \in [Users -> UserRow]
  BY AccountsAssumption DEF Init, NewUser, NoUser, UserRow
<1>2. club \in [Clubs -> ClubRow]
  BY AccountsAssumption DEF Init, NoClub, ClubRow
<1>3. /\ cookie \in [Browsers -> AtMostOne(Cookie)] /\ request \in [Browsers -> AtMostOne(Request)]
      /\ resets \in Seq(Reset) /\ changes \in Seq(Change)
      /\ era \in [Users -> Nat] /\ events \in Nat
  BY DEF Init, AtMostOne
<1>4. Linked
  BY RangeOfNone DEF Init, Linked
<1>5. OwnAddresses
  BY AccountsAssumption DEF Init, OwnAddresses, Registered, NewUser, NoUser
<1> QED BY <1>1, <1>2, <1>3, <1>4, <1>5 DEF TypeInv, Typed

\* Links and requests stay good if accounts stay registered, links keep their
\* account and what is new is good.
LEMMA LinkedKept ==
    ASSUME TypeInv,
           \A u \in Users : Registered(u) => user'[u].club # "none",
           DOMAIN resets \subseteq DOMAIN resets', DOMAIN changes \subseteq DOMAIN changes',
           \A l \in DOMAIN resets : resets'[l].user = resets[l].user,
           \A l \in DOMAIN changes : changes'[l].user = changes[l].user,
           \A l \in DOMAIN resets' \ DOMAIN resets :
              resets'[l].user \in Users /\ Registered(resets'[l].user),
           \A l \in DOMAIN changes' \ DOMAIN changes :
              changes'[l].user \in Users /\ Registered(changes'[l].user),
           \A b \in Browsers :
              \/ cookie'[b] = cookie[b]
              \/ cookie'[b] = <<>>
              \/ cookie'[b][1].user \in Users /\ Registered(cookie'[b][1].user),
           \A b \in Browsers : \A r \in Range(request'[b]) :
              r \in Range(request[b]) \/ (r \in Request /\ RequestFits(r))
    PROVE  Linked'
<1>1. \A b \in Browsers : cookie'[b] # <<>> => user'[cookie'[b][1].user].club # "none"
  <2>1. \A b \in Browsers : cookie[b] # <<>> =>
            cookie[b][1].user \in Users /\ Registered(cookie[b][1].user)
    <3>1. \A b \in Browsers : cookie[b] # <<>> => cookie[b][1] \in Cookie
      BY One DEF TypeInv, Typed
    <3> QED BY <3>1 DEF Session, TypeInv, Linked, Cookie
  <2> QED BY <2>1
<1>2. \A b \in Browsers : \A r \in Range(request'[b]) : RequestFits(r)'
  <2>1. \A b \in Browsers : \A r \in Range(request'[b]) : r \in Request /\ RequestFits(r)
    BY RequestUnderWay
  <2> QED BY <2>1 DEF RequestFits, Request, Registered
<1>3. \A l \in DOMAIN resets' : user'[resets'[l].user].club # "none"
  <2>1. \A l \in DOMAIN resets : resets[l] \in Reset
    BY DEF TypeInv, Typed
  <2>2. \A l \in DOMAIN resets : resets[l].user \in Users /\ Registered(resets[l].user)
    BY <2>1 DEF TypeInv, Linked, Reset
  <2> QED BY <2>2
<1>4. \A l \in DOMAIN changes' : user'[changes'[l].user].club # "none"
  <2>1. \A l \in DOMAIN changes : changes[l] \in Change
    BY DEF TypeInv, Typed
  <2>2. \A l \in DOMAIN changes : changes[l].user \in Users /\ Registered(changes[l].user)
    BY <2>1 DEF TypeInv, Linked, Change
  <2> QED BY <2>2
<1> QED BY <1>1, <1>2, <1>3, <1>4 DEF Linked, Registered, Session

\* A password that is set, by an administrator of it or by a link.
LEMMA PasswordType ==
    ASSUME TypeInv, NEW b \in Browsers, NEW r \in Request, RequestFits(r), PasswordSet(b, r)
    PROVE  /\ user' \in [Users -> UserRow]
           /\ \A u \in Users : /\ user'[u].club = user[u].club /\ user'[u].email = user[u].email
                               /\ user'[u].auth = IF u = r.user THEN r.row.auth + 1 ELSE user[u].auth
           /\ era' \in [Users -> Nat]
           /\ \A u \in Users : era'[u] = IF u = r.user THEN era[u] + 1 ELSE era[u]
           /\ cookie' = [cookie EXCEPT ![b] = <<>>]
<1>1. r.user \in Users /\ r.row \in UserRow
  BY DEF Request
<1>2. WithPassword(r.user, r.row) \in UserRow
  <2>1. user[r.user] \in UserRow
    BY <1>1 DEF TypeInv, Typed
  <2>2. r.row.auth + 1 \in Nat
    BY <1>1 DEF UserRow
  <2> QED BY <2>1, <2>2, Bounds DEF WithPassword, UserRow
<1>3. /\ WithPassword(r.user, r.row).club = user[r.user].club
      /\ WithPassword(r.user, r.row).email = user[r.user].email
      /\ WithPassword(r.user, r.row).auth = r.row.auth + 1
  BY <1>1 DEF WithPassword, UserRow, TypeInv, Typed
<1>4. user' = [user EXCEPT ![r.user] = WithPassword(r.user, r.row)]
  BY DEF PasswordSet
<1> QED BY <1>1, <1>2, <1>3, <1>4 DEF PasswordSet, SessionsOver, TypeInv, Typed

\* A browser's request is over, or a browser has no session any more.
LEMMA Emptied ==
    ASSUME TypeInv, NEW b \in Browsers
    PROVE  /\ [cookie EXCEPT ![b] = <<>>] \in [Browsers -> AtMostOne(Cookie)]
           /\ [request EXCEPT ![b] = <<>>] \in [Browsers -> AtMostOne(Request)]
           /\ \A c \in Browsers :
                 /\ [cookie EXCEPT ![b] = <<>>][c] \in {<<>>, cookie[c]}
                 /\ Range([request EXCEPT ![b] = <<>>][c]) \subseteq Range(request[c])
BY OneOf, RangeOfNone DEF TypeInv, Typed, AtMostOne

\* What a step does to the versions of accounts, to sessions and to requests.
Kept(u)    == user'[u].auth = user[u].auth /\ era'[u] = era[u]
Counts(u)  == user'[u].auth = user[u].auth + 1 /\ era'[u] = era[u] + 1
Written(u) ==
    \E b \in Browsers, kind \in Writers : \E r \in InHand(b, kind) :
        r.user = u /\ user'[u].auth = r.row.auth + 1

\* The address changes only by a link that has not been used, is still bound to
\* what its request has read of the account, and retires the links for a reset.
Addressed(u) ==
    \E b \in Browsers : \E r \in InHand(b, "email") :
        /\ r.user = u /\ Bound(r.link, r.row) /\ ~changes[r.link].used
        /\ user'[u].email = changes[r.link].new
        /\ resets' = Retired(resets, u)

\* A session is new only for the version there is, and no request may overtake
\* the login.
NewSession(b) ==
    /\ cookie'[b] # <<>> /\ cookie'[b][1].user \in Users
    /\ LET u == cookie'[b][1].user IN
          /\ Registered(u) /\ Alone(u) /\ Kept(u)
          /\ cookie'[b][1].auth = user[u].auth /\ cookie'[b][1].era = era[u]

Versions ==
    /\ \A u \in Users : Registered(u) => user'[u].club # "none"
    /\ \A u \in Users : Registered(u) => Kept(u) \/ Counts(u) \/ Written(u)
    /\ \A u \in Users : Registered(u) => user'[u].email = user[u].email \/ Addressed(u)
    /\ \A b \in Browsers : cookie'[b] \in {<<>>, cookie[b]} \/ NewSession(b)
    /\ \A b \in Browsers : \A r \in Range(request'[b]) :
          \/ r \in Range(request[b])
          \/ UNCHANGED user /\ \E kind \in Requests : r \in Possible(b, kind)

\* A step that leaves the links and the requests alone, but for one it ends.
LEMMA VersionsType ==
    ASSUME TypeInv, Versions,
           user' \in [Users -> UserRow], club' \in [Clubs -> ClubRow],
           cookie' \in [Browsers -> AtMostOne(Cookie)],
           request' \in [Browsers -> AtMostOne(Request)],
           resets' \in Seq(Reset), changes' \in Seq(Change),
           era' \in [Users -> Nat], events' \in Nat,
           DOMAIN resets \subseteq DOMAIN resets', DOMAIN changes \subseteq DOMAIN changes',
           \A l \in DOMAIN resets : resets'[l].user = resets[l].user,
           \A l \in DOMAIN changes : changes'[l].user = changes[l].user,
           \A l \in DOMAIN resets' \ DOMAIN resets :
              resets'[l].user \in Users /\ Registered(resets'[l].user),
           \A l \in DOMAIN changes' \ DOMAIN changes :
              changes'[l].user \in Users /\ Registered(changes'[l].user),
           OwnAddresses'
    PROVE  TypeInv'
<1>1. \A b \in Browsers :
          \/ cookie'[b] = cookie[b]
          \/ cookie'[b] = <<>>
          \/ cookie'[b][1].user \in Users /\ Registered(cookie'[b][1].user)
  BY DEF Versions, NewSession
<1>2. \A b \in Browsers : \A r \in Range(request'[b]) :
          r \in Range(request[b]) \/ (r \in Request /\ RequestFits(r))
  BY PossibleFits DEF Versions
<1>3. \A u \in Users : Registered(u) => user'[u].club # "none"
  BY DEF Versions
<1>4. Linked'
  BY <1>1, <1>2, <1>3, LinkedKept
<1> QED BY <1>4 DEF TypeInv, Typed

\* Clubs and addresses of accounts are as they were.
LEMMA SameAddresses ==
    ASSUME TypeInv,
           \A u \in Users : user'[u].email = user[u].email
                            /\ (user[u].club = "none" <=> user'[u].club = "none")
    PROVE  OwnAddresses'
BY DEF TypeInv, OwnAddresses, Registered

\* An account gets an address that is nobody's.
LEMMA NewAddress ==
    ASSUME TypeInv, NEW u \in Users, NEW a \in Addresses, ~Taken(a),
           user'[u].email = a,
           \A v \in Users \ {u} : user'[v] = user[v]
    PROVE  OwnAddresses'
<1>1. a # "none" /\ \A v \in Users : user[v].email # a
  BY AccountsAssumption DEF Taken
<1> QED BY <1>1 DEF TypeInv, OwnAddresses, Registered

-----------------------------------------------------------------------------
(* Sessions, locks and requests                                            *)

LEMMA LoginStep ==
    ASSUME TypeInv, NEW b \in Browsers, NEW u \in Users, authenticate(b, u)
    PROVE  TypeInv' /\ Versions
<1>1. /\ Registered(u) /\ Alone(u) /\ user[u] \in UserRow /\ user[u].club \in Clubs \cup {"none"}
      /\ UNCHANGED <<club, request, resets, changes, era>>
  BY DEF authenticate, Registered, TypeInv, Typed, UserRow
<1>2. PICK row \in UserRow : /\ user' = [user EXCEPT ![u] = row]
                             /\ row.club = user[u].club /\ row.email = user[u].email
                             /\ row.auth = user[u].auth
  <2>1. CASE user' = [user EXCEPT ![u] = WrongPassword(u)]
    <3>1. /\ WrongPassword(u) \in UserRow /\ WrongPassword(u).club = user[u].club
          /\ WrongPassword(u).email = user[u].email /\ WrongPassword(u).auth = user[u].auth
      <4> DEFINE f == IF user[u].failed < LockAfter THEN user[u].failed + 1 ELSE LockAfter
                 k == IF user[u].failed + 1 >= LockAfter THEN "locked" ELSE user[u].locked
      <4>1. f \in 0..LockAfter /\ k \in {"never", "past", "locked"}
        BY <1>1, Bounds DEF UserRow
      <4>2. WrongPassword(u) = [user[u] EXCEPT !.failed = f, !.locked = k]
        BY <1>1 DEF WrongPassword, UserRow
      <4> HIDE DEF f, k
      <4> QED BY <1>1, <4>1, <4>2 DEF UserRow
    <3> QED BY <2>1, <3>1
  <2>2. CASE user' = [user EXCEPT ![u].failed = 0, ![u].locked = "never"]
    <3> DEFINE row == [user[u] EXCEPT !.failed = 0, !.locked = "never"]
    <3>1. user' = [user EXCEPT ![u] = row]
      BY <1>1, <2>2 DEF TypeInv, Typed
    <3>2. row \in UserRow /\ row.club = user[u].club /\ row.email = user[u].email
          /\ row.auth = user[u].auth
      BY <1>1, Bounds DEF UserRow
    <3> QED BY <3>1, <3>2
  <2> QED BY <2>1, <2>2 DEF authenticate
<1>3. /\ user' \in [Users -> UserRow]
      /\ \A v \in Users : /\ user'[v].club = user[v].club /\ user'[v].email = user[v].email
                          /\ user'[v].auth = user[v].auth
  BY <1>2 DEF TypeInv, Typed
<1> DEFINE s == [user |-> u, auth |-> user[u].auth, club |-> user[u].club, era |-> era[u]]
<1>4. s \in Cookie
  BY <1>1 DEF Cookie, UserRow, TypeInv, Typed
<1>5. UNCHANGED cookie \/ cookie' = [cookie EXCEPT ![b] = <<s>>]
  BY DEF authenticate
<1>6. cookie' \in [Browsers -> AtMostOne(Cookie)] /\ events' \in Nat
  BY SMTT(30), <1>4, <1>5, OneOf DEF authenticate, Counted, TypeInv, Typed
<1>7. \A c \in Browsers : cookie'[c] = cookie[c] \/ (c = b /\ cookie'[c] = <<s>>)
  BY <1>5 DEF TypeInv, Typed
<1>8. Versions
  BY <1>1, <1>3, <1>7, RangeOfOne DEF Versions, NewSession, Kept, Registered
<1> QED BY <1>1, <1>3, <1>6, <1>8, SameAddresses, VersionsType DEF TypeInv, Typed

LEMMA LockStep ==
    ASSUME TypeInv, NEW u \in Users, LockExpires(u)
    PROVE  TypeInv' /\ Versions
<1>1. /\ user' \in [Users -> UserRow]
      /\ \A v \in Users : /\ user'[v].club = user[v].club /\ user'[v].email = user[v].email
                          /\ user'[v].auth = user[v].auth
  BY ZenonT(40) DEF LockExpires, TypeInv, Typed, UserRow
<1>2. UNCHANGED <<club, cookie, request, resets, changes, era, events>>
  BY DEF LockExpires
<1>3. Versions
  BY <1>1, <1>2 DEF Versions, Kept, Registered
<1> QED BY <1>1, <1>2, <1>3, SameAddresses, VersionsType DEF TypeInv, Typed

\* Steps that write no account.
LEMMA BrowserStep ==
    ASSUME TypeInv, NEW b \in Browsers, SessionCleared(b) \/ RequestBegins(b)
    PROVE  TypeInv' /\ Versions
<1>1. CASE SessionCleared(b)
  <2>1. /\ cookie' = [cookie EXCEPT ![b] = <<>>]
        /\ UNCHANGED <<user, club, request, resets, changes, era, events>>
    BY <1>1 DEF SessionCleared
  <2>2. /\ cookie' \in [Browsers -> AtMostOne(Cookie)]
        /\ \A c \in Browsers : cookie'[c] \in {<<>>, cookie[c]}
    BY <2>1, Emptied
  <2>3. Versions
    BY <2>1, <2>2 DEF Versions, Kept, Registered
  <2> QED BY <2>1, <2>2, <2>3, SameAddresses, VersionsType DEF TypeInv, Typed
<1>2. CASE RequestBegins(b)
  <2>1. UNCHANGED <<user, club, cookie, resets, changes, era, events>>
    BY <1>2 DEF RequestBegins
  <2>2. PICK kind \in Slow : \E r \in Possible(b, kind) : request' = [request EXCEPT ![b] = <<r>>]
    BY <1>2 DEF RequestBegins
  <2>3. PICK r \in Possible(b, kind) : request' = [request EXCEPT ![b] = <<r>>]
    BY <2>2
  <2>4. kind \in Requests
    BY DEF Slow, Requests
  <2>5. r \in Request
    BY <2>3, <2>4, PossibleFits
  <2>6. request' \in [Browsers -> AtMostOne(Request)]
    BY <2>3, <2>5, OneOf DEF TypeInv, Typed
  <2>7. \A c \in Browsers : request'[c] = request[c] \/ (c = b /\ request'[c] = <<r>>)
    BY <2>3 DEF TypeInv, Typed
  <2>8. Versions
    BY <2>1, <2>3, <2>4, <2>7, RangeOfOne DEF Versions, Kept, Registered
  <2> QED BY <2>1, <2>6, <2>8, SameAddresses, VersionsType DEF TypeInv, Typed
<1> QED BY <1>1, <1>2

-----------------------------------------------------------------------------
(* Passwords and links                                                     *)

LEMMA ChangePasswordStep ==
    ASSUME TypeInv, NEW b \in Browsers, change_password(b)
    PROVE  TypeInv' /\ Versions
<1>1. PICK r \in InHand(b, "password") : PasswordSet(b, r)
  BY DEF change_password
<1>2. r \in Request /\ RequestFits(r)
  BY InHandFits DEF Requests
<1>3. /\ user' \in [Users -> UserRow]
      /\ \A u \in Users : /\ user'[u].club = user[u].club /\ user'[u].email = user[u].email
                          /\ user'[u].auth = IF u = r.user THEN r.row.auth + 1 ELSE user[u].auth
      /\ era' \in [Users -> Nat]
      /\ \A u \in Users : era'[u] = IF u = r.user THEN era[u] + 1 ELSE era[u]
      /\ cookie' = [cookie EXCEPT ![b] = <<>>]
  BY <1>1, <1>2, PasswordType
<1>4. /\ request' = [request EXCEPT ![b] = <<>>] /\ events' = events + 1
      /\ UNCHANGED <<club, resets, changes>>
  BY DEF change_password, Ends, Counted
<1>5. /\ cookie' \in [Browsers -> AtMostOne(Cookie)] /\ request' \in [Browsers -> AtMostOne(Request)]
      /\ \A c \in Browsers : /\ cookie'[c] \in {<<>>, cookie[c]}
                             /\ Range(request'[c]) \subseteq Range(request[c])
  BY <1>3, <1>4, Emptied
<1>6. \A u \in Users : Kept(u) \/ Written(u)
  BY <1>3 DEF Kept, Written, Writers
<1>7. Versions
  BY <1>3, <1>5, <1>6 DEF Versions, Registered
<1> QED BY <1>3, <1>4, <1>5, <1>7, SameAddresses, VersionsType DEF TypeInv, Typed

LEMMA ForgotStep ==
    ASSUME TypeInv, NEW b \in Browsers, NEW delivered \in BOOLEAN,
           request_password_reset(b, delivered)
    PROVE  TypeInv' /\ Versions
<1>1. PICK r \in InHand(b, "forgot") :
         resets' = Append(Retired(resets, r.user),
             [user |-> r.user, to |-> r.row.email, used |-> ~delivered, uses |-> 0])
  BY DEF request_password_reset
<1>2. r \in Request /\ RequestFits(r)
  BY InHandFits DEF Requests
<1> DEFINE x == [user |-> r.user, to |-> r.row.email, used |-> ~delivered, uses |-> 0]
<1>3. x \in Reset /\ x.user \in Users /\ Registered(x.user)
  BY <1>2 DEF Request, UserRow, Reset, RequestFits
<1>4. /\ UNCHANGED <<user, club, cookie, changes, era, events>>
      /\ request' = [request EXCEPT ![b] = <<>>]
  BY DEF request_password_reset, Ends
<1>5. resets \in Seq(Reset)
  BY DEF TypeInv, Typed
<1>6. /\ Retired(resets, r.user) \in Seq(Reset) /\ DOMAIN Retired(resets, r.user) = DOMAIN resets
      /\ \A l \in DOMAIN resets : Retired(resets, r.user)[l].user = resets[l].user
  BY <1>5, RetiredResets
<1>7. resets' = Append(Retired(resets, r.user), x)
  BY <1>1
<1> HIDE DEF x
<1>8. /\ resets' \in Seq(Reset) /\ DOMAIN resets \subseteq DOMAIN resets'
      /\ \A l \in DOMAIN resets : resets'[l].user = resets[l].user
      /\ \A l \in DOMAIN resets' \ DOMAIN resets : resets'[l] = x
  BY <1>3, <1>6, <1>7, Appended
<1>9. /\ request' \in [Browsers -> AtMostOne(Request)]
      /\ \A c \in Browsers : Range(request'[c]) \subseteq Range(request[c])
  BY <1>4, Emptied
<1>10. Versions
  BY <1>4, <1>9 DEF Versions, Kept, Registered
<1> QED BY <1>3, <1>4, <1>8, <1>9, <1>10, SameAddresses, VersionsType DEF TypeInv, Typed

LEMMA ClaimedResets ==
    ASSUME TypeInv, NEW l \in DOMAIN resets
    PROVE  /\ ResetClaims(l) \in Seq(Reset) /\ DOMAIN ResetClaims(l) = DOMAIN resets
           /\ \A k \in DOMAIN resets :
                 /\ ResetClaims(l)[k].user = resets[k].user /\ ResetClaims(l)[k].to = resets[k].to
                 /\ ResetClaims(l)[k].used = (resets[k].used \/ resets[k].user = resets[l].user)
                 /\ ResetClaims(l)[k].uses = IF k = l THEN resets[k].uses + 1 ELSE resets[k].uses
<1> DEFINE retired == Retired(resets, resets[l].user)
           x == [retired[l] EXCEPT !.uses = @ + 1]
<1>1. resets \in Seq(Reset) /\ resets[l] \in Reset
  BY DEF TypeInv, Typed
<1>2. /\ retired \in Seq(Reset) /\ DOMAIN retired = DOMAIN resets
  BY <1>1, RetiredResets
<1>3. ResetClaims(l) = [retired EXCEPT ![l] = x]
  BY <1>2 DEF ResetClaims
<1>4. \A k \in DOMAIN resets :
          /\ retired[k] \in Reset
          /\ retired[k].user = resets[k].user /\ retired[k].to = resets[k].to
          /\ retired[k].used = (resets[k].used \/ resets[k].user = resets[l].user)
          /\ retired[k].uses = resets[k].uses
  BY <1>1, RetiredResets
<1>5. /\ x \in Reset /\ x.user = retired[l].user /\ x.to = retired[l].to
      /\ x.used = retired[l].used /\ x.uses = retired[l].uses + 1
  BY <1>4 DEF Reset
<1> HIDE DEF retired, x
<1>6. [retired EXCEPT ![l] = x] \in Seq(Reset)
  BY <1>2, <1>5, ExceptSeq, LenProperties
<1> QED BY <1>2, <1>3, <1>4, <1>5, <1>6

LEMMA ResetStep ==
    ASSUME TypeInv, NEW b \in Browsers, complete_password_reset(b)
    PROVE  TypeInv' /\ Versions
<1>1. /\ request' = [request EXCEPT ![b] = <<>>] /\ UNCHANGED <<club, changes>>
  BY DEF complete_password_reset, Ends
<1>2. /\ request' \in [Browsers -> AtMostOne(Request)]
      /\ \A c \in Browsers : Range(request'[c]) \subseteq Range(request[c])
  BY <1>1, Emptied
<1>3. CASE UNCHANGED <<user, cookie, resets, era, events>>
  <2>1. Versions
    BY <1>2, <1>3 DEF Versions, Kept, Registered
  <2> QED BY <1>1, <1>2, <1>3, <2>1, SameAddresses, VersionsType DEF TypeInv, Typed
<1>4. ASSUME NEW r \in InHand(b, "reset"), PasswordSet(b, r),
             resets' = ResetClaims(r.link), Counted
      PROVE  TypeInv' /\ Versions
  <2>1. r \in Request /\ RequestFits(r) /\ r.kind = "reset" /\ r.link \in DOMAIN resets
    BY InHandFits DEF Requests, RequestFits
  <2>2. /\ user' \in [Users -> UserRow]
        /\ \A u \in Users : /\ user'[u].club = user[u].club /\ user'[u].email = user[u].email
                            /\ user'[u].auth = IF u = r.user THEN r.row.auth + 1 ELSE user[u].auth
        /\ era' \in [Users -> Nat]
        /\ \A u \in Users : era'[u] = IF u = r.user THEN era[u] + 1 ELSE era[u]
        /\ cookie' = [cookie EXCEPT ![b] = <<>>]
    BY <1>4, <2>1, PasswordType
  <2>3. /\ cookie' \in [Browsers -> AtMostOne(Cookie)]
        /\ \A c \in Browsers : cookie'[c] \in {<<>>, cookie[c]}
    BY <2>2, Emptied
  <2>4. \A u \in Users : Kept(u) \/ Written(u)
    BY <2>2 DEF Kept, Written, Writers
  <2>5. Versions
    BY <1>2, <2>2, <2>3, <2>4 DEF Versions, Registered
  <2>6. resets' \in Seq(Reset) /\ DOMAIN resets' = DOMAIN resets
        /\ \A l \in DOMAIN resets : resets'[l].user = resets[l].user
    BY <1>4, <2>1, ClaimedResets
  <2>7. events' \in Nat
    BY <1>4 DEF Counted, TypeInv, Typed
  <2> QED BY <1>1, <1>2, <2>2, <2>3, <2>5, <2>6, <2>7, SameAddresses, VersionsType
          DEF TypeInv, Typed
<1> QED BY <1>3, <1>4 DEF complete_password_reset

LEMMA AskEmailStep ==
    ASSUME TypeInv, NEW b \in Browsers, NEW a \in Addresses, NEW delivered \in BOOLEAN,
           request_email_change(b, a, delivered)
    PROVE  TypeInv' /\ Versions
<1> DEFINE x == [user |-> Me(b), old |-> user[Me(b)].email, new |-> a, auth |-> user[Me(b)].auth,
                 era |-> era[Me(b)], used |-> ~delivered]
<1>1. Me(b) \in Users /\ Registered(Me(b))
  BY ValidSession DEF request_email_change
<1>2. x \in Change /\ x.user \in Users /\ Registered(x.user)
  BY <1>1 DEF Change, UserRow, TypeInv, Typed
<1>3. /\ UNCHANGED <<user, club, cookie, request, resets, era, events>>
      /\ changes' = Append(Retired(changes, Me(b)), x)
  BY DEF request_email_change
<1> HIDE DEF x
<1>4. /\ Retired(changes, Me(b)) \in Seq(Change) /\ DOMAIN Retired(changes, Me(b)) = DOMAIN changes
      /\ \A l \in DOMAIN changes : Retired(changes, Me(b))[l].user = changes[l].user
  BY RetiredChanges DEF TypeInv, Typed
<1>5. /\ changes' \in Seq(Change) /\ DOMAIN changes \subseteq DOMAIN changes'
      /\ \A l \in DOMAIN changes : changes'[l].user = changes[l].user
      /\ \A l \in DOMAIN changes' \ DOMAIN changes : changes'[l] = x
  BY <1>2, <1>3, <1>4, Appended
<1>6. Versions
  BY <1>3 DEF Versions, Kept, Registered
<1> QED BY <1>2, <1>3, <1>5, <1>6, SameAddresses, VersionsType DEF TypeInv, Typed

\* What a change of the address writes.
LEMMA AddressWritten ==
    ASSUME TypeInv, NEW r \in Request, NEW a \in Addresses, RequestFits(r),
           user' = [user EXCEPT ![r.user].email = a, ![r.user].auth = r.row.auth + 1]
    PROVE  /\ user' \in [Users -> UserRow]
           /\ user'[r.user].email = a /\ user'[r.user].auth = r.row.auth + 1
           /\ user'[r.user].club = user[r.user].club
           /\ \A u \in Users \ {r.user} : user'[u] = user[u]
<1>1. r.user \in Users /\ user[r.user] \in UserRow /\ r.row.auth + 1 \in Nat
  BY DEF Request, UserRow, TypeInv, Typed
<1> DEFINE row == [user[r.user] EXCEPT !.email = a, !.auth = r.row.auth + 1]
<1>2. user' = [user EXCEPT ![r.user] = row]
  BY <1>1 DEF TypeInv, Typed
<1>3. row \in UserRow /\ row.email = a /\ row.auth = r.row.auth + 1 /\ row.club = user[r.user].club
  BY <1>1 DEF UserRow
<1> HIDE DEF row
<1> QED BY <1>1, <1>2, <1>3 DEF TypeInv, Typed

LEMMA EmailStep ==
    ASSUME TypeInv, NEW b \in Browsers, complete_email_change(b)
    PROVE  TypeInv' /\ Versions
<1>1. /\ request' = [request EXCEPT ![b] = <<>>] /\ UNCHANGED club
  BY DEF complete_email_change, Ends
<1>2. /\ request' \in [Browsers -> AtMostOne(Request)]
      /\ \A c \in Browsers : Range(request'[c]) \subseteq Range(request[c])
  BY <1>1, Emptied
<1>3. CASE UNCHANGED <<user, cookie, resets, changes, era, events>>
  <2>1. Versions
    BY <1>2, <1>3 DEF Versions, Kept, Registered
  <2> QED BY <1>1, <1>2, <1>3, <2>1, SameAddresses, VersionsType DEF TypeInv, Typed
<1>4. ASSUME NEW r \in InHand(b, "email"), ~Taken(changes[r.link].new), Counted,
             Bound(r.link, r.row), ~changes[r.link].used,
             user' = [user EXCEPT ![r.user].email = changes[r.link].new,
                                  ![r.user].auth = r.row.auth + 1],
             changes' = Retired(changes, r.user), resets' = EmailResets(r.user),
             cookie' = [cookie EXCEPT ![b] = <<>>], SessionsOver({r.user})
      PROVE  TypeInv' /\ Versions
  <2>1. r \in Request /\ RequestFits(r) /\ r.kind = "email" /\ r.link \in DOMAIN changes
    BY InHandFits DEF Requests, RequestFits
  <2>2. changes[r.link].new \in Addresses /\ r.user \in Users
    <3>1. changes[r.link] \in Change
      BY <2>1 DEF TypeInv, Typed
    <3> QED BY <2>1, <3>1 DEF Change, Request
  <2>3. /\ user' \in [Users -> UserRow]
        /\ user'[r.user].email = changes[r.link].new /\ user'[r.user].auth = r.row.auth + 1
        /\ user'[r.user].club = user[r.user].club
        /\ \A u \in Users \ {r.user} : user'[u] = user[u]
    BY <1>4, <2>1, <2>2, AddressWritten
  <2>4. /\ era' \in [Users -> Nat] /\ \A u \in Users \ {r.user} : era'[u] = era[u]
        /\ events' \in Nat
    BY <1>4 DEF SessionsOver, Counted, TypeInv, Typed
  <2>5. /\ cookie' \in [Browsers -> AtMostOne(Cookie)]
        /\ \A c \in Browsers : cookie'[c] \in {<<>>, cookie[c]}
    BY <1>4, Emptied
  <2>6. \A u \in Users : Kept(u) \/ Written(u)
    BY <2>1, <2>3, <2>4 DEF Kept, Written, Writers
  <2>11. Addressed(r.user)
    BY <1>4, <2>3 DEF Addressed, EmailResets
  <2>7. Versions
    BY <1>2, <2>3, <2>5, <2>6, <2>11 DEF Versions, Registered
  <2>8. /\ resets' \in Seq(Reset) /\ DOMAIN resets' = DOMAIN resets
        /\ \A l \in DOMAIN resets : resets'[l].user = resets[l].user
    BY <1>4, RetiredResets DEF EmailResets, TypeInv, Typed
  <2>9. /\ changes' \in Seq(Change) /\ DOMAIN changes' = DOMAIN changes
        /\ \A l \in DOMAIN changes : changes'[l].user = changes[l].user
    BY <1>4, RetiredChanges DEF TypeInv, Typed
  <2>10. OwnAddresses'
    BY <1>4, <2>2, <2>3, NewAddress
  <2> QED BY <1>1, <1>2, <2>3, <2>4, <2>5, <2>7, <2>8, <2>9, <2>10, VersionsType DEF TypeInv, Typed
<1> QED BY <1>3, <1>4 DEF complete_email_change

-----------------------------------------------------------------------------
(* The administrations                                                     *)

\* A column of a club is written.
LEMMA ClubTyped ==
    ASSUME TypeInv, NEW c \in Clubs
    PROVE  club \in [Clubs -> ClubRow] /\ club[c] \in ClubRow /\ club[c].teams \in Nat
<1>1. club \in [Clubs -> ClubRow] /\ club[c] \in ClubRow
  BY DEF TypeInv, Typed
<1> QED BY <1>1 DEF ClubRow

LEMMA StatusWritten ==
    ASSUME TypeInv, NEW c \in Clubs, NEW x \in {"active", "suspended"},
           club' = [club EXCEPT ![c].status = x]
    PROVE  club' \in [Clubs -> ClubRow]
BY ClubTyped DEF ClubRow

LEMMA LimitWritten ==
    ASSUME TypeInv, NEW c \in Clubs, NEW n \in 0..MaxLimit, club' = [club EXCEPT ![c].limit = n]
    PROVE  club' \in [Clubs -> ClubRow]
BY ClubTyped DEF ClubRow

LEMMA TeamsWritten ==
    ASSUME TypeInv, NEW c \in Clubs, NEW n \in Nat, club' = [club EXCEPT ![c].teams = n]
    PROVE  club' \in [Clubs -> ClubRow]
BY ClubTyped DEF ClubRow

\* The next version of an account.
LEMMA NextVersion ==
    ASSUME TypeInv, NEW u \in Users
    PROVE  user[u] \in UserRow /\ user[u].auth + 1 \in Nat
<1>1. user[u] \in UserRow
  BY DEF TypeInv, Typed
<1> QED BY <1>1 DEF UserRow

\* An account that was not there before.
LEMMA CreateStep ==
    ASSUME TypeInv, NEW u \in Users, ~Registered(u), NEW c \in Clubs, NEW isAdmin \in BOOLEAN,
           NEW a \in Addresses, ~Taken(a), club' \in [Clubs -> ClubRow], Counted,
           user' = [user EXCEPT ![u] = NewUser(c, isAdmin, a)],
           UNCHANGED <<cookie, request, resets, changes, era>>
    PROVE  TypeInv' /\ Versions
<1>1. NewUser(c, isAdmin, a) \in UserRow /\ NewUser(c, isAdmin, a).email = a
  BY Bounds DEF NewUser, UserRow
<1>2. /\ user' \in [Users -> UserRow] /\ user'[u].email = a
      /\ \A v \in Users \ {u} : user'[v] = user[v]
  BY <1>1 DEF TypeInv, Typed
<1>3. Versions
  BY <1>2 DEF Versions, Kept, Registered
<1>4. OwnAddresses'
  BY <1>2, NewAddress
<1>5. events' \in Nat
  BY DEF Counted, TypeInv, Typed
<1> QED BY <1>2, <1>3, <1>4, <1>5, VersionsType DEF TypeInv, Typed

LEMMA ClubStep ==
    ASSUME TypeInv, club' \in [Clubs -> ClubRow], events' \in Nat,
           request' \in [Browsers -> AtMostOne(Request)],
           \A b \in Browsers : Range(request'[b]) \subseteq Range(request[b]),
           UNCHANGED <<user, cookie, resets, changes, era>>
    PROVE  TypeInv' /\ Versions
<1>1. Versions
  BY DEF Versions, Kept, Registered
<1> QED BY <1>1, SameAddresses, VersionsType DEF TypeInv, Typed

LEMMA AdministrationStep ==
    ASSUME TypeInv, NEW b \in Browsers, Administration(b)
    PROVE  TypeInv' /\ Versions
<1>1. ASSUME NEW u \in Users, NEW isAdmin \in BOOLEAN, NEW a \in Addresses,
             create_user(b, u, isAdmin, a)
      PROVE  TypeInv' /\ Versions
  <2>1. user[Me(b)].club \in Clubs
    BY <1>1, ValidSession DEF create_user, Manages
  <2> QED BY <1>1, <2>1, CreateStep DEF create_user, Registered, TypeInv, Typed
<1>2. ASSUME NEW u \in Users, assign_user_role(b, u)
      PROVE  TypeInv' /\ Versions
  <2>1. /\ user' \in [Users -> UserRow] /\ events' \in Nat
        /\ \A v \in Users : /\ user'[v].club = user[v].club /\ user'[v].email = user[v].email
                            /\ user'[v].auth = user[v].auth
    <3> DEFINE row == [user[u] EXCEPT !.admin = ~@]
    <3>1. user' = [user EXCEPT ![u] = row]
      BY <1>2 DEF assign_user_role, TypeInv, Typed
    <3>2. /\ row \in UserRow /\ row.club = user[u].club /\ row.email = user[u].email
          /\ row.auth = user[u].auth
      BY NextVersion DEF UserRow
    <3>3. events' \in Nat
      BY <1>2 DEF assign_user_role, Counted, TypeInv, Typed
    <3> HIDE DEF row
    <3> QED BY <3>1, <3>2, <3>3 DEF TypeInv, Typed
  <2>2. UNCHANGED <<club, cookie, request, resets, changes, era>>
    BY <1>2 DEF assign_user_role
  <2>3. Versions
    BY <2>1, <2>2 DEF Versions, Kept, Registered
  <2> QED BY <2>1, <2>2, <2>3, SameAddresses, VersionsType DEF TypeInv, Typed
<1>3. CASE assert_resource_capacity(b)
  <2>1. club' \in [Clubs -> ClubRow]
    <3>1. PICK r \in InHand(b, "team") :
             club' = IF Capacity(r) THEN [club EXCEPT ![r.at].teams = @ + 1] ELSE club
      BY <1>3 DEF assert_resource_capacity
    <3>2. CASE r.at \in Clubs
      <4>1. club[r.at].teams + 1 \in Nat
        BY <3>2, ClubTyped
      <4>2. CASE club' = [club EXCEPT ![r.at].teams = club[r.at].teams + 1]
        BY <3>2, <4>1, <4>2, TeamsWritten
      <4>3. CASE UNCHANGED club
        BY <4>3 DEF TypeInv, Typed
      <4> QED BY <3>1, <4>2, <4>3
    <3>3. CASE r.at \notin Clubs
      <4>1. [club EXCEPT ![r.at].teams = @ + 1] = club
        BY <3>3 DEF TypeInv, Typed
      <4> QED BY <3>1, <4>1 DEF TypeInv, Typed
    <3> QED BY <3>2, <3>3
  <2>2. /\ request' \in [Browsers -> AtMostOne(Request)]
        /\ \A c \in Browsers : Range(request'[c]) \subseteq Range(request[c])
    BY <1>3, Emptied DEF assert_resource_capacity, Ends
  <2> QED BY <1>3, <2>1, <2>2, ClubStep DEF assert_resource_capacity, TypeInv, Typed
<1>4. CASE team_state(b)
  <2>1. club' \in [Clubs -> ClubRow]
    <3> DEFINE c == user[Me(b)].club
    <3>1. c \in Clubs /\ club' = [club EXCEPT ![c].teams = club[c].teams - 1] /\ club[c].teams > 0
      BY <1>4, ValidSession DEF team_state, Manages
    <3>2. club[c].teams - 1 \in Nat
      BY <3>1, ClubTyped
    <3> QED BY <3>1, <3>2, TeamsWritten
  <2> QED BY <1>4, <2>1, ClubStep DEF team_state, TypeInv, Typed
<1> QED BY <1>1, <1>2, <1>3, <1>4 DEF Administration

LEMMA StatusStep ==
    ASSUME TypeInv, NEW c \in Clubs, change_club_status(c)
    PROVE  TypeInv' /\ Versions
<1>1. /\ club' \in [Clubs -> ClubRow] /\ events' \in Nat
      /\ UNCHANGED <<cookie, request, resets, changes>>
  <2>1. \/ club' = [club EXCEPT ![c].status = "active"]
        \/ club' = [club EXCEPT ![c].status = "suspended"]
    BY DEF change_club_status
  <2>2. club' \in [Clubs -> ClubRow]
    BY <2>1, StatusWritten
  <2> QED BY <2>2 DEF change_club_status, Counted, TypeInv, Typed
<1>2. CASE UNCHANGED <<user, era>>
  BY <1>1, <1>2, ClubStep DEF TypeInv, Typed
<1>3. CASE user' = Dismissed(Members(c)) /\ SessionsOver(Members(c))
  <2>1. \A u \in Users : [user[u] EXCEPT !.auth = @ + 1] \in UserRow
    BY NextVersion DEF UserRow
  <2>2. /\ user' \in [Users -> UserRow]
        /\ \A u \in Users : /\ user'[u].club = user[u].club /\ user'[u].email = user[u].email
                            /\ user'[u].auth = IF u \in Members(c) THEN user[u].auth + 1
                                               ELSE user[u].auth
    BY <1>3, <2>1 DEF Dismissed, TypeInv, Typed, UserRow
  <2>3. /\ era' \in [Users -> Nat]
        /\ \A u \in Users : era'[u] = IF u \in Members(c) THEN era[u] + 1 ELSE era[u]
    BY <1>3 DEF SessionsOver, TypeInv, Typed
  <2>4. Versions
    BY <1>1, <2>2, <2>3 DEF Versions, Kept, Counts, Registered
  <2> QED BY <1>1, <2>2, <2>3, <2>4, SameAddresses, VersionsType DEF TypeInv, Typed
<1> QED BY <1>2, <1>3 DEF change_club_status

LEMMA MoveStep ==
    ASSUME TypeInv, NEW u \in Users, NEW c \in Clubs, move_user_to_club(u, c)
    PROVE  TypeInv' /\ Versions
<1>1. Registered(u) /\ user[u] \in UserRow /\ c # "none"
  BY AccountsAssumption DEF move_user_to_club, Registered, TypeInv, Typed
<1>2. /\ Moved(u, c) \in UserRow /\ Moved(u, c).club = c /\ Moved(u, c).email = user[u].email
      /\ Moved(u, c).auth = user[u].auth + 1
  BY <1>1, NextVersion DEF Moved, UserRow
<1>3. user' = [user EXCEPT ![u] = Moved(u, c)] /\ SessionsOver({u}) /\ Counted
  BY DEF move_user_to_club
<1>4. /\ user' \in [Users -> UserRow]
      /\ \A v \in Users : user'[v] = IF v = u THEN Moved(u, c) ELSE user[v]
  BY <1>2, <1>3 DEF TypeInv, Typed
<1>5. /\ era' \in [Users -> Nat] /\ events' \in Nat
      /\ \A v \in Users : era'[v] = IF v = u THEN era[v] + 1 ELSE era[v]
  BY <1>3 DEF SessionsOver, Counted, TypeInv, Typed
<1>6. UNCHANGED <<club, cookie, request, resets, changes>>
  BY DEF move_user_to_club
<1>7. Versions
  BY <1>1, <1>2, <1>4, <1>5, <1>6 DEF Versions, Kept, Counts, Registered
<1>8. OwnAddresses'
  BY <1>1, <1>2, <1>4, SameAddresses DEF Registered
<1> QED BY <1>4, <1>5, <1>6, <1>7, <1>8, VersionsType DEF TypeInv, Typed

LEMMA PlatformStep ==
    ASSUME TypeInv, Platform
    PROVE  TypeInv' /\ Versions
<1>1. ASSUME NEW c \in Clubs, NEW u \in Users, NEW a \in Addresses, NEW n \in 0..MaxLimit,
             create_club_with_admin(c, u, a, n)
      PROVE  TypeInv' /\ Versions
  <2>1. club' \in [Clubs -> ClubRow]
    BY <1>1 DEF create_club_with_admin, TypeInv, Typed, ClubRow
  <2> QED BY <1>1, <2>1, CreateStep DEF create_club_with_admin, Registered
<1>2. ASSUME NEW c \in Clubs, NEW n \in 0..MaxLimit, update_club_limits(c, n)
      PROVE  TypeInv' /\ Versions
  <2>1. club' \in [Clubs -> ClubRow] /\ events' \in Nat
    <3>1. club' = [club EXCEPT ![c].limit = n] /\ events' = events + 1
      BY <1>2 DEF update_club_limits, Counted
    <3>2. club' \in [Clubs -> ClubRow]
      BY <3>1, LimitWritten
    <3> QED BY <3>1, <3>2 DEF TypeInv, Typed
  <2> QED BY <1>2, <2>1, ClubStep DEF update_club_limits, TypeInv, Typed
<1> QED BY <1>1, <1>2, StatusStep, MoveStep DEF Platform

LEMMA TypeStep ==
    ASSUME TypeInv, [Next]_vars
    PROVE  TypeInv' /\ Versions
<1>1. ASSUME NEW b \in Browsers, Account(b)
      PROVE  TypeInv' /\ Versions
  BY <1>1, LoginStep, BrowserStep, ChangePasswordStep, ForgotStep, ResetStep, AskEmailStep,
    EmailStep
     DEF Account
<1>2. CASE UNCHANGED vars
  BY <1>2, ClubStep DEF vars, TypeInv, Typed
<1> QED BY <1>1, <1>2, AdministrationStep, LockStep, PlatformStep DEF Next

LEMMA TypeAlways == Spec => []TypeInv
<1>1. TypeInv /\ [Next]_vars => TypeInv'
  BY TypeStep
<1> QED BY <1>1, TypeInit, PTL DEF Spec

\* Accounts, clubs and browsers keep their types whatever requests overtake
\* each other; in particular an address is never given to two accounts.
THEOREM TypeCorrect == Spec => []TypeOK
<1>1. TypeInv => TypeOK
  <2> SUFFICES ASSUME TypeInv PROVE TypeOK
    OBVIOUS
  <2>1. \A b \in Browsers : Len(cookie[b]) <= 1 /\ Len(request[b]) <= 1
    <3>1. Len(<<>>) <= 1 /\ \A x : Len(<<x>>) <= 1
      OBVIOUS
    <3> QED BY <3>1 DEF TypeInv, Typed, AtMostOne
  <2> QED BY <2>1 DEF TypeInv, Typed, OwnAddresses, Registered, UserRow, ClubRow, TypeOK
<1> QED BY <1>1, TypeAlways, PTL

-----------------------------------------------------------------------------
(* Sessions and links that carry a version                                 *)

LEMMA RowVersion ==
    ASSUME NEW r \in Request
    PROVE  r.row \in UserRow /\ r.row.auth \in Nat
BY DEF Request, UserRow

\* What a request goes on with is no older than what is based on the account.
LEMMA WritesLater ==
    ASSUME TypeInv, NEW u \in Users, NEW auth \in Nat, NEW e, Based(u, auth, e),
           NEW b \in Browsers, NEW kind \in Writers, NEW r \in InHand(b, kind), r.user = u
    PROVE  r \in Request /\ auth <= r.row.auth
<1>1. kind \in Requests /\ kind # "team"
  BY DEF Writers, Requests
<1>2. r \in Request /\ r.kind = kind
  BY <1>1, InHandFits
<1>3. CASE r \in Range(request[b])
  BY <1>2, <1>3 DEF Based
<1>4. CASE r \in Possible(b, kind)
  BY <1>1, <1>2, <1>4, PossibleFits DEF Based
<1> QED BY <1>1, <1>2, <1>3, <1>4, InHandFits

\* A request that is new in a step has the account's version.
LEMMA NewRequests ==
    ASSUME TypeInv, Versions, NEW u \in Users, NEW b \in Browsers, NEW r \in Range(request'[b]),
           r \notin Range(request[b]), r.kind \in Writers, r.user = u
    PROVE  user' = user /\ r.row.auth = user[u].auth
<1>1. PICK kind \in Requests : r \in Possible(b, kind)
  BY DEF Versions
<1>2. r.kind = kind /\ r.row = user[u]
  BY <1>1, PossibleFits DEF Writers
<1> QED BY <1>2 DEF Versions

LEMMA BasedKept ==
    ASSUME TypeInv, Versions, NEW u \in Users, Registered(u), NEW auth \in Nat, NEW e,
           Based(u, auth, e)
    PROVE  /\ auth <= user'[u].auth
           /\ auth = user'[u].auth => e = era'[u]
           /\ \A b \in Browsers : \A r \in Range(request'[b]) :
                 r.kind \in Writers /\ r.user = u => auth <= r.row.auth
<1>1. user[u].auth \in Nat
  BY NextVersion DEF UserRow
<1>2. auth <= user[u].auth /\ (auth = user[u].auth => e = era[u])
  BY DEF Based
<1>3. ASSUME Kept(u)
      PROVE  auth <= user'[u].auth /\ (auth = user'[u].auth => e = era'[u])
  BY <1>2, <1>3 DEF Kept
<1>4. ASSUME Counts(u)
      PROVE  auth <= user'[u].auth /\ (auth = user'[u].auth => e = era'[u])
  BY <1>1, <1>2, <1>4 DEF Counts
<1>5. ASSUME Written(u)
      PROVE  auth <= user'[u].auth /\ (auth = user'[u].auth => e = era'[u])
  <2>1. PICK b \in Browsers, kind \in Writers : \E r \in InHand(b, kind) :
           r.user = u /\ user'[u].auth = r.row.auth + 1
    BY <1>5 DEF Written
  <2>2. PICK r \in InHand(b, kind) : r.user = u /\ user'[u].auth = r.row.auth + 1
    BY <2>1
  <2>3. auth <= r.row.auth /\ r.row.auth \in Nat
    BY <2>2, WritesLater, RowVersion
  <2> QED BY <2>2, <2>3
<1>6. auth <= user'[u].auth /\ (auth = user'[u].auth => e = era'[u])
  BY <1>3, <1>4, <1>5 DEF Versions
<1>7. ASSUME NEW b \in Browsers, NEW r \in Range(request'[b]), r.kind \in Writers, r.user = u
      PROVE  auth <= r.row.auth
  <2>1. CASE r \in Range(request[b])
    BY <1>7, <2>1 DEF Based
  <2>2. CASE r \notin Range(request[b])
    BY <1>2, <1>7, <2>2, NewRequests
  <2> QED BY <2>1, <2>2
<1> QED BY <1>6, <1>7

\* No request under way has read an older version than a session that is new.
LEMMA SessionsStep ==
    ASSUME "login" \notin Perils, TypeInv, SessionsBased, Versions
    PROVE  SessionsBased'
<1> SUFFICES ASSUME NEW b \in Browsers, cookie'[b] # <<>>
             PROVE  LET s == cookie'[b][1] IN
                    /\ s.auth <= user'[s.user].auth
                    /\ s.auth = user'[s.user].auth => s.era = era'[s.user]
                    /\ \A c \in Browsers : \A r \in Range(request'[c]) :
                          r.kind \in Writers /\ r.user = s.user => s.auth <= r.row.auth
  BY DEF SessionsBased, Based, Session
<1>1. CASE cookie'[b] = cookie[b]
  <2>1. cookie[b][1] \in Cookie
    BY <1>1, One DEF TypeInv, Typed
  <2>2. /\ cookie[b][1].user \in Users /\ cookie[b][1].auth \in Nat
        /\ Registered(cookie[b][1].user)
        /\ Based(cookie[b][1].user, cookie[b][1].auth, cookie[b][1].era)
    BY <1>1, <2>1 DEF Cookie, TypeInv, Linked, SessionsBased, Session
  <2> QED BY <1>1, <2>2, BasedKept
<1>2. CASE NewSession(b)
  <2> DEFINE s == cookie'[b][1]
  <2>1. /\ s.user \in Users /\ Alone(s.user) /\ Kept(s.user)
        /\ s.auth = user[s.user].auth /\ s.era = era[s.user]
    BY <1>2 DEF NewSession
  <2>2. user[s.user].auth \in Nat
    BY <2>1, NextVersion DEF UserRow
  <2>3. ASSUME NEW c \in Browsers, NEW r \in Range(request'[c]), r.kind \in Writers,
               r.user = s.user
        PROVE  s.auth <= r.row.auth
    <3>1. r \notin Range(request[c])
      BY <2>1, <2>3 DEF Alone
    <3> QED BY <2>1, <2>2, <2>3, <3>1, NewRequests
  <2> QED BY <2>1, <2>2, <2>3 DEF Kept
<1> QED BY <1>1, <1>2 DEF Versions

\* Links for a change of address are written for a valid session only.
NewLink(l) ==
    \E b \in Browsers :
        /\ Valid(b) /\ UNCHANGED <<user, era, request>>
        /\ changes'[l].user = Me(b) /\ changes'[l].auth = user[Me(b)].auth
        /\ changes'[l].era = era[Me(b)]

SameLink(l) ==
    /\ l \in DOMAIN changes
    /\ changes'[l].user = changes[l].user /\ changes'[l].auth = changes[l].auth
    /\ changes'[l].era = changes[l].era

LEMMA ChangesStep ==
    ASSUME TypeInv, [Next]_vars
    PROVE  \A l \in DOMAIN changes' : SameLink(l) \/ NewLink(l)
<1>1. CASE UNCHANGED changes
  BY <1>1 DEF SameLink
<1>2. ASSUME NEW b \in Browsers, NEW r, changes' = Retired(changes, r)
      PROVE  \A l \in DOMAIN changes' : SameLink(l)
  BY <1>2, RetiredChanges DEF SameLink, TypeInv, Typed
<1>3. ASSUME NEW b \in Browsers, NEW a \in Addresses, NEW delivered \in BOOLEAN,
             request_email_change(b, a, delivered)
      PROVE  \A l \in DOMAIN changes' : SameLink(l) \/ NewLink(l)
  <2> DEFINE x == [user |-> Me(b), old |-> user[Me(b)].email, new |-> a, auth |-> user[Me(b)].auth,
                   era |-> era[Me(b)], used |-> ~delivered]
             retired == Retired(changes, Me(b))
  <2>1. Me(b) \in Users /\ Valid(b) /\ UNCHANGED <<user, era, request>>
    BY <1>3, ValidSession DEF request_email_change
  <2>2. x \in Change
    BY <2>1, NextVersion DEF Change, UserRow, TypeInv, Typed
  <2>3. x.user = Me(b) /\ x.auth = user[Me(b)].auth /\ x.era = era[Me(b)]
    OBVIOUS
  <2>4. changes' = Append(retired, x)
    BY <1>3 DEF request_email_change
  <2> HIDE DEF x
  <2>5. /\ retired \in Seq(Change) /\ DOMAIN retired = DOMAIN changes
        /\ \A l \in DOMAIN changes : /\ retired[l].user = changes[l].user
                                     /\ retired[l].auth = changes[l].auth
                                     /\ retired[l].era = changes[l].era
    BY RetiredChanges DEF TypeInv, Typed
  <2> HIDE DEF retired
  <2>6. /\ \A l \in DOMAIN changes : changes'[l] = retired[l]
        /\ \A l \in DOMAIN changes' \ DOMAIN changes : changes'[l] = x
    BY <2>2, <2>4, <2>5, Appended
  <2> QED BY <2>1, <2>3, <2>5, <2>6 DEF SameLink, NewLink
<1>4. ASSUME NEW b \in Browsers, complete_email_change(b)
      PROVE  \A l \in DOMAIN changes' : SameLink(l)
  BY <1>1, <1>2, <1>4 DEF complete_email_change, SameLink
<1>5. CASE UNCHANGED vars
  BY <1>1, <1>5 DEF vars
<1>6. CASE Platform \/ \E u \in Users : LockExpires(u)
  BY <1>1, <1>6 DEF Platform, create_club_with_admin, change_club_status, update_club_limits,
                    move_user_to_club, LockExpires
<1>7. ASSUME NEW b \in Browsers, Administration(b)
      PROVE  UNCHANGED changes
  BY <1>7 DEF Administration, create_user, assign_user_role, assert_resource_capacity, team_state
<1>8. ASSUME NEW b \in Browsers, Account(b), UNCHANGED changes
      PROVE  \A l \in DOMAIN changes' : SameLink(l)
  BY <1>8 DEF SameLink
<1>9. ASSUME NEW b \in Browsers, Account(b)
      PROVE  \A l \in DOMAIN changes' : SameLink(l) \/ NewLink(l)
  BY <1>1, <1>3, <1>4, <1>9 DEF Account, authenticate, SessionCleared, RequestBegins,
    change_password,
                               request_password_reset, complete_password_reset
<1> QED BY <1>1, <1>5, <1>6, <1>7, <1>9 DEF Next

\* A link's version is the one of a valid session, which no request under way
\* has read an older version than.
LEMMA LinksStep ==
    ASSUME TypeInv, SessionsBased, LinksBased, Versions, [Next]_vars
    PROVE  LinksBased'
<1> SUFFICES ASSUME NEW l \in DOMAIN changes'
             PROVE  LET k == changes'[l] IN
                    /\ k.auth <= user'[k.user].auth
                    /\ k.auth = user'[k.user].auth => k.era = era'[k.user]
                    /\ \A c \in Browsers : \A r \in Range(request'[c]) :
                          r.kind \in Writers /\ r.user = k.user => k.auth <= r.row.auth
  BY DEF LinksBased, Based
<1>1. CASE SameLink(l)
  <2>1. changes[l] \in Change
    BY <1>1 DEF SameLink, TypeInv, Typed
  <2>2. /\ changes[l].user \in Users /\ changes[l].auth \in Nat /\ Registered(changes[l].user)
        /\ Based(changes[l].user, changes[l].auth, changes[l].era)
    BY <1>1, <2>1 DEF SameLink, Change, TypeInv, Linked, LinksBased
  <2> QED BY <1>1, <2>2, BasedKept DEF SameLink
<1>2. CASE NewLink(l)
  <2>1. PICK b \in Browsers :
           /\ Valid(b) /\ UNCHANGED <<user, era, request>>
           /\ changes'[l].user = Me(b) /\ changes'[l].auth = user[Me(b)].auth
           /\ changes'[l].era = era[Me(b)]
    BY <1>2 DEF NewLink
  <2>2. /\ Me(b) \in Users /\ user[Me(b)].auth = Session(b).auth
        /\ Based(Me(b), Session(b).auth, Session(b).era)
    BY <2>1, ValidSession DEF SessionsBased, Valid, Me
  <2>3. user[Me(b)].auth \in Nat
    BY <2>2, NextVersion DEF UserRow
  <2> QED BY <2>1, <2>2, <2>3 DEF Based
<1> QED BY <1>1, <1>2, ChangesStep

LEMMA BasedInit == Init => SessionsBased /\ LinksBased
BY DEF Init, SessionsBased, LinksBased

LEMMA BasedAlways ==
    ASSUME "login" \notin Perils
    PROVE  Spec => [](TypeInv /\ SessionsBased /\ LinksBased)
<1>1. TypeInv /\ SessionsBased /\ LinksBased /\ [Next]_vars
        => (TypeInv /\ SessionsBased /\ LinksBased)'
  BY TypeStep, SessionsStep, LinksStep
<1> QED BY <1>1, TypeInit, BasedInit, PTL DEF Spec

\* As long as a login waits for the account's requests under way, a session
\* ends with every event that must end it: also when two requests have read
\* the same version and write the same number, and when one that read an older
\* version writes a smaller number than the account had in the meantime.
THEOREM OldSessionsAreOver ==
    ASSUME "login" \notin Perils
    PROVE  Spec => []OldSessionsEnd
<1>1. TypeInv /\ SessionsBased => OldSessionsEnd
  BY DEF OldSessionsEnd, SessionsBased, Based, Valid, Me, Session
<1> QED BY <1>1, BasedAlways, PTL

-----------------------------------------------------------------------------
(* Links                                                                   *)

\* A link for a reset that was there, and one that is new.
OldReset(l) ==
    /\ l \in DOMAIN resets
    /\ resets'[l].user = resets[l].user /\ resets'[l].to = resets[l].to
    /\ ~resets'[l].used => ~resets[l].used
    /\ resets'[l].uses # resets[l].uses => ~resets[l].used

NewReset(l) ==
    /\ l \notin DOMAIN resets /\ UNCHANGED user
    /\ \E b \in Browsers : \E r \in InHand(b, "forgot") :
          resets'[l].user = r.user /\ resets'[l].to = r.row.email

ResetsFollow ==
    /\ DOMAIN resets \subseteq DOMAIN resets'
    /\ \A l \in DOMAIN resets' : OldReset(l) \/ NewReset(l)

LEMMA RetiredKeeps ==
    ASSUME TypeInv, NEW u, resets' = Retired(resets, u)
    PROVE  /\ ResetsFollow /\ \A l \in DOMAIN resets' : l \in DOMAIN resets
           /\ \A l \in DOMAIN resets' : resets[l].user = u => resets'[l].used
<1>1. /\ DOMAIN resets' = DOMAIN resets
      /\ \A l \in DOMAIN resets : /\ resets'[l].used = (resets[l].used \/ resets[l].user = u)
                                  /\ resets'[l].user = resets[l].user
                                  /\ resets'[l].to = resets[l].to
                                  /\ resets'[l].uses = resets[l].uses
  BY RetiredResets DEF TypeInv, Typed
<1>2. \A l \in DOMAIN resets : OldReset(l)
  BY <1>1 DEF OldReset
<1> QED BY <1>1, <1>2 DEF ResetsFollow

LEMMA ResetsStep ==
    ASSUME TypeInv, [Next]_vars
    PROVE  ResetsFollow
<1>1. CASE UNCHANGED resets
  BY <1>1 DEF ResetsFollow, OldReset
<1>2. ASSUME NEW b \in Browsers, NEW delivered \in BOOLEAN, request_password_reset(b, delivered)
      PROVE  ResetsFollow
  <2>1. PICK r \in InHand(b, "forgot") :
           resets' = Append(Retired(resets, r.user),
               [user |-> r.user, to |-> r.row.email, used |-> ~delivered, uses |-> 0])
    BY <1>2 DEF request_password_reset
  <2> DEFINE x == [user |-> r.user, to |-> r.row.email, used |-> ~delivered, uses |-> 0]
             retired == Retired(resets, r.user)
  <2>2. r \in Request /\ UNCHANGED user
    BY <1>2, InHandFits DEF Requests, request_password_reset
  <2>3. x \in Reset /\ x.user = r.user /\ x.to = r.row.email
    BY <2>2 DEF Request, UserRow, Reset
  <2>4. resets' = Append(retired, x)
    BY <2>1
  <2>5. /\ retired \in Seq(Reset) /\ DOMAIN retired = DOMAIN resets
        /\ \A l \in DOMAIN resets : /\ retired[l].user = resets[l].user
                                    /\ retired[l].to = resets[l].to
                                    /\ retired[l].uses = resets[l].uses
                                    /\ retired[l].used = (resets[l].used \/ resets[l].user = r.user)
    BY RetiredResets DEF TypeInv, Typed
  <2> HIDE DEF x, retired
  <2>6. /\ \A l \in DOMAIN resets : resets'[l] = retired[l]
        /\ \A l \in DOMAIN resets' \ DOMAIN resets : resets'[l] = x
    BY <2>3, <2>4, <2>5, Appended
  <2>7. \A l \in DOMAIN resets : OldReset(l)
    BY <2>5, <2>6 DEF OldReset
  <2>8. \A l \in DOMAIN resets' \ DOMAIN resets : NewReset(l)
    BY <2>2, <2>3, <2>6 DEF NewReset
  <2>9. DOMAIN resets \subseteq DOMAIN resets'
    BY <2>3, <2>4, <2>5, Appended
  <2> QED BY <2>7, <2>8, <2>9 DEF ResetsFollow
<1>3. ASSUME NEW b \in Browsers, complete_password_reset(b)
      PROVE  ResetsFollow
  <2>1. ASSUME NEW r \in InHand(b, "reset"), ~resets[r.link].used, resets' = ResetClaims(r.link)
        PROVE  ResetsFollow
    <3>1. r.link \in DOMAIN resets
      BY <2>1, InHandFits DEF Requests, RequestFits
    <3> QED BY ZenonT(40), <2>1, <3>1, ClaimedResets DEF ResetsFollow, OldReset
  <2> QED BY <1>1, <1>3, <2>1 DEF complete_password_reset, Claimable, ResetsFollow, OldReset
<1>4. ASSUME NEW b \in Browsers, complete_email_change(b)
      PROVE  ResetsFollow
  BY <1>4, RetiredKeeps DEF complete_email_change, EmailResets, ResetsFollow, OldReset
<1>5. CASE UNCHANGED vars
  BY <1>1, <1>5 DEF vars
<1>6. CASE Platform \/ \E u \in Users : LockExpires(u)
  BY <1>1, <1>6 DEF Platform, create_club_with_admin, change_club_status, update_club_limits,
                    move_user_to_club, LockExpires
<1>7. ASSUME NEW b \in Browsers, Administration(b)
      PROVE  UNCHANGED resets
  BY <1>7 DEF Administration, create_user, assign_user_role, assert_resource_capacity, team_state
<1>8. ASSUME NEW b \in Browsers, Account(b)
      PROVE  ResetsFollow
  BY <1>1, <1>2, <1>3, <1>4, <1>8 DEF Account, authenticate, SessionCleared, RequestBegins,
     change_password, request_email_change
<1> QED BY <1>1, <1>5, <1>6, <1>7, <1>8 DEF Next

\* No used or retired link for a reset sets a password, and none sets two,
\* whatever requests overtake each other: the claim is one conditional update.
THEOREM ResetLinksWorkOnce == Spec => LinkWorksOnce
<1>1. TypeInv /\ [Next]_vars =>
         [\A l \in DOMAIN resets : resets'[l].uses > resets[l].uses => ~resets[l].used]_vars
  <2> SUFFICES ASSUME TypeInv, [Next]_vars, NEW l \in DOMAIN resets,
    resets'[l].uses > resets[l].uses
               PROVE  ~resets[l].used
    OBVIOUS
  <2>1. resets[l] \in Reset /\ resets[l].uses \in Nat
    <3>1. resets[l] \in Reset
      BY DEF TypeInv, Typed
    <3> QED BY <3>1 DEF Reset
  <2> QED BY <2>1, ResetsStep DEF ResetsFollow, OldReset, NewReset
<1> QED BY <1>1, TypeAlways, PTL DEF Spec, LinkWorksOnce


LEMMA ChangeOfAddress ==
    ASSUME "email" \notin Perils, TypeInv, LinksBased, NEW u \in Users, Addressed(u)
    PROVE  \E l \in DOMAIN changes : /\ changes[l].user = u /\ ~changes[l].used
                                     /\ changes[l].new = user'[u].email /\ changes[l].era = era[u]
<1>1. PICK b \in Browsers : \E r \in InHand(b, "email") :
         /\ r.user = u /\ Bound(r.link, r.row) /\ ~changes[r.link].used
         /\ user'[u].email = changes[r.link].new
  BY DEF Addressed
<1>2. PICK r \in InHand(b, "email") :
         /\ r.user = u /\ Bound(r.link, r.row) /\ ~changes[r.link].used
         /\ user'[u].email = changes[r.link].new
  BY <1>1
<1>3. "email" \in Requests /\ "email" \notin Slow
  BY DEF Requests, Slow
<1>4. r \in Possible(b, "email") /\ RequestFits(r) /\ r.kind = "email"
  BY <1>3, InHandFits
<1>5. r.link \in DOMAIN changes /\ changes[r.link].user = u /\ r.row = user[u]
  BY <1>2, <1>3, <1>4, PossibleFits DEF RequestFits
<1>6. changes[r.link].auth = user[u].auth
  BY <1>2, <1>5 DEF Bound
<1>7. changes[r.link].era = era[u]
  BY <1>5, <1>6 DEF LinksBased, Based
<1> QED BY <1>2, <1>5, <1>7

\* A link for a change of address follows what its session was based on: it
\* works only if nothing that ends the account's sessions has happened since,
\* as long as the request that follows it is not overtaken itself.
THEOREM LinksAreBound ==
    ASSUME "login" \notin Perils, "email" \notin Perils
    PROVE  Spec => LinksBind
<1>1. TypeInv /\ LinksBased /\ [Next]_vars =>
         [\A u \in Users : user[u].club # "none" /\ user'[u].email # user[u].email =>
            \E l \in DOMAIN changes : /\ changes[l].user = u /\ ~changes[l].used
                                      /\ changes[l].new = user'[u].email /\ changes[l].era = era[u]]_vars
  BY TypeStep, ChangeOfAddress DEF Versions, Registered
<1>2. Spec => ChangeKeepsItsBasis
  BY <1>1, BasedAlways, PTL DEF Spec, ChangeKeepsItsBasis
<1> QED BY <1>2, ResetLinksWorkOnce DEF LinksBind

LEMMA HomeStep ==
    ASSUME "forgot" \notin Perils, TypeInv, ResetGoesHome, Versions, ResetsFollow
    PROVE  ResetGoesHome'
<1> SUFFICES ASSUME NEW l \in DOMAIN resets', ~resets'[l].used
             PROVE  resets'[l].to = user'[resets'[l].user].email
  BY DEF ResetGoesHome
<1>1. CASE OldReset(l)
  <2> DEFINE u == resets[l].user
  <2>1. u \in Users /\ Registered(u)
    <3>1. resets[l] \in Reset
      BY <1>1 DEF OldReset, TypeInv, Typed
    <3> QED BY <1>1, <3>1 DEF OldReset, TypeInv, Linked, Reset
  <2>2. ~Addressed(u)
    BY <1>1, RetiredKeeps DEF Addressed
  <2>3. user'[u].email = user[u].email
    BY <2>1, <2>2 DEF Versions
  <2> QED BY <1>1, <2>3 DEF OldReset, ResetGoesHome
<1>2. CASE NewReset(l)
  <2>1. PICK b \in Browsers : \E r \in InHand(b, "forgot") :
           resets'[l].user = r.user /\ resets'[l].to = r.row.email
    BY <1>2 DEF NewReset
  <2>2. PICK r \in InHand(b, "forgot") : resets'[l].user = r.user /\ resets'[l].to = r.row.email
    BY <2>1
  <2>3. "forgot" \in Requests /\ "forgot" \notin Slow
    BY DEF Requests, Slow
  <2>4. r.row = user[r.user]
    BY <2>3, InHandFits, PossibleFits
  <2> QED BY <1>2, <2>2, <2>4 DEF NewReset
<1> QED BY <1>1, <1>2 DEF ResetsFollow

\* A link for a reset that works was sent to the address the account has, as
\* long as the request for it is not overtaken by a change of the address.
THEOREM ResetsGoHome ==
    ASSUME "forgot" \notin Perils
    PROVE  Spec => []ResetGoesHome
<1>1. Init => ResetGoesHome
  BY DEF Init, ResetGoesHome
<1>2. TypeInv /\ ResetGoesHome /\ [Next]_vars => ResetGoesHome'
  BY TypeStep, ResetsStep, HomeStep
<1> QED BY <1>1, <1>2, TypeAlways, PTL DEF Spec

-----------------------------------------------------------------------------
(* Team limits                                                             *)

\* What a step does to clubs: those that a request for a team has read are
\* left alone but for the number of teams, which grows only by such a request.
ClubKept(c) == club'[c].status = club[c].status /\ club'[c].limit = club[c].limit

TeamAdded(c) ==
    \E b \in Browsers : \E r \in InHand(b, "team") :
        r.at = c /\ Capacity(r) /\ club' = [club EXCEPT ![c].teams = @ + 1]

ClubsFollow ==
    \A c \in Clubs :
        /\ ClubKept(c) \/ club[c] = NoClub \/ (ClubQuiet(c) /\ UNCHANGED request)
        /\ club'[c].teams <= club[c].teams \/ TeamAdded(c)

\* A step that leaves the clubs alone, and one that writes a column of a club.
LEMMA ClubsSame == ASSUME TypeInv, UNCHANGED club PROVE ClubsFollow
<1>1. \A c \in Clubs : club'[c].teams <= club[c].teams
  BY ClubTyped
<1> QED BY <1>1 DEF ClubsFollow, ClubKept

LEMMA OtherColumn ==
    ASSUME TypeInv, NEW d \in Clubs, NEW row, club' = [club EXCEPT ![d] = row],
           row.teams = club[d].teams, ClubQuiet(d), UNCHANGED request
    PROVE  ClubsFollow
<1>1. \A c \in Clubs : club'[c].teams = club[c].teams /\ club[c].teams \in Nat
                       /\ (c # d => club'[c] = club[c])
  BY ClubTyped
<1>2. \A c \in Clubs : club'[c].teams <= club[c].teams
  BY <1>1
<1> QED BY <1>1, <1>2 DEF ClubsFollow, ClubKept

LEMMA ClubsStep ==
    ASSUME TypeInv, [Next]_vars
    PROVE  ClubsFollow
<1>1. ASSUME NEW b \in Browsers, Account(b)
      PROVE  UNCHANGED club
  BY <1>1 DEF Account, authenticate, SessionCleared, RequestBegins, change_password,
     request_password_reset, complete_password_reset, request_email_change, complete_email_change
<1>2. ASSUME NEW b \in Browsers, assert_resource_capacity(b)
      PROVE  ClubsFollow
  <2>1. PICK r \in InHand(b, "team") :
           club' = IF Capacity(r) THEN [club EXCEPT ![r.at].teams = @ + 1] ELSE club
    BY <1>2 DEF assert_resource_capacity
  <2>2. CASE ~Capacity(r)
    BY <2>1, <2>2, ClubsSame
  <2>3. CASE Capacity(r)
    <3>1. club' = [club EXCEPT ![r.at].teams = club[r.at].teams + 1]
      BY <2>1, <2>3
    <3>2. \A c \in Clubs : ClubKept(c) /\ (c # r.at => club'[c] = club[c])
      BY <3>1, ClubTyped DEF ClubKept, ClubRow
    <3>3. \A c \in Clubs : c = r.at => TeamAdded(c)
      BY <2>1, <2>3 DEF TeamAdded
    <3>4. \A c \in Clubs : c # r.at => club'[c].teams <= club[c].teams
      BY <3>2, ClubTyped
    <3> QED BY <3>2, <3>3, <3>4 DEF ClubsFollow
  <2> QED BY <2>2, <2>3
<1>3. ASSUME NEW b \in Browsers, team_state(b)
      PROVE  ClubsFollow
  <2> DEFINE d == user[Me(b)].club
  <2>1. d \in Clubs /\ club' = [club EXCEPT ![d].teams = club[d].teams - 1] /\ club[d].teams > 0
    BY <1>3, ValidSession DEF team_state, Manages
  <2> HIDE DEF d
  <2>2. \A c \in Clubs : ClubKept(c) /\ (c # d => club'[c] = club[c])
    BY <2>1, ClubTyped DEF ClubKept, ClubRow
  <2>3. club'[d].teams = club[d].teams - 1 /\ club[d].teams \in Nat
    BY <2>1, ClubTyped DEF ClubRow
  <2>4. \A c \in Clubs : club'[c].teams <= club[c].teams
    BY <2>2, <2>3, ClubTyped
  <2> QED BY <2>2, <2>4 DEF ClubsFollow
<1>4. ASSUME NEW b \in Browsers, Administration(b)
      PROVE  ClubsFollow
  BY <1>2, <1>3, <1>4, ClubsSame DEF Administration, create_user, assign_user_role
<1>5. ASSUME NEW d \in Clubs, NEW u \in Users, NEW a \in Addresses, NEW n \in 0..MaxLimit,
             create_club_with_admin(d, u, a, n)
      PROVE  ClubsFollow
  <2>1. club[d] = NoClub /\ club' = [club EXCEPT ![d] = [status |-> "active", limit |-> n, teams |-> 0]]
    BY <1>5 DEF create_club_with_admin
  <2>2. \A c \in Clubs : c # d => club'[c] = club[c]
    BY <2>1, ClubTyped
  <2>3. \A c \in Clubs : club'[c].teams = club[c].teams
    BY <2>1, <2>2, ClubTyped DEF NoClub
  <2>4. \A c \in Clubs : club'[c].teams <= club[c].teams
    BY <2>3, ClubTyped
  <2> QED BY <2>1, <2>2, <2>4 DEF ClubsFollow, ClubKept
<1>6. ASSUME NEW d \in Clubs, change_club_status(d)
      PROVE  ClubsFollow
  <2>1. PICK x \in {"active", "suspended"} : club' = [club EXCEPT ![d].status = x]
    BY <1>6 DEF change_club_status
  <2>2. club' = [club EXCEPT ![d] = [club[d] EXCEPT !.status = x]]
    BY <2>1, ClubTyped
  <2>3. [club[d] EXCEPT !.status = x].teams = club[d].teams
    BY ClubTyped DEF ClubRow
  <2> QED BY <1>6, <2>2, <2>3, OtherColumn DEF change_club_status
<1>7. ASSUME NEW d \in Clubs, NEW n \in 0..MaxLimit, update_club_limits(d, n)
      PROVE  ClubsFollow
  <2>1. club' = [club EXCEPT ![d] = [club[d] EXCEPT !.limit = n]]
    BY <1>7, ClubTyped DEF update_club_limits
  <2>2. [club[d] EXCEPT !.limit = n].teams = club[d].teams
    BY ClubTyped DEF ClubRow
  <2> QED BY <1>7, <2>1, <2>2, OtherColumn DEF update_club_limits
<1>8. CASE Platform
  BY <1>5, <1>6, <1>7, <1>8, ClubsSame DEF Platform, move_user_to_club
<1>9. CASE UNCHANGED vars \/ \E u \in Users : LockExpires(u)
  BY <1>9, ClubsSame DEF vars, LockExpires
<1> QED BY <1>1, <1>4, <1>8, <1>9, ClubsSame DEF Next

LEMMA CopiesStep ==
    ASSUME "club" \notin Perils, TypeInv, CopiesTrue, Versions, ClubsFollow
    PROVE  CopiesTrue'
<1> SUFFICES ASSUME NEW b \in Browsers, NEW r \in Range(request'[b]), r.kind = "team"
             PROVE  /\ r.at \in Clubs
                    /\ club'[r.at].status = "active" /\ r.copy.status = "active"
                    /\ r.copy.limit = club'[r.at].limit
  BY DEF CopiesTrue
<1>1. /\ r.at \in Clubs /\ club[r.at].status = "active" /\ r.copy.status = "active"
      /\ r.copy.limit = club[r.at].limit
  <2>1. CASE r \in Range(request[b])
    BY <2>1 DEF CopiesTrue
  <2>2. CASE r \notin Range(request[b])
    <3>1. PICK kind \in Requests : r \in Possible(b, kind)
      BY <2>2 DEF Versions
    <3> QED BY <3>1, PossibleFits DEF Open
  <2> QED BY <2>1, <2>2
<1>2. club[r.at] # NoClub
  BY <1>1 DEF NoClub
<1>3. ~(ClubQuiet(r.at) /\ UNCHANGED request)
  BY DEF ClubQuiet
<1> QED BY <1>1, <1>2, <1>3 DEF ClubsFollow, ClubKept

\* A request for a team goes on with a copy of the club's row, but counts the
\* teams under the lock: a team becomes active only while the club works and
\* within the limit, as long as the platform's administration waits for it.
THEOREM TeamsWithinLimit ==
    ASSUME "club" \notin Perils
    PROVE  Spec => WithinTeamLimit
<1>1. Init => CopiesTrue
  BY RangeOfNone DEF Init, CopiesTrue
<1>2. TypeInv /\ CopiesTrue /\ [Next]_vars => CopiesTrue'
  BY TypeStep, ClubsStep, CopiesStep
<1>3. Spec => []CopiesTrue
  BY <1>1, <1>2, TypeAlways, PTL DEF Spec
<1>4. ASSUME TypeInv, CopiesTrue, NEW c \in Clubs, TeamAdded(c)
      PROVE  Open(club[c]) /\ club'[c].teams <= club[c].limit
  <2>1. PICK b \in Browsers : \E r \in InHand(b, "team") :
           r.at = c /\ Capacity(r) /\ club' = [club EXCEPT ![c].teams = @ + 1]
    BY <1>4 DEF TeamAdded
  <2>2. PICK r \in InHand(b, "team") :
           r.at = c /\ Capacity(r) /\ club' = [club EXCEPT ![c].teams = @ + 1]
    BY <2>1
  <2>3. r \in Range(request[b]) /\ r.kind = "team"
    BY DEF InHand, Slow
  <2>4. club[c].status = "active" /\ r.copy.limit = club[c].limit
    BY <1>4, <2>2, <2>3 DEF CopiesTrue
  <2>5. club'[c].teams = club[c].teams + 1
    BY <1>4, <2>2, ClubTyped DEF ClubRow
  <2> QED BY <2>2, <2>4, <2>5 DEF Capacity, Open
<1>5. TypeInv /\ CopiesTrue /\ [Next]_vars =>
         [\A c \in Clubs : club'[c].teams > club[c].teams =>
            Open(club[c]) /\ club'[c].teams <= club[c].limit]_vars
  <2> SUFFICES ASSUME TypeInv, CopiesTrue, [Next]_vars, NEW c \in Clubs,
                      club'[c].teams > club[c].teams
               PROVE  Open(club[c]) /\ club'[c].teams <= club[c].limit
    OBVIOUS
  <2>1. club[c].teams \in Nat /\ club'[c].teams \in Nat
    BY TypeStep, ClubTyped DEF TypeInv, Typed, ClubRow
  <2> QED BY <1>4, <2>1, ClubsStep DEF ClubsFollow
<1> QED BY <1>3, <1>5, TypeAlways, PTL DEF Spec, WithinTeamLimit

-----------------------------------------------------------------------------
(* Part two: PostReview                                                    *)
(*                                                                         *)
(* An approval decides on the job it read and reschedules it when it was   *)
(* open.  What the proof says is why that job has not been published since *)
(* the approval read it: while it is open, whatever is on its way to the   *)
(* publisher was approved for an older version of the post and does not    *)
(* pass the worker's checks.                                               *)
(*                                                                         *)
(* What an approval binds is the text and the file of the jobs it read.    *)
(* That these are still the ones shown when the job goes out is because    *)
(* texts and files never change without another version of the post,       *)
(* whose approvals are the only ones that pass.                            *)

(***************************************************************************)
(* What an order does to the rows                                          *)
(***************************************************************************)
\* Two rows of a job with the same decisions: only text and file may differ.
Alike(x, y) ==
    /\ y.status = x.status /\ y.approvedVersion = x.approvedVersion
    /\ y.attempts = x.attempts /\ y.platform = x.platform

\* Row y is as x was, or has to be approved again.
Loosened(x, y) ==
    /\ y.status \in {x.status, "unapproved"} /\ y.approvedVersion \in {x.approvedVersion, 0}
    /\ y.attempts = x.attempts /\ y.platform = x.platform

\* w keeps the version and the decisions of v.
Keeps(v, w) ==
    /\ w \in View /\ w.post.version = v.post.version
    /\ \A k \in Jobs : Alike(v.job[k], w.job[k])

\* w is the next version of the post, for which jobs may have to be approved again.
Revised(v, w) ==
    /\ w \in View /\ w.post.version = v.post.version + 1
    /\ \A k \in Jobs : Loosened(v.job[k], w.job[k])

LEMMA KeepsTrans ==
    ASSUME NEW u, NEW v, NEW w, Keeps(u, v), Keeps(v, w) PROVE Keeps(u, w)
BY DEF Keeps, Alike

LEMMA RevisedKeeps ==
    ASSUME NEW u, NEW v, NEW w, Revised(u, v), Keeps(v, w) PROVE Revised(u, w)
BY DEF Keeps, Revised, Alike, Loosened

LEMMA KeepsRevised ==
    ASSUME NEW u, NEW v, NEW w, Keeps(u, v), Revised(v, w) PROVE Revised(u, w)
BY DEF Keeps, Revised, Alike, Loosened

LEMMA ViewTypes ==
    ASSUME NEW v \in View
    PROVE  /\ v.post \in Post /\ v.job \in [Jobs -> Job] /\ v.slot \in [Slots -> Slot]
           /\ \A j \in Jobs : v.job[j] \in Job
           /\ \A s \in Slots : v.slot[s] \in Slot
           /\ v.shelf \in [Slots -> SUBSET Paths] /\ v.texts \subseteq Texts
BY DEF View

LEMMA WithPostTypes ==
    ASSUME NEW v \in View, NEW p \in Post
    PROVE  /\ WithPost(v, p) \in View
           /\ WithPost(v, p).post = p /\ WithPost(v, p).job = v.job /\ WithPost(v, p).slot = v.slot
           /\ WithPost(v, p).shelf = v.shelf /\ WithPost(v, p).texts = v.texts
BY DEF WithPost, View

LEMMA WithJobTypes ==
    ASSUME NEW v \in View, NEW j \in Jobs, NEW x \in Job
    PROVE  /\ WithJob(v, j, x) \in View
           /\ WithJob(v, j, x).post = v.post /\ WithJob(v, j, x).slot = v.slot
           /\ WithJob(v, j, x).shelf = v.shelf /\ WithJob(v, j, x).texts = v.texts
           /\ WithJob(v, j, x).job = [v.job EXCEPT ![j] = x]
BY DEF WithJob, View

LEMMA WithSlotTypes ==
    ASSUME NEW v \in View, NEW s \in Slots, NEW x \in Slot
    PROVE  /\ WithSlot(v, s, x) \in View
           /\ WithSlot(v, s, x).post = v.post /\ WithSlot(v, s, x).job = v.job
           /\ WithSlot(v, s, x).shelf = v.shelf /\ WithSlot(v, s, x).texts = v.texts
           /\ WithSlot(v, s, x).slot = [v.slot EXCEPT ![s] = x]
BY DEF WithSlot, View

\* Another text or file for a job.
LEMMA OtherContent ==
    ASSUME NEW x \in Job, NEW p \in Paths, NEW t \in Texts
    PROVE  /\ [x EXCEPT !.path = p] \in Job /\ [x EXCEPT !.text = t] \in Job
           /\ Alike(x, [x EXCEPT !.path = p]) /\ Alike(x, [x EXCEPT !.text = t])
BY DEF Job, Alike

LEMMA OtherFile ==
    ASSUME NEW x \in Job, NEW p \in Paths
    PROVE  [x EXCEPT !.path = p] \in Job /\ Alike(x, [x EXCEPT !.path = p])
BY DEF Job, Alike

LEMMA EnsureTextKeeps ==
    ASSUME NEW v \in View
    PROVE  /\ Keeps(v, ensure_text_version(v))
           /\ ensure_text_version(v).job = v.job
BY ZenonT(40) DEF Keeps, Alike, ensure_text_version, View, Post

LEMMA RegisterKeeps ==
    ASSUME NEW v \in View, NEW s \in Slots, NEW p \in Paths
    PROVE  LET w == register_media_version(v, s, p)
           IN w \in View /\ w.post = v.post /\ w.job = v.job
<1> DEFINE x == [v.slot[s] EXCEPT !.latest = p, !.sel = IF v.slot[s].mode = "auto" THEN p ELSE @]
<1> DEFINE u == WithSlot(v, s, x)
<1>1. x \in Slot
  BY ViewTypes, ZenonT(40) DEF Slot
<1>2. u \in View /\ u.post = v.post /\ u.job = v.job
  BY <1>1, WithSlotTypes, ZenonT(40)
<1> HIDE DEF u
<1>3. LET w == [u EXCEPT !.shelf[s] = @ \cup {p}]
      IN w \in View /\ w.post = u.post /\ w.job = u.job
  BY <1>2 DEF View
<1> QED
  BY <1>2, <1>3 DEF register_media_version, u

LEMMA SlotOfType ==
    ASSUME ReviewAssumption, NEW v, NEW j \in Jobs PROVE SlotOf(v, j) \in Slots
<1>1. CASE \E s \in Slots : v.post.current[s] = v.job[j].path
  <2> DEFINE P(s) == v.post.current[s] = v.job[j].path
  <2>1. (CHOOSE s \in Slots : P(s)) \in Slots
    BY <1>1
  <2> QED
    BY <1>1, <2>1 DEF SlotOf
<1>2. CASE ~\E s \in Slots : v.post.current[s] = v.job[j].path
  BY <1>2 DEF SlotOf, ReviewAssumption
<1> QED
  BY <1>1, <1>2

LEMMA RegisterCurrentKeeps ==
    ASSUME NEW v \in View
    PROVE  Keeps(v, RegisterCurrent(v)) /\ RegisterCurrent(v).job = v.job
<1> DEFINE S == [s \in Slots |-> register_media_version(v, s, v.post.current[s]).shelf[s]]
<1> DEFINE L == [s \in Slots |-> register_media_version(v, s, v.post.current[s]).slot[s]]
<1>1. \A s \in Slots : register_media_version(v, s, v.post.current[s]) \in View
  BY RegisterKeeps, ViewTypes DEF Post
<1>2. S \in [Slots -> SUBSET Paths] /\ L \in [Slots -> Slot]
  BY <1>1, ViewTypes
<1> HIDE DEF S, L
<1>3. [v EXCEPT !.shelf = S, !.slot = L] \in View
  BY <1>2 DEF View
<1>4. LET w == [v EXCEPT !.shelf = S, !.slot = L] IN w.post = v.post /\ w.job = v.job
  BY DEF View
<1> QED
  BY <1>3, <1>4 DEF RegisterCurrent, Keeps, Alike, S, L

LEMMA SyncJobKeeps ==
    ASSUME ReviewAssumption, NEW v \in View, NEW j \in Jobs PROVE Keeps(v, SyncJob(v, j))
<1> DEFINE s == SlotOf(v, j)
<1> DEFINE w == register_media_version(v, s, v.job[j].path)
<1>1. s \in Slots
  BY SlotOfType
<1>2. w \in View /\ w.post = v.post /\ w.job = v.job
  BY <1>1, RegisterKeeps, ViewTypes DEF Job
<1> HIDE DEF w
<1>3. w.slot[s].sel \in Paths /\ w.job[j] \in Job
  BY <1>1, <1>2, ViewTypes DEF Slot
<1> DEFINE x == [w.job[j] EXCEPT !.path = w.slot[s].sel]
<1>4. x \in Job /\ Alike(v.job[j], x)
  BY <1>2, <1>3 DEF Job, Alike
<1> HIDE DEF x
<1>5. Keeps(v, WithJob(w, j, x))
  <2> DEFINE u == WithJob(w, j, x)
  <2>1. u \in View /\ u.post = v.post /\ u.job = [v.job EXCEPT ![j] = x]
    BY <1>2, <1>4, WithJobTypes
  <2> HIDE DEF u
  <2> QED
    BY <1>4, <2>1, ViewTypes DEF Keeps, Alike, u
<1>6. Keeps(v, w)
  BY <1>2 DEF Keeps, Alike
<1> QED
  BY <1>5, <1>6 DEF SyncJob, w, x

LEMMA SynchronizeKeeps ==
    ASSUME ReviewAssumption, NEW v \in View PROVE Keeps(v, synchronize_post_versions(v))
<1> DEFINE a == ensure_text_version(v)
<1> DEFINE b == RegisterCurrent(a)
<1> DEFINE c == SyncJob(b, "feed")
<1>1. Keeps(v, a) /\ a \in View
  BY EnsureTextKeeps DEF Keeps
<1>2. Keeps(a, b) /\ b \in View
  BY <1>1, RegisterCurrentKeeps DEF Keeps
<1>3. Keeps(b, c) /\ c \in View
  BY <1>2, SyncJobKeeps DEF Keeps, Jobs
<1>4. Keeps(c, SyncJob(c, "story"))
  BY <1>3, SyncJobKeeps DEF Jobs
<1> QED
  BY <1>1, <1>2, <1>3, <1>4, KeepsTrans DEF synchronize_post_versions

LEMMA FreezeKeeps ==
    ASSUME ReviewAssumption, NEW v \in View, NEW J \in SUBSET Jobs
    PROVE  Keeps(v, freeze_publication_versions(v, J))
<1> DEFINE w == synchronize_post_versions(v)
<1> DEFINE F(x) == [x EXCEPT !.text = w.post.tsel]
<1>1. Keeps(v, w) /\ w \in View /\ w.post.tsel \in Texts
  BY SynchronizeKeeps, ViewTypes DEF Keeps, Post
<1> HIDE DEF w
<1>2. \A k \in Jobs : F(w.job[k]) \in Job /\ Alike(w.job[k], F(w.job[k]))
  BY <1>1, OtherContent, ViewTypes DEF Job
<1> HIDE DEF F
<1>3. Keeps(w, WithJobs(w, J \cap Unpublished(w), F))
  <2> DEFINE G == [k \in Jobs |-> IF k \in J \cap Unpublished(w) THEN F(w.job[k]) ELSE w.job[k]]
  <2>1. G \in [Jobs -> Job]
    BY <1>1, <1>2, ViewTypes
  <2>2. \A k \in Jobs : Alike(w.job[k], G[k])
    BY <1>2 DEF Alike
  <2> HIDE DEF G
  <2>3. Keeps(w, [w EXCEPT !.job = G])
    BY <1>1, <2>1, <2>2 DEF Keeps, View
  <2> QED
    BY <2>3 DEF WithJobs, G
<1> QED
  BY <1>1, <1>3, KeepsTrans DEF freeze_publication_versions, w, F

\* New rows of the jobs under the next version.
LEMMA RevisedJobs ==
    ASSUME NEW v \in View, NEW u \in View, u.post.version = v.post.version + 1,
           NEW G \in [Jobs -> Job], \A k \in Jobs : Loosened(v.job[k], G[k])
    PROVE  Revised(v, [u EXCEPT !.job = G])
BY DEF Revised, View

LEMMA InvalidatedPost ==
    ASSUME NEW p \in Post
    PROVE  /\ invalidate_post_approval(p) \in Post
           /\ invalidate_post_approval(p).version = p.version + 1
<1> DEFINE st == IF p.status \in Released THEN "reapproval" ELSE p.status
<1> DEFINE n == p.version + 1
<1>1. st \in PostStatus /\ n \in Nat
  BY DEF PostStatus, Post
<1> HIDE DEF st, n
<1>2. /\ [p EXCEPT !.version = n, !.approved = 0, !.status = st] \in Post
      /\ [p EXCEPT !.version = n, !.approved = 0, !.status = st].version = n
  BY <1>1 DEF Post
<1> QED
  BY <1>2 DEF invalidate_post_approval, st, n

LEMMA MarkedJob ==
    ASSUME NEW x \in Job
    PROVE  /\ mark_publication_for_reapproval(x) \in Job
           /\ mark_publication_for_reapproval(x).status = "unapproved"
           /\ mark_publication_for_reapproval(x).approvedVersion = 0
           /\ mark_publication_for_reapproval(x).attempts = x.attempts
           /\ mark_publication_for_reapproval(x).platform = x.platform
BY DEF mark_publication_for_reapproval, Job, JobStatus

LEMMA MarkedJobs ==
    ASSUME NEW v \in View, NEW u, Revised(v, u), NEW J \in SUBSET Jobs
    PROVE  Revised(v, WithJobs(u, J, mark_publication_for_reapproval))
<1> DEFINE G == [k \in Jobs |-> IF k \in J THEN mark_publication_for_reapproval(u.job[k]) ELSE u.job[k]]
<1>1. u \in View /\ u.post.version = v.post.version + 1
  BY DEF Revised
<1>2. G \in [Jobs -> Job]
  BY <1>1, ViewTypes, MarkedJob
<1>3. \A k \in Jobs : Loosened(v.job[k], G[k])
  BY <1>1, ViewTypes, MarkedJob DEF Revised, Loosened
<1> HIDE DEF G
<1>4. Revised(v, [u EXCEPT !.job = G])
  BY <1>1, <1>2, <1>3, RevisedJobs
<1> QED
  BY <1>4 DEF WithJobs, G

LEMMA ChosenTypes ==
    ASSUME NEW m \in {"auto", "manual"}
    PROVE  /\ \A y \in Slot, p \in Paths : [y EXCEPT !.mode = m, !.sel = p] \in Slot
           /\ \A p \in Post, t \in Texts :
                LET q == [p EXCEPT !.tmode = m, !.tsel = t, !.text = t]
                IN q \in Post /\ q.version = p.version
BY Zenon DEF Slot, Post

\* The next version of the post, all else as it was.
LEMMA NextPostVersion ==
    ASSUME NEW v \in View, NEW u \in View, NEW p \in Post, u.job = v.job,
           p.version = v.post.version + 1
    PROVE  Revised(v, WithPost(u, p))
BY WithPostTypes DEF Revised, Loosened

LEMMA ChooseMediaShape ==
    ASSUME ReviewAssumption, NEW v \in View, NEW s \in Slots, NEW m \in {"auto", "manual"},
           NEW p \in Paths
    PROVE  Keeps(v, ChooseMedia(v, s, m, p)) \/ Revised(v, ChooseMedia(v, s, m, p))
<1>1. CASE v.slot[s].mode = m /\ v.slot[s].sel = p
  BY <1>1 DEF ChooseMedia, Keeps, Alike
<1>2. CASE ~(v.slot[s].mode = m /\ v.slot[s].sel = p)
  <2> DEFINE q == WithPost(v, invalidate_post_approval(v.post))
  <2> DEFINE x == [v.slot[s] EXCEPT !.mode = m, !.sel = p]
  <2> DEFINE c == WithSlot(q, s, x)
  <2> DEFINE w == WithJobs(c, EditableJobs(v), mark_publication_for_reapproval)
  <2>1. q \in View /\ Revised(v, q)
    BY InvalidatedPost, NextPostVersion, ViewTypes DEF Revised
  <2>2. x \in Slot
    BY ViewTypes, ChosenTypes, Zenon
  <2> HIDE DEF q, x
  <2>3. Revised(v, c)
    <3>1. c \in View /\ c.post = q.post /\ c.job = q.job
      BY ONLY <2>1, <2>2, WithSlotTypes, s \in Slots, ZenonT(40)
    <3> QED
      BY <2>1, <3>1 DEF Revised
  <2> HIDE DEF c
  <2>4. Revised(v, w) /\ w \in View
    BY <2>3, MarkedJobs DEF EditableJobs, Revised
  <2> HIDE DEF w
  <2>5. Revised(v, freeze_publication_versions(w, EditableJobs(v)))
    BY <2>4, FreezeKeeps, RevisedKeeps DEF EditableJobs
  <2> QED
    BY <1>2, <2>5 DEF ChooseMedia, w, c, x, q
<1> QED
  BY <1>1, <1>2

LEMMA SelectVariantShape ==
    ASSUME ReviewAssumption, NEW v \in View, NEW j \in Jobs, NEW s \in Slots
    PROVE  LET w == select_publication_media_variant(v, j, s) IN Keeps(v, w) \/ Revised(v, w)
<1> DEFINE q == WithPost(v, invalidate_post_approval(v.post))
<1> DEFINE x == [v.job[j] EXCEPT !.path = v.slot[s].sel]
<1> DEFINE m == WithJob(q, j, x)
<1>1. q \in View /\ q.job = v.job /\ Revised(v, q)
  BY InvalidatedPost, NextPostVersion, ViewTypes, WithPostTypes DEF Revised
<1>2. x \in Job /\ Alike(v.job[j], x)
  <2> DEFINE z == v.job[j]
  <2> DEFINE e == v.slot[s].sel
  <2>1. z \in Job /\ e \in Paths
    BY ViewTypes DEF Slot
  <2> HIDE DEF z, e
  <2>2. [z EXCEPT !.path = e] \in Job /\ Alike(z, [z EXCEPT !.path = e])
    BY <2>1, OtherFile
  <2> QED
    BY <2>2 DEF z, e
<1> HIDE DEF q, x
<1>3. m \in View /\ m.post = q.post /\ m.job = [v.job EXCEPT ![j] = x]
  BY <1>1, <1>2, WithJobTypes
<1> HIDE DEF m
<1>4. Revised(v, m)
  BY <1>1, <1>2, <1>3, ViewTypes DEF Revised, Alike, Loosened
<1>5. Revised(v, WithJobs(m, EditableJobs(v), mark_publication_for_reapproval))
  BY <1>4, MarkedJobs DEF EditableJobs
<1>6. Keeps(v, v)
  BY DEF Keeps, Alike
<1> QED
  BY <1>5, <1>6 DEF select_publication_media_variant, m, x, q

LEMMA ChooseTextShape ==
    ASSUME NEW v \in View, NEW m \in {"auto", "manual"}, NEW t \in Texts
    PROVE  Revised(v, ChooseText(v, m, t))
<1> DEFINE p == [invalidate_post_approval(v.post) EXCEPT !.tmode = m, !.tsel = t, !.text = t]
<1> DEFINE c == [v EXCEPT !.post = p]
<1> DEFINE G == [k \in Jobs |-> IF k \in Unpublished(v)
                                THEN [mark_publication_for_reapproval(c.job[k]) EXCEPT !.text = t]
                                ELSE c.job[k]]
<1>1. p \in Post /\ p.version = v.post.version + 1
  <2> DEFINE q == invalidate_post_approval(v.post)
  <2>1. q \in Post /\ q.version = v.post.version + 1
    BY InvalidatedPost, ViewTypes
  <2> HIDE DEF q
  <2>2. LET x == [q EXCEPT !.tmode = m, !.tsel = t, !.text = t] IN x \in Post /\ x.version = q.version
    BY <2>1, ChosenTypes, Zenon
  <2> QED
    BY <2>1, <2>2 DEF q
<1> HIDE DEF p
<1>2. c \in View /\ c.job = v.job /\ c.post.version = v.post.version + 1
  BY <1>1 DEF View
<1> HIDE DEF c
<1>3. ASSUME NEW k \in Jobs PROVE G[k] \in Job /\ Loosened(v.job[k], G[k])
  <2> DEFINE y == mark_publication_for_reapproval(v.job[k])
  <2>1. v.job[k] \in Job
    BY ViewTypes
  <2>2. y \in Job /\ Loosened(v.job[k], y)
    BY <2>1, MarkedJob DEF Loosened
  <2> HIDE DEF y
  <2>3. [y EXCEPT !.text = t] \in Job /\ Loosened(v.job[k], [y EXCEPT !.text = t])
    BY <2>2, OtherContent, ViewTypes DEF Alike, Loosened, Job
  <2>4. Loosened(v.job[k], v.job[k])
    BY DEF Loosened
  <2> QED
    BY <1>2, <2>1, <2>3, <2>4 DEF y
<1>4. G \in [Jobs -> Job]
  BY <1>3
<1> HIDE DEF G
<1>5. Revised(v, [c EXCEPT !.job = G])
  BY <1>2, <1>3, <1>4, RevisedJobs
<1> QED
  BY <1>5 DEF ChooseText, WithJobs, G, c, p

\* Changes of a post's row that count its version up.
LEMMA RetextedPost ==
    ASSUME NEW p \in Post, NEW t \in Texts, NEW st \in PostStatus
    PROVE  LET q == [p EXCEPT !.text = t, !.version = @ + 1, !.status = st]
           IN q \in Post /\ q.version = p.version + 1
<1> DEFINE n == p.version + 1
<1>1. n \in Nat
  BY DEF Post
<1> HIDE DEF n
<1>2. LET q == [p EXCEPT !.text = t, !.version = n, !.status = st] IN q \in Post /\ q.version = n
  BY <1>1 DEF Post
<1> QED
  BY <1>2 DEF n

LEMMA RevokedPost ==
    ASSUME NEW p \in Post, NEW st \in PostStatus, NEW W \in SUBSET {"logo", "result"}
    PROVE  LET q == [p EXCEPT !.version = @ + 1, !.approved = 0, !.status = st, !.warnings = W]
           IN q \in Post /\ q.version = p.version + 1
<1> DEFINE n == p.version + 1
<1>1. n \in Nat
  BY DEF Post
<1> HIDE DEF n
<1>2. LET q == [p EXCEPT !.version = n, !.approved = 0, !.status = st, !.warnings = W]
      IN q \in Post /\ q.version = n
  BY <1>1 DEF Post
<1> QED
  BY <1>2 DEF n

\* A job that is open again, with or without another text.
LEMMA OpenedJob ==
    ASSUME NEW x \in Job, NEW t \in Texts,
           NEW ap \in {"unapproved", "reapproval_required", "rejected"}
    PROVE  /\ LET y == [x EXCEPT !.status = "unapproved", !.approval = ap]
              IN y \in Job /\ Loosened(x, y)
           /\ LET y == [x EXCEPT !.status = "unapproved", !.approvedVersion = 0, !.approval = ap, !.text = t]
              IN y \in Job /\ Loosened(x, y)
BY DEF Job, JobStatus, Loosened

LEMMA EditTextShape ==
    ASSUME NEW v \in View, NEW t \in Texts PROVE Revised(v, edit_text(v, t))
<1> DEFINE st == IF v.post.status = "approved" THEN "reapproval" ELSE v.post.status
<1> DEFINE p == [v.post EXCEPT !.text = t, !.version = @ + 1, !.status = st]
<1> DEFINE q == WithPost(v, p)
<1> DEFINE G == [k \in Jobs |-> IF k \in Unpublished(v)
                  THEN [q.job[k] EXCEPT !.status = "unapproved", !.approval = "reapproval_required"]
                  ELSE q.job[k]]
<1> DEFINE w == [q EXCEPT !.job = G]
<1> DEFINE x == [w.job["feed"] EXCEPT !.text = t]
<1> DEFINE u == IF v.job["feed"].status = "published" THEN w ELSE WithJob(w, "feed", x)
<1>1. st \in PostStatus
  BY ViewTypes DEF Post, PostStatus
<1> HIDE DEF st
<1>2. p \in Post /\ p.version = v.post.version + 1
  <2> v.post \in Post
    BY ViewTypes
  <2> QED
    BY <1>1, RetextedPost, ZenonT(40)
<1> HIDE DEF p
<1>3. q \in View /\ q.job = v.job /\ q.post.version = v.post.version + 1
  BY <1>2, WithPostTypes
<1> HIDE DEF q
<1>4. \A k \in Jobs : G[k] \in Job /\ Loosened(v.job[k], G[k])
  <2>1. \A k \in Jobs : Loosened(v.job[k], v.job[k])
    BY DEF Loosened
  <2> QED
    BY <1>3, <2>1, ViewTypes, OpenedJob, Zenon DEF Post
<1>5. G \in [Jobs -> Job]
  BY <1>4, Zenon
<1> HIDE DEF G
<1>6. Revised(v, w) /\ w \in View
  BY <1>3, <1>4, <1>5, RevisedJobs DEF Revised
<1> HIDE DEF w
<1>7. x \in Job /\ Alike(w.job["feed"], x)
  BY <1>6, ViewTypes, OtherContent DEF Job, Jobs
<1> HIDE DEF x
<1>8. Revised(v, u) /\ u \in View
  <2>1. LET y == WithJob(w, "feed", x)
        IN y \in View /\ y.post = w.post /\ y.job = [w.job EXCEPT !["feed"] = x]
    BY <1>6, <1>7, WithJobTypes DEF Jobs
  <2>2. Revised(v, WithJob(w, "feed", x))
    BY <1>6, <1>7, <2>1, ViewTypes DEF Revised, Alike, Loosened
  <2> QED
    BY <1>6, <2>1, <2>2
<1> HIDE DEF u
<1>9. Revised(v, ensure_text_version(u))
  BY <1>8, EnsureTextKeeps, RevisedKeeps
<1>10. edit_text(v, t) = ensure_text_version(u)
  BY DEF edit_text, WithJobs, u, x, w, G, q, p, st
<1> QED
  BY <1>9, <1>10

LEMMA ChannelTextShape ==
    ASSUME NEW v \in View PROVE Revised(v, post_channel_text(v))
<1> DEFINE q == WithPost(v, invalidate_post_approval(v.post))
<1>1. Revised(v, q)
  BY InvalidatedPost, NextPostVersion, ViewTypes
<1> QED
  BY <1>1, MarkedJobs DEF post_channel_text, Unpublished

LEMMA RevokeShape ==
    ASSUME NEW v \in View, NEW J \in SUBSET Jobs, NEW x \in {"logo", "result"}
    PROVE  Keeps(v, Revoke(v, J, x)) \/ Revised(v, Revoke(v, J, x))
<1> DEFINE W == v.post.warnings \cup {x}
<1> DEFINE p == [v.post EXCEPT !.version = @ + 1, !.approved = 0, !.status = "reapproval", !.warnings = W]
<1>1. W \in SUBSET {"logo", "result"} /\ "reapproval" \in PostStatus
  BY ViewTypes DEF Post, PostStatus
<1> HIDE DEF W
<1>2. p \in Post /\ p.version = v.post.version + 1
  <2> v.post \in Post
    BY ViewTypes
  <2> QED
    BY <1>1, RevokedPost, Zenon
<1> HIDE DEF p
<1>3. Revised(v, WithPost(v, p))
  BY <1>2, NextPostVersion
<1>4. Revised(v, WithJobs(WithPost(v, p), J, mark_publication_for_reapproval))
  BY <1>3, MarkedJobs
<1>5. Keeps(v, v)
  BY DEF Keeps, Alike
<1> QED
  BY <1>4, <1>5 DEF Revoke, p, W

LEMMA RescheduleShape ==
    ASSUME NEW v \in View, NEW j \in Jobs
    PROVE  LET w == reschedule_publication_job(v, j) IN Keeps(v, w) \/ Revised(v, w)
<1> DEFINE x == [v.job[j] EXCEPT !.past = FALSE]
<1> DEFINE m == WithJob(v, j, x)
<1> DEFINE p == [v.post EXCEPT !.version = @ + 1, !.approved = 0, !.status = "reapproval"]
<1>1. x \in Job /\ Alike(v.job[j], x)
  BY ViewTypes, ZenonT(40) DEF Job, Alike
<1> HIDE DEF x
<1>2. Keeps(v, m) /\ m \in View
  <2>1. m \in View /\ m.post = v.post /\ m.job = [v.job EXCEPT ![j] = x]
    BY <1>1, WithJobTypes
  <2> HIDE DEF m
  <2> QED
    BY <1>1, <2>1, ViewTypes DEF Keeps, Alike
<1> HIDE DEF m
<1>3. p \in Post /\ p.version = v.post.version + 1
  <2> DEFINE n == v.post.version + 1
  <2>1. n \in Nat
    BY ViewTypes DEF Post
  <2> HIDE DEF n
  <2>2. LET q == [v.post EXCEPT !.version = n, !.approved = 0, !.status = "reapproval"]
        IN q \in Post /\ q.version = n
    BY <2>1, ViewTypes DEF Post, PostStatus
  <2> QED
    BY <2>2 DEF n
<1> HIDE DEF p
<1>4. Revised(v, WithPost(m, p))
  BY <1>2, <1>3, WithPostTypes DEF Keeps, Revised, Alike, Loosened
<1>5. Revised(v, WithJobs(WithPost(m, p), EditableJobs(v), mark_publication_for_reapproval))
  BY <1>4, MarkedJobs DEF EditableJobs
<1>6. Keeps(v, v)
  BY DEF Keeps, Alike
<1> QED
  BY <1>2, <1>5, <1>6 DEF reschedule_publication_job, p, m, x

LEMMA DeleteKeeps ==
    ASSUME NEW v \in View PROVE Keeps(v, delete_unpublished_post(v))
BY DEF delete_unpublished_post, Keeps, Alike, View, Post, PostStatus

LEMMA NewFilesKeeps ==
    ASSUME ReviewAssumption, NEW v \in View, NEW s \in Slots, NEW p \in Paths
    PROVE  Keeps(v, NewFiles(v, s, p))
<1> DEFINE k == Kind[s]
<1> DEFINE c == Rendered(v, s, p)
<1> DEFINE q == WithPost(v, [v.post EXCEPT !.current = c])
<1> DEFINE f == IF k = "feed" THEN FeedFile(v, s, p) ELSE StoryFile(v, s, p)
<1> DEFINE x == [v.job[k] EXCEPT !.path = f]
<1>1. k \in Jobs
  BY DEF ReviewAssumption
<1>2. c \in [Slots -> Paths]
  BY ViewTypes DEF Post, Rendered
<1>3. f \in Paths
  BY <1>2, ViewTypes DEF FeedFile, StoryFile, ReviewAssumption, Job, Jobs
<1> HIDE DEF c, f, k
<1>4. [v.post EXCEPT !.current = c] \in Post /\ [v.post EXCEPT !.current = c].version = v.post.version
  BY <1>2, ViewTypes DEF Post
<1>5. q \in View /\ q.job = v.job /\ q.post.version = v.post.version
  BY <1>4, WithPostTypes
<1> HIDE DEF q
<1>6. x \in Job /\ Alike(v.job[k], x)
  <2> DEFINE z == v.job[k]
  <2>1. z \in Job
    BY <1>1, ViewTypes
  <2> HIDE DEF z
  <2>2. [z EXCEPT !.path = f] \in Job /\ Alike(z, [z EXCEPT !.path = f])
    BY <1>3, <2>1, OtherFile
  <2> QED
    BY <2>2 DEF z
<1> HIDE DEF x
<1> DEFINE m == WithJob(q, k, x)
<1>7. m \in View /\ m.post = q.post /\ m.job = [v.job EXCEPT ![k] = x]
  BY <1>1, <1>5, <1>6, WithJobTypes
<1> HIDE DEF m
<1>8. Keeps(v, m)
  BY <1>5, <1>6, <1>7, ViewTypes DEF Keeps, Alike
<1> QED
  BY <1>8 DEF NewFiles, m, x, q, f, c, k

LEMMA RerenderShape ==
    ASSUME ReviewAssumption, NEW v \in View, NEW s \in Slots, NEW p \in Paths, Rerenderable(v, s)
    PROVE  Revised(v, rerender_post(v, s, p))
<1> DEFINE w == NewFiles(v, s, p)
<1> DEFINE was == v.post.status \in Released
<1> DEFINE st == IF was THEN "reapproval" ELSE w.post.status
<1> DEFINE a == IF was THEN 0 ELSE w.post.approved
<1> DEFINE W == w.post.warnings \ {"logo"}
<1> DEFINE q == [w.post EXCEPT !.version = @ + 1, !.warnings = W, !.status = st, !.approved = a]
<1> DEFINE J == IF was THEN Unpublished(v) ELSE {}
<1> DEFINE u == WithJobs(WithPost(w, q), J, mark_publication_for_reapproval)
<1>1. Keeps(v, w) /\ w \in View /\ w.post \in Post
  BY NewFilesKeeps, ViewTypes DEF Keeps
<1> HIDE DEF w
<1>2. st \in PostStatus /\ a \in Nat /\ W \in SUBSET {"logo", "result"}
  BY <1>1 DEF Post, PostStatus
<1>3. J \in SUBSET Jobs
  BY DEF Unpublished
<1> HIDE DEF st, a, W, J
<1>4. q \in Post /\ q.version = v.post.version + 1
  <2> DEFINE z == w.post
  <2> DEFINE n == z.version + 1
  <2>1. z \in Post /\ n \in Nat /\ n = v.post.version + 1
    BY <1>1 DEF Keeps, Post
  <2> HIDE DEF n, z
  <2>2. LET y == [z EXCEPT !.version = n, !.warnings = W, !.status = st, !.approved = a]
        IN y \in Post /\ y.version = n
    BY <1>2, <2>1 DEF Post
  <2> QED
    BY <2>1, <2>2 DEF n, z
<1> HIDE DEF q
<1>5. Revised(v, WithPost(w, q))
  BY <1>1, <1>4, WithPostTypes DEF Keeps, Revised, Alike, Loosened
<1>6. Revised(v, u) /\ u \in View
  BY <1>3, <1>5, MarkedJobs DEF Revised
<1> HIDE DEF u
<1>7. Revised(v, synchronize_post_versions(u))
  BY <1>6, SynchronizeKeeps, RevisedKeeps
<1> QED
  BY <1>7 DEF rerender_post, u, J, q, W, a, st, w

LEMMA ReopenedPost ==
    ASSUME NEW p \in Post, NEW t \in Texts, NEW st \in PostStatus
    PROVE  LET q == [p EXCEPT !.text = t, !.approved = 0, !.status = st]
           IN q \in Post /\ q.version = p.version
BY Zenon DEF Post

LEMMA ReviseShape ==
    ASSUME ReviewAssumption, NEW v \in View, NEW S \in SUBSET Slots, NEW p \in Paths,
           NEW T \in SUBSET Texts
    PROVE  Keeps(v, revise_post(v, S, p, T)) \/ Revised(v, revise_post(v, S, p, T))
<1> DEFINE refused == \/ T # {} /\ (v.job["feed"].status = "published" \/ v.job["feed"].platform)
                      \/ \E s \in S : ~Rerenderable(v, s)
<1> DEFINE s == CHOOSE s \in S : TRUE
<1> DEFINE g == IF S = {} THEN [v EXCEPT !.post.version = @ + 1] ELSE rerender_post(v, s, p)
<1> DEFINE was == v.post.status \in Released
<1> DEFINE t == IF T = {} THEN g.post.text ELSE CHOOSE t \in T : TRUE
<1> DEFINE st == IF was THEN "reapproval" ELSE IF g.post.warnings # {} THEN "incomplete" ELSE "pending"
<1> DEFINE ap == IF was THEN "reapproval_required" ELSE "unapproved"
<1> DEFINE q == [g.post EXCEPT !.text = t, !.approved = 0, !.status = st]
<1> DEFINE r == WithPost(g, q)
<1> DEFINE G == [k \in Jobs |-> IF k \in Unpublished(g)
                  THEN [r.job[k] EXCEPT !.status = "unapproved", !.approvedVersion = 0,
                                        !.approval = ap, !.text = IF T = {} THEN @ ELSE t]
                  ELSE r.job[k]]
<1> DEFINE w == ensure_text_version([r EXCEPT !.job = G])
<1>1. CASE refused
  BY <1>1, Zenon DEF revise_post, Keeps, Alike
<1>2. CASE ~refused
  <2>1. Revised(v, g) /\ g \in View
    <3>1. CASE S = {}
      <4> DEFINE n == v.post.version + 1
      <4>1. n \in Nat
        BY ViewTypes DEF Post
      <4> HIDE DEF n
      <4>2. LET y == [v.post EXCEPT !.version = n] IN y \in Post /\ y.version = n
        BY <4>1, ViewTypes DEF Post
      <4>3. LET y == WithPost(v, [v.post EXCEPT !.version = n])
            IN y \in View /\ y.post.version = n /\ y.job = v.job
        BY <4>2, WithPostTypes
      <4>4. Revised(v, WithPost(v, [v.post EXCEPT !.version = v.post.version + 1]))
        BY <4>3 DEF Revised, Loosened, n
      <4>5. [v EXCEPT !.post.version = @ + 1] = WithPost(v, [v.post EXCEPT !.version = v.post.version + 1])
        BY DEF WithPost, View
      <4> QED
        BY <3>1, <4>4, <4>5 DEF Revised
    <3>2. CASE S # {}
      <4>1. s \in S
        BY <3>2
      <4> HIDE DEF s
      <4>2. Revised(v, rerender_post(v, s, p))
        BY <1>2, <4>1, RerenderShape
      <4> QED
        BY <3>2, <4>2 DEF Revised
    <3> QED
      BY <3>1, <3>2
  <2> HIDE DEF g
  <2>2. t \in Texts
    BY <2>1, ViewTypes DEF Post
  <2>3. st \in PostStatus /\ ap \in {"unapproved", "reapproval_required", "rejected"}
    BY DEF PostStatus
  <2> HIDE DEF t, st, ap
  <2>4. q \in Post /\ q.version = g.post.version
    <3> DEFINE z == g.post
    <3>1. z \in Post
      BY <2>1, ViewTypes
    <3> HIDE DEF z
    <3>2. st \in PostStatus
      BY <2>3
    <3>3. LET y == [z EXCEPT !.text = t, !.approved = 0, !.status = st]
          IN y \in Post /\ y.version = z.version
      BY ONLY <2>2, <3>1, <3>2, ReopenedPost, Zenon
    <3> QED
      BY <3>3 DEF z
  <2> HIDE DEF q
  <2>5. r \in View /\ r.job = g.job /\ r.post.version = v.post.version + 1
    BY <2>1, <2>4, WithPostTypes DEF Revised
  <2> HIDE DEF r
  <2>6. ASSUME NEW k \in Jobs PROVE G[k] \in Job /\ Loosened(v.job[k], G[k])
    <3> DEFINE x == r.job[k]
    <3> DEFINE e == IF T = {} THEN x.text ELSE t
    <3>1. x \in Job /\ e \in Texts /\ Loosened(v.job[k], x)
      BY <2>1, <2>2, <2>5, ViewTypes, SMTT(40) DEF Revised, Job
    <3> HIDE DEF x, e
    <3>2. LET y == [x EXCEPT !.status = "unapproved", !.approvedVersion = 0, !.approval = ap,
      !.text = e]
          IN y \in Job /\ Loosened(x, y)
      BY <2>3, <3>1, OpenedJob, Zenon
    <3>3. LET y == [x EXCEPT !.status = "unapproved", !.approvedVersion = 0, !.approval = ap,
      !.text = e]
          IN y \in Job /\ Loosened(v.job[k], y)
      BY <3>1, <3>2 DEF Loosened
    <3> QED
      BY <3>1, <3>3 DEF x, e
  <2>7. G \in [Jobs -> Job]
    BY <2>6, Zenon
  <2> HIDE DEF G
  <2>8. Revised(v, [r EXCEPT !.job = G]) /\ [r EXCEPT !.job = G] \in View
    <3>1. r \in View /\ r.post.version = v.post.version + 1
      BY <2>5
    <3>2. \A k \in Jobs : Loosened(v.job[k], G[k])
      BY <2>6
    <3>3. Revised(v, [r EXCEPT !.job = G])
      BY ONLY v \in View, <2>7, <3>1, <3>2, RevisedJobs
    <3> QED
      BY <3>3 DEF Revised
  <2>9. Revised(v, w) /\ w \in View
    <3> DEFINE u == [r EXCEPT !.job = G]
    <3>1. u \in View /\ Revised(v, u) /\ w = ensure_text_version(u)
      BY <2>8
    <3> HIDE DEF u
    <3>2. Keeps(u, ensure_text_version(u))
      BY ONLY <3>1, EnsureTextKeeps
    <3>3. Keeps(u, w)
      BY <3>1, <3>2
    <3> HIDE DEF w
    <3> QED
      BY <3>1, <3>3, RevisedKeeps DEF Keeps
  <2> HIDE DEF w
  <2>10. Revised(v, IF S = {} THEN w ELSE synchronize_post_versions(w))
    BY <2>9, SynchronizeKeeps, RevisedKeeps
  <2>11. revise_post(v, S, p, T) = IF S = {} THEN w ELSE synchronize_post_versions(w)
    BY <1>2 DEF revise_post, WithJobs, w, G, r, q, t, st, ap, g, s
  <2> QED
    BY <2>10, <2>11
<1> QED
  BY <1>1, <1>2

LEMMA RecomposeShape ==
    ASSUME NEW v \in View, NEW p \in Paths
    PROVE  Keeps(v, recompose_post_logos(v, p)) \/ Revised(v, recompose_post_logos(v, p))
<1> DEFINE W == v.post.warnings \ {"logo"}
<1> DEFINE q == [v.post EXCEPT !.version = @ + 1, !.approved = 0, !.status = "reapproval", !.warnings = W]
<1> DEFINE x == [v.job["feed"] EXCEPT !.path = p]
<1> DEFINE m == WithJob(WithPost(v, q), "feed", x)
<1>1. W \in SUBSET {"logo", "result"} /\ "reapproval" \in PostStatus /\ v.post \in Post
  BY ViewTypes DEF Post, PostStatus
<1> HIDE DEF W
<1>2. q \in Post /\ q.version = v.post.version + 1
  BY <1>1, RevokedPost, Zenon
<1> HIDE DEF q
<1>3. WithPost(v, q) \in View /\ WithPost(v, q).post = q /\ WithPost(v, q).job = v.job
  BY <1>2, WithPostTypes
<1>4. x \in Job /\ Alike(v.job["feed"], x)
  BY ViewTypes, OtherContent DEF Jobs, Job, Alike
<1> HIDE DEF x
<1>5. m \in View /\ m.post = q /\ m.job = [v.job EXCEPT !["feed"] = x]
  BY <1>3, <1>4, WithJobTypes DEF Jobs
<1> HIDE DEF m
<1>6. Revised(v, m)
  BY <1>2, <1>4, <1>5, ViewTypes DEF Revised, Alike, Loosened
<1>7. Revised(v, WithJobs(m, Unpublished(v), mark_publication_for_reapproval))
  BY <1>6, MarkedJobs DEF Unpublished
<1>8. Keeps(v, v)
  BY DEF Keeps, Alike
<1> QED
  BY <1>7, <1>8 DEF recompose_post_logos, m, x, q, W

\* w withdraws approvals and cancels jobs, or leaves v as it is.
Withdrawn(v, w) ==
    /\ w \in View /\ w.post.version \in {v.post.version, v.post.version + 1}
    /\ \A k \in Jobs : /\ w.job[k].status \in {v.job[k].status, "unapproved", "cancelled"}
                       /\ w.job[k].approvedVersion \in {v.job[k].approvedVersion, 0}
                       /\ w.job[k].attempts = v.job[k].attempts
                       /\ w.job[k].platform = v.job[k].platform

\* A job has to be approved again only under a version of the post that is new.
CountedUp(v, w) ==
    \A k \in Jobs : w.job[k].status = "unapproved" /\ v.job[k].status # "unapproved" =>
        w.post.version = v.post.version + 1

\* w approves the jobs J of v, none of which has been tried, for the version of v.
Granted(v, w, J) ==
    /\ w \in View /\ w.post.version = v.post.version
    /\ \A k \in Jobs \ J : Alike(v.job[k], w.job[k])
    /\ \A k \in J : /\ v.job[k].status \in {"unapproved", "scheduled"} /\ ~Started(v.job[k])
                    /\ w.job[k].status \in {"scheduled", "skipped"}
                    /\ w.job[k].approvedVersion = v.post.version
                    /\ w.job[k].attempts = v.job[k].attempts
                    /\ w.job[k].platform = v.job[k].platform

LEMMA KeepsWithdrawn ==
    ASSUME NEW v, NEW w, Keeps(v, w) PROVE Withdrawn(v, w) /\ CountedUp(v, w)
BY DEF Keeps, Alike, Withdrawn, CountedUp

LEMMA RevisedWithdrawn ==
    ASSUME NEW v, NEW w, Revised(v, w) PROVE Withdrawn(v, w) /\ CountedUp(v, w)
BY DEF Revised, Loosened, Withdrawn, CountedUp

LEMMA RejectShape ==
    ASSUME NEW v \in View
    PROVE  Withdrawn(v, reject_post(v)) /\ reject_post(v).post.version = v.post.version
<1> DEFINE p == [v.post EXCEPT !.status = "rejected"]
<1> DEFINE q == WithPost(v, p)
<1> DEFINE G == [k \in Jobs |-> IF k \in Unpublished(v)
                  THEN [q.job[k] EXCEPT !.status = "unapproved", !.approval = "rejected"]
                  ELSE q.job[k]]
<1> DEFINE w == [q EXCEPT !.job = G]
<1>1. p \in Post /\ p.version = v.post.version
  BY ViewTypes DEF Post, PostStatus
<1> HIDE DEF p
<1>2. q \in View /\ q.job = v.job /\ q.post.version = v.post.version
  BY <1>1, WithPostTypes
<1> HIDE DEF q
<1>3. \A k \in Jobs : G[k] \in Job /\ Loosened(v.job[k], G[k])
  <2>1. \A k \in Jobs : Loosened(v.job[k], v.job[k])
    BY DEF Loosened
  <2>2. v.post.text \in Texts
    BY ViewTypes DEF Post
  <2> QED
    BY <1>2, <2>1, <2>2, ViewTypes, OpenedJob, Zenon
<1>4. G \in [Jobs -> Job]
  BY <1>3, Zenon
<1> HIDE DEF G
<1>5. w \in View /\ w.post = q.post /\ w.job = G
  BY <1>2, <1>4 DEF View
<1> HIDE DEF w
<1>6. Withdrawn(v, w) /\ w.post.version = v.post.version
  BY <1>2, <1>3, <1>5 DEF Withdrawn, Loosened
<1> QED
  BY <1>6, Zenon DEF reject_post, WithJobs, w, G, q, p

LEMMA CancelShape ==
    ASSUME NEW v \in View, NEW j \in Jobs
    PROVE  LET w == cancel_job(v, j)
           IN Withdrawn(v, w) /\ CountedUp(v, w) /\ w.post.version = v.post.version
<1> DEFINE x == [v.job[j] EXCEPT !.status = "cancelled"]
<1> DEFINE m == WithJob(v, j, x)
<1>1. /\ x \in Job /\ x.status = "cancelled" /\ x.approvedVersion = v.job[j].approvedVersion
      /\ x.attempts = v.job[j].attempts /\ x.platform = v.job[j].platform
  BY ViewTypes DEF Job, JobStatus
<1> HIDE DEF x
<1>2. m \in View /\ m.post = v.post /\ m.job = [v.job EXCEPT ![j] = x]
  BY <1>1, WithJobTypes
<1> HIDE DEF m
<1>3. Withdrawn(v, m) /\ CountedUp(v, m) /\ m.post.version = v.post.version
  BY <1>1, <1>2, ViewTypes DEF Withdrawn, CountedUp
<1>4. Withdrawn(v, v) /\ CountedUp(v, v)
  BY DEF Withdrawn, CountedUp
<1> QED
  BY <1>3, <1>4 DEF cancel_job, m, x

LEMMA ApproveShape ==
    ASSUME ReviewAssumption, NEW v \in View, NEW J \in SUBSET Jobs, NEW now \in BOOLEAN
    PROVE  LET w == approve(v, J, now) IN w = v \/ Granted(v, w, J)
<1> DEFINE f == freeze_publication_versions(v, J)
<1> DEFINE late == late_approval_behavior(now) # "publish_now"
<1> DEFINE R(x) == [x EXCEPT !.approval = "approved", !.approvedVersion = f.post.version,
                             !.status = IF x.past /\ late THEN "skipped" ELSE "scheduled"]
<1> DEFINE G == [k \in Jobs |-> IF k \in J THEN R(f.job[k]) ELSE f.job[k]]
<1> DEFINE w == [f EXCEPT !.job = G]
<1> DEFINE p == [f.post EXCEPT !.status = "approved", !.approved = f.post.version]
<1>1. CASE ~Approvable(v, J, now)
  BY <1>1 DEF approve
<1>2. CASE Approvable(v, J, now)
  <2>1. Keeps(v, f) /\ f \in View /\ f.post.version = v.post.version
    BY FreezeKeeps DEF Keeps
  <2> HIDE DEF f
  <2>2. f.post.version \in Nat
    BY <2>1, ViewTypes DEF Post
  <2>3. ASSUME NEW x \in Job
        PROVE  /\ R(x) \in Job /\ R(x).status \in {"scheduled", "skipped"}
               /\ R(x).approvedVersion = v.post.version
               /\ R(x).attempts = x.attempts /\ R(x).platform = x.platform
    <3> DEFINE st == IF x.past /\ late THEN "skipped" ELSE "scheduled"
    <3> DEFINE n == f.post.version
    <3>1. st \in {"scheduled", "skipped"} /\ n \in Nat
      BY <2>2
    <3> HIDE DEF st, n
    <3>2. LET y == [x EXCEPT !.approval = "approved", !.approvedVersion = n, !.status = st]
          IN /\ y \in Job /\ y.status = st /\ y.approvedVersion = n
             /\ y.attempts = x.attempts /\ y.platform = x.platform
      BY <3>1 DEF Job, JobStatus
    <3> QED
      BY <2>1, <3>1, <3>2 DEF st, n
  <2> HIDE DEF R
  <2>4. G \in [Jobs -> Job]
    BY <2>1, <2>3, ViewTypes
  <2>5. w \in View /\ w.post = f.post /\ w.job = G
    BY <2>1, <2>4 DEF View
  <2>6. p \in Post /\ p.version = f.post.version
    <3> DEFINE z == f.post
    <3> DEFINE n == f.post.version
    <3>1. z \in Post /\ n \in Nat /\ n = z.version
      BY <2>1, <2>2, ViewTypes
    <3> HIDE DEF n, z
    <3>2. LET y == [z EXCEPT !.status = "approved", !.approved = n] IN y \in Post /\ y.version = n
      BY <3>1 DEF Post, PostStatus
    <3> QED
      BY <3>1, <3>2 DEF n, z
  <2> HIDE DEF p, w
  <2>7. LET u == WithPost(w, p) IN u \in View /\ u.post = p /\ u.job = G
    BY <2>5, <2>6, WithPostTypes
  <2>8. \A k \in J : v.job[k].status \in {"unapproved", "scheduled"} /\ ~Started(v.job[k])
    BY <1>2, ViewTypes DEF Approvable, approval_job_blockers, Job, JobStatus
  <2>9. \A k \in Jobs \ J : Alike(v.job[k], G[k])
    BY <2>1 DEF Keeps
  <2>10. \A k \in J : /\ G[k].status \in {"scheduled", "skipped"}
                      /\ G[k].approvedVersion = v.post.version
                      /\ G[k].attempts = v.job[k].attempts
                      /\ G[k].platform = v.job[k].platform
    BY <2>1, <2>3, ViewTypes DEF Keeps, Alike
  <2> HIDE DEF G
  <2>11. Granted(v, WithPost(w, p), J)
    BY <2>1, <2>6, <2>7, <2>8, <2>9, <2>10 DEF Granted
  <2>12. approve(v, J, now) = WithPost(w, p)
    BY <1>2 DEF approve, WithJobs, p, w, G, R, f
  <2> QED
    BY <2>11, <2>12
<1> QED
  BY <1>1, <1>2

\* What an order needs to be carried out.
LEMMA OrderTypes ==
    ASSUME NEW o \in Orders
    PROVE  /\ o.name \in {"edit_text", "approve", "reject", "logo_changed", "result_changed", "cancel",
                          "select_media", "auto_media", "select_variant", "select_text", "auto_text",
                          "channel_text", "delete", "reschedule", "rerender", "revise", "recompose"}
           /\ o.name \in {"edit_text", "select_text"} => o.text \in Texts
           /\ o.name = "approve" => o.jobs \in SUBSET Jobs /\ o.now \in BOOLEAN
           /\ o.name \in {"cancel", "select_variant", "reschedule"} => o.job \in Jobs
           /\ o.name \in {"select_media", "auto_media", "select_variant", "rerender"} => o.slot \in Slots
           /\ o.name \in {"select_media", "rerender", "revise", "recompose"} => o.path \in Paths
           /\ o.name = "revise" => o.slots \in SUBSET Slots /\ o.texts \in SUBSET Texts
BY DEF Orders, Renders, Rerenders, Revisions, Recompositions, Unlocked, Locking

\* An order other than an approval withdraws; only a rejection does not count the
\* version up, and a rejection or a cancellation never does.
LEMMA EffectShape ==
    ASSUME ReviewAssumption, NEW v \in View, NEW o \in Orders
    PROVE  LET w == Effect(o, v) IN
           /\ o.name = "approve" => w = v \/ Granted(v, w, o.jobs)
           /\ o.name # "approve" => Withdrawn(v, w) /\ (o.name # "reject" => CountedUp(v, w))
           /\ o.name \in {"reject", "cancel"} => w.post.version = v.post.version
<1> DEFINE w == Effect(o, v)
<1> DEFINE shape == Keeps(v, w) \/ Revised(v, w)
<1>0. Keeps(v, v)
  BY DEF Keeps, Alike
<1>1. CASE o.name = "edit_text"
  BY <1>1, OrderTypes, EditTextShape, RevisedWithdrawn DEF Effect
<1>2. CASE o.name = "approve"
  BY <1>2, OrderTypes, ApproveShape DEF Effect
<1>3. CASE o.name = "reject"
  BY <1>3, RejectShape DEF Effect
<1>4. CASE o.name = "cancel"
  BY <1>4, OrderTypes, CancelShape DEF Effect
<1>5. CASE o.name \in {"logo_changed", "result_changed"}
  <2>1. shape
    BY <1>5, RevokeShape DEF Effect, invalidate_posts_for_logo_change,
       invalidate_posts_for_result_change, Unpublished
  <2> QED
    BY <1>5, <2>1, KeepsWithdrawn, RevisedWithdrawn
<1>6. CASE o.name \in {"select_media", "auto_media"}
  <2>1. \A s \in Slots : v.slot[s].latest \in Paths
    BY ViewTypes DEF Slot
  <2>2. shape
    BY <1>0, <1>6, <2>1, OrderTypes, ChooseMediaShape DEF Effect, select_media_version,
       select_latest_media_automatically
  <2> QED
    BY <1>6, <2>2, KeepsWithdrawn, RevisedWithdrawn
<1>7. CASE o.name = "select_variant"
  <2>1. shape
    BY <1>7, OrderTypes, SelectVariantShape DEF Effect
  <2> QED
    BY <1>7, <2>1, KeepsWithdrawn, RevisedWithdrawn
<1>8. CASE o.name \in {"select_text", "auto_text"}
  <2>1. v.post.tlatest \in Texts
    BY ViewTypes DEF Post
  <2>2. shape
    BY <1>0, <1>8, <2>1, OrderTypes, ChooseTextShape DEF Effect, select_text_version,
       select_latest_text_automatically
  <2> QED
    BY <1>8, <2>2, KeepsWithdrawn, RevisedWithdrawn
<1>9. CASE o.name = "channel_text"
  BY <1>9, ChannelTextShape, RevisedWithdrawn DEF Effect
<1>10. CASE o.name = "delete"
  BY <1>10, DeleteKeeps, KeepsWithdrawn DEF Effect
<1>11. CASE o.name = "reschedule"
  <2>1. shape
    BY <1>11, OrderTypes, RescheduleShape DEF Effect
  <2> QED
    BY <1>11, <2>1, KeepsWithdrawn, RevisedWithdrawn
<1>12. CASE o.name = "rerender"
  <2>1. CASE Rerenderable(v, o.slot)
    BY <1>12, <2>1, OrderTypes, RerenderShape, RevisedWithdrawn DEF Effect
  <2>2. CASE ~Rerenderable(v, o.slot)
    BY <1>0, <1>12, <2>2, KeepsWithdrawn DEF Effect, rerender_post
  <2> QED
    BY <2>1, <2>2
<1>13. CASE o.name = "revise"
  <2>1. shape
    BY <1>13, OrderTypes, ReviseShape DEF Effect
  <2> QED
    BY <1>13, <2>1, KeepsWithdrawn, RevisedWithdrawn
<1>14. CASE o.name = "recompose"
  <2>1. shape
    BY <1>14, OrderTypes, RecomposeShape DEF Effect
  <2> QED
    BY <1>14, <2>1, KeepsWithdrawn, RevisedWithdrawn
<1> QED
  BY <1>1, <1>2, <1>3, <1>4, <1>5, <1>6, <1>7, <1>8, <1>9, <1>10, <1>11, <1>12, <1>13, <1>14,
    OrderTypes

(***************************************************************************)
(* What a session writes                                                   *)
(***************************************************************************)
LEMMA PutJob ==
    ASSUME NEW row \in Job, NEW s \in Job, NEW n \in Job
    PROVE  LET p == Put(row, s, n) IN
           /\ p \in Job
           /\ p.status = IF n.status = s.status THEN row.status ELSE n.status
           /\ p.approvedVersion = IF n.approvedVersion = s.approvedVersion
                                  THEN row.approvedVersion ELSE n.approvedVersion
           /\ p.attempts = IF n.attempts = s.attempts THEN row.attempts ELSE n.attempts
           /\ p.platform = IF n.platform = s.platform THEN row.platform ELSE n.platform
BY DEF Put, Job

LEMMA PutPost ==
    ASSUME NEW row \in Post, NEW s \in Post, NEW n \in Post
    PROVE  LET p == Put(row, s, n) IN
           p \in Post /\ p.version = IF n.version = s.version THEN row.version ELSE n.version
BY DEF Put, Post

LEMMA PutSlot ==
    ASSUME NEW row \in Slot, NEW s \in Slot, NEW n \in Slot PROVE Put(row, s, n) \in Slot
BY DEF Put, Slot

LEMMA Merged ==
    ASSUME db \in View, NEW s \in View, NEW n \in View
    PROVE  LET m == Merge(s, n) IN
           /\ m \in View
           /\ m.post.version = IF n.post.version = s.post.version THEN db.post.version ELSE n.post.version
           /\ \A k \in Jobs : m.job[k] = Put(db.job[k], s.job[k], n.job[k])
<1> DEFINE p == Put(db.post, s.post, n.post)
<1> DEFINE J == [j \in Jobs |-> Put(db.job[j], s.job[j], n.job[j])]
<1> DEFINE S == [t \in Slots |-> Put(db.slot[t], s.slot[t], n.slot[t])]
<1> DEFINE H == [t \in Slots |-> db.shelf[t] \cup n.shelf[t]]
<1> DEFINE T == db.texts \cup n.texts
<1> DEFINE m == [post |-> p, job |-> J, slot |-> S, shelf |-> H, texts |-> T]
<1>1. p \in Post /\ p.version = IF n.post.version = s.post.version THEN db.post.version ELSE n.post.version
  BY PutPost, ViewTypes
<1>2. J \in [Jobs -> Job]
  BY PutJob, ViewTypes
<1>3. S \in [Slots -> Slot]
  BY PutSlot, ViewTypes
<1>4. H \in [Slots -> SUBSET Paths] /\ T \in SUBSET Texts
  BY ViewTypes
<1>5. \A k \in Jobs : J[k] = Put(db.job[k], s.job[k], n.job[k])
  OBVIOUS
<1> HIDE DEF p, J, S, H, T
<1>6. m \in View /\ m.post = p /\ m.job = J
  BY <1>1, <1>2, <1>3, <1>4 DEF View
<1>7. Merge(s, n) = m
  BY DEF Merge, p, J, S, H, T
<1> QED
  BY <1>1, <1>5, <1>6, <1>7

\* An order other than an approval, written over rows that may have moved on, withdraws.
LEMMA MergedWithdrawal ==
    ASSUME db \in View, NEW s \in View, NEW n \in View, Withdrawn(s, n),
           s.post = db.post \/ n.post.version = s.post.version
    PROVE  /\ Withdrawn(db, Merge(s, n))
           /\ CountedUp(s, n) => CountedUp(db, Merge(s, n))
<1> DEFINE m == Merge(s, n)
<1>1. /\ m \in View
      /\ m.post.version = IF n.post.version = s.post.version THEN db.post.version ELSE n.post.version
      /\ \A k \in Jobs : m.job[k] = Put(db.job[k], s.job[k], n.job[k])
  BY Merged
<1> HIDE DEF m
<1>2. \A k \in Jobs :
        /\ m.job[k].status = IF n.job[k].status = s.job[k].status
                             THEN db.job[k].status ELSE n.job[k].status
        /\ m.job[k].approvedVersion = IF n.job[k].approvedVersion = s.job[k].approvedVersion
                                      THEN db.job[k].approvedVersion ELSE n.job[k].approvedVersion
        /\ m.job[k].attempts = db.job[k].attempts
        /\ m.job[k].platform = db.job[k].platform
  BY <1>1, PutJob, ViewTypes, SMTT(30) DEF Withdrawn
<1>3. s.post.version \in Nat /\ db.post.version \in Nat
  BY ViewTypes DEF Post
<1>4. Withdrawn(db, m)
  BY <1>1, <1>2, <1>3 DEF Withdrawn
<1>5. CountedUp(s, n) => CountedUp(db, m)
  BY <1>1, <1>2, <1>3 DEF Withdrawn, CountedUp
<1> QED
  BY <1>4, <1>5 DEF m

\* The worker's session changes one job, and the status of the post.
Handled(v, w, j) ==
    /\ w \in View /\ w.post.version = v.post.version
    /\ \A k \in Jobs \ {j} : Alike(v.job[k], w.job[k])
    /\ w.job[j].approvedVersion = v.job[j].approvedVersion

LEMMA MergedHandling ==
    ASSUME db \in View, NEW v \in View, NEW w \in View, NEW j \in Jobs, Handled(v, w, j)
    PROVE  LET m == Merge(v, w) IN
           /\ Handled(db, m, j)
           /\ m.job[j].status = IF w.job[j].status = v.job[j].status
                                THEN db.job[j].status ELSE w.job[j].status
           /\ m.job[j].attempts = IF w.job[j].attempts = v.job[j].attempts
                                  THEN db.job[j].attempts ELSE w.job[j].attempts
           /\ m.job[j].platform = IF w.job[j].platform = v.job[j].platform
                                  THEN db.job[j].platform ELSE w.job[j].platform
<1> DEFINE m == Merge(v, w)
<1>1. /\ m \in View
      /\ m.post.version = IF w.post.version = v.post.version THEN db.post.version ELSE w.post.version
      /\ \A k \in Jobs : m.job[k] = Put(db.job[k], v.job[k], w.job[k])
  BY Merged
<1> HIDE DEF m
<1>2. \A k \in Jobs \ {j} : Alike(db.job[k], m.job[k])
  <2> SUFFICES ASSUME NEW k \in Jobs \ {j} PROVE Alike(db.job[k], m.job[k])
    OBVIOUS
  <2>1. /\ db.job[k] \in Job /\ v.job[k] \in Job /\ w.job[k] \in Job
        /\ Alike(v.job[k], w.job[k]) /\ m.job[k] = Put(db.job[k], v.job[k], w.job[k])
    BY <1>1, ViewTypes DEF Handled
  <2> QED
    BY <2>1, PutJob DEF Alike
<1>3. /\ m.job[j].approvedVersion = db.job[j].approvedVersion
      /\ m.job[j].status = IF w.job[j].status = v.job[j].status
                           THEN db.job[j].status ELSE w.job[j].status
      /\ m.job[j].attempts = IF w.job[j].attempts = v.job[j].attempts
                             THEN db.job[j].attempts ELSE w.job[j].attempts
      /\ m.job[j].platform = IF w.job[j].platform = v.job[j].platform
                             THEN db.job[j].platform ELSE w.job[j].platform
  BY <1>1, PutJob, ViewTypes DEF Handled
<1> QED
  BY <1>1, <1>2, <1>3 DEF Handled, m

LEMMA RefusedShape ==
    ASSUME NEW v \in View, NEW j \in Jobs, NEW t \in BOOLEAN, NEW x \in BOOLEAN
    PROVE  LET w == Refused(v, j, t, x) IN
           /\ Handled(v, w, j) /\ w.job[j].status \in {"scheduled", "unapproved"}
           /\ w.job[j].attempts = v.job[j].attempts /\ w.job[j].platform = v.job[j].platform
<1> DEFINE w == Refused(v, j, t, x)
<1>1. CASE t
  <2> DEFINE y == [v.job[j] EXCEPT !.status = "scheduled"]
  <2> DEFINE m == WithJob(v, j, y)
  <2>1. /\ y \in Job /\ y.status = "scheduled" /\ y.approvedVersion = v.job[j].approvedVersion
        /\ y.attempts = v.job[j].attempts /\ y.platform = v.job[j].platform
    BY ViewTypes DEF Job, JobStatus
  <2> HIDE DEF y
  <2>2. m \in View /\ m.post = v.post /\ m.job = [v.job EXCEPT ![j] = y]
    BY <2>1, WithJobTypes
  <2>3. w = m
    BY <1>1 DEF Refused, y
  <2> HIDE DEF m, w
  <2>4. /\ Handled(v, w, j) /\ w.job[j].status \in {"scheduled", "unapproved"}
        /\ w.job[j].attempts = v.job[j].attempts /\ w.job[j].platform = v.job[j].platform
    BY <2>1, <2>2, <2>3, ViewTypes DEF Handled, Alike
  <2> QED
    BY <2>4 DEF w
<1>2. CASE ~t
  <2> DEFINE st == IF x THEN "reapproval" ELSE v.post.status
  <2> DEFINE p == [v.post EXCEPT !.status = st]
  <2> DEFINE y == [v.job[j] EXCEPT !.status = "unapproved", !.approval = "reapproval_required"]
  <2> DEFINE m == WithJob(WithPost(v, p), j, y)
  <2>1. /\ y \in Job /\ y.status = "unapproved" /\ y.approvedVersion = v.job[j].approvedVersion
        /\ y.attempts = v.job[j].attempts /\ y.platform = v.job[j].platform
    <3> DEFINE z == v.job[j]
    <3>1. z \in Job
      BY ViewTypes
    <3> HIDE DEF z
    <3>2. LET u == [z EXCEPT !.status = "unapproved", !.approval = "reapproval_required"]
          IN /\ u \in Job /\ u.status = "unapproved" /\ u.approvedVersion = z.approvedVersion
             /\ u.attempts = z.attempts /\ u.platform = z.platform
      BY <3>1 DEF Job, JobStatus
    <3> QED
      BY <3>2 DEF z
  <2>2. st \in PostStatus
    BY ViewTypes DEF Post, PostStatus
  <2> HIDE DEF y, st
  <2>3. p \in Post /\ p.version = v.post.version
    BY <2>2, ViewTypes DEF Post
  <2> HIDE DEF p
  <2>4. WithPost(v, p) \in View /\ WithPost(v, p).post = p /\ WithPost(v, p).job = v.job
    BY <2>3, WithPostTypes
  <2>5. m \in View /\ m.post = p /\ m.job = [v.job EXCEPT ![j] = y]
    BY <2>1, <2>4, WithJobTypes
  <2>6. w = m
    BY <1>2 DEF Refused, y, p, st
  <2> HIDE DEF m, w
  <2>7. /\ Handled(v, w, j) /\ w.job[j].status \in {"scheduled", "unapproved"}
        /\ w.job[j].attempts = v.job[j].attempts /\ w.job[j].platform = v.job[j].platform
    BY <2>1, <2>3, <2>5, <2>6, ViewTypes DEF Handled, Alike
  <2> QED
    BY <2>7 DEF w
<1> QED
  BY <1>1, <1>2

LEMMA TakenUpShape ==
    ASSUME NEW v \in View, NEW j \in Jobs
    PROVE  LET w == TakenUp(v, j) IN
           /\ Handled(v, w, j) /\ w.job[j].status = "publishing"
           /\ w.job[j].attempts = v.job[j].attempts + 1 /\ w.job[j].platform = v.job[j].platform
<1> DEFINE n == v.job[j].attempts + 1
<1> DEFINE y == [v.job[j] EXCEPT !.status = "publishing", !.attempts = n]
<1> DEFINE m == WithJob(v, j, y)
<1>1. n \in Nat
  BY ViewTypes DEF Job
<1> HIDE DEF n
<1>2. /\ y \in Job /\ y.status = "publishing" /\ y.approvedVersion = v.job[j].approvedVersion
      /\ y.attempts = n /\ y.platform = v.job[j].platform
  <2> DEFINE z == v.job[j]
  <2>1. z \in Job
    BY ViewTypes
  <2> HIDE DEF z
  <2>2. LET u == [z EXCEPT !.status = "publishing", !.attempts = n]
        IN /\ u \in Job /\ u.status = "publishing" /\ u.approvedVersion = z.approvedVersion
           /\ u.attempts = n /\ u.platform = z.platform
    BY <1>1, <2>1 DEF Job, JobStatus
  <2> QED
    BY <2>2 DEF z
<1> HIDE DEF y
<1>3. m \in View /\ m.post = v.post /\ m.job = [v.job EXCEPT ![j] = y]
  BY <1>2, WithJobTypes
<1> HIDE DEF m
<1>4. /\ Handled(v, m, j) /\ m.job[j].status = "publishing"
      /\ m.job[j].attempts = n /\ m.job[j].platform = v.job[j].platform
  BY <1>2, <1>3, ViewTypes DEF Handled, Alike
<1> QED
  BY <1>4 DEF TakenUp, m, y, n

LEMMA AnsweredShape ==
    ASSUME NEW v \in View, NEW j \in Jobs, NEW x, NEW all \in BOOLEAN
    PROVE  LET w == Answered(v, j, x, all) IN
           /\ Handled(v, w, j)
           /\ w.job[j].attempts = v.job[j].attempts
           /\ \/ w.job[j].status \in {"retry", "uncertain", "failed"} /\ w.job[j].platform = v.job[j].platform
              \/ w.job[j].status = "published" /\ w.job[j].platform = TRUE
<1> DEFINE w == Answered(v, j, x, all)
<1>1. CASE x # "ok"
  <2> DEFINE st == IF x = "retry" /\ v.job[j].attempts < MaxAttempts THEN "retry"
                   ELSE IF x = "unclear" THEN "uncertain" ELSE "failed"
  <2> DEFINE y == [v.job[j] EXCEPT !.status = st]
  <2> DEFINE m == WithJob(v, j, y)
  <2>1. st \in {"retry", "uncertain", "failed"}
    OBVIOUS
  <2> HIDE DEF st
  <2>2. /\ y \in Job /\ y.status = st /\ y.approvedVersion = v.job[j].approvedVersion
        /\ y.attempts = v.job[j].attempts /\ y.platform = v.job[j].platform
    BY <2>1, ViewTypes DEF Job, JobStatus
  <2> HIDE DEF y
  <2>3. m \in View /\ m.post = v.post /\ m.job = [v.job EXCEPT ![j] = y]
    BY <2>2, WithJobTypes
  <2>4. w = m
    BY <1>1 DEF Answered, y, st
  <2> HIDE DEF m, w
  <2>5. /\ Handled(v, w, j) /\ w.job[j].attempts = v.job[j].attempts
        /\ w.job[j].status \in {"retry", "uncertain", "failed"} /\ w.job[j].platform = v.job[j].platform
    BY <2>1, <2>2, <2>3, <2>4, ViewTypes DEF Handled, Alike
  <2> QED
    BY <2>5 DEF w
<1>2. CASE x = "ok"
  <2> DEFINE st == IF all THEN "published" ELSE "partial"
  <2> DEFINE p == [v.post EXCEPT !.status = st]
  <2> DEFINE y == [v.job[j] EXCEPT !.status = "published", !.platform = TRUE]
  <2> DEFINE m == WithJob(WithPost(v, p), j, y)
  <2>1. /\ y \in Job /\ y.status = "published" /\ y.approvedVersion = v.job[j].approvedVersion
        /\ y.attempts = v.job[j].attempts /\ y.platform = TRUE
    <3> DEFINE z == v.job[j]
    <3>1. z \in Job
      BY ViewTypes
    <3> HIDE DEF z
    <3>2. LET u == [z EXCEPT !.status = "published", !.platform = TRUE]
          IN /\ u \in Job /\ u.status = "published" /\ u.approvedVersion = z.approvedVersion
             /\ u.attempts = z.attempts /\ u.platform = TRUE
      BY <3>1 DEF Job, JobStatus
    <3> QED
      BY <3>2 DEF z
  <2>2. st \in PostStatus
    BY DEF PostStatus
  <2> HIDE DEF y, st
  <2>3. p \in Post /\ p.version = v.post.version
    BY <2>2, ViewTypes DEF Post
  <2> HIDE DEF p
  <2>4. WithPost(v, p) \in View /\ WithPost(v, p).post = p /\ WithPost(v, p).job = v.job
    BY <2>3, WithPostTypes
  <2>5. m \in View /\ m.post = p /\ m.job = [v.job EXCEPT ![j] = y]
    BY <2>1, <2>4, WithJobTypes
  <2>6. w = m
    BY <1>2 DEF Answered, y, p, st
  <2> HIDE DEF m, w
  <2>7. /\ Handled(v, w, j) /\ w.job[j].attempts = v.job[j].attempts
        /\ w.job[j].status = "published" /\ w.job[j].platform = TRUE
    BY <2>1, <2>3, <2>5, <2>6, ViewTypes DEF Handled, Alike
  <2> QED
    BY <2>7 DEF w
<1> QED
  BY <1>1, <1>2

(***************************************************************************)
(* Types                                                                   *)
(***************************************************************************)
SessionTypes == {Idle} \cup [phase : {"open", "loaded"}, order : Orders, seen : View]
WorkerTypes == [phase : {"idle", "list", "claimed", "sending"}, due : SUBSET Jobs,
                cached : SUBSET (Jobs \cup {"post"}), job : Jobs, seen : View]

RowTypes ==
    /\ db \in View
    /\ req \in [Sessions -> SessionTypes]
    /\ worker \in WorkerTypes
    /\ lock \in Sessions \cup {None} /\ used \in 0..MaxRequests
    /\ \A x \in sent : x.job \in Jobs /\ x.path \in Paths /\ x.text \in Texts

LEMMA FreshType == ASSUME ReviewAssumption PROVE Fresh \in View
<1> DEFINE p == [status |-> "pending", version |-> 1, approved |-> 0, text |-> FirstText,
                 tmode |-> "auto", tsel |-> FirstText, tlatest |-> FirstText,
                 warnings |-> {}, current |-> First]
<1> DEFINE J == [j \in Jobs |-> FirstJob(j)]
<1> DEFINE S == [s \in Slots |-> [mode |-> "auto", sel |-> First[s], latest |-> First[s]]]
<1> DEFINE H == [s \in Slots |-> {First[s]}]
<1>1. p \in Post
  BY DEF Post, PostStatus, ReviewAssumption
<1>2. J \in [Jobs -> Job]
  <2> SUFFICES ASSUME NEW j \in Jobs PROVE FirstJob(j) \in Job
    OBVIOUS
  <2>1. First[Default[j]] \in Paths /\ FirstText \in Texts
    BY DEF ReviewAssumption
  <2> QED
    BY <2>1 DEF FirstJob, Job, JobStatus
<1>3. S \in [Slots -> Slot]
  BY DEF Slot, ReviewAssumption
<1>4. H \in [Slots -> SUBSET Paths] /\ {FirstText} \in SUBSET Texts
  BY DEF ReviewAssumption
<1> HIDE DEF p, J, S, H
<1>5. [post |-> p, job |-> J, slot |-> S, shelf |-> H, texts |-> {FirstText}] \in View
  BY <1>1, <1>2, <1>3, <1>4 DEF View
<1> QED
  BY <1>5 DEF Fresh, p, J, S, H

LEMMA EffectType ==
    ASSUME ReviewAssumption, NEW v \in View, NEW o \in Orders PROVE Effect(o, v) \in View
BY EffectShape DEF Granted, Withdrawn

LEMMA SeenType ==
    ASSUME RowTypes, NEW r \in Sessions, req[r].phase # "idle"
    PROVE  /\ req[r] \in [phase : {"open", "loaded"}, order : Orders, seen : View]
           /\ req[r].order \in Orders /\ req[r].seen \in View
           /\ Seen(r) \in View /\ Seen(r).post = req[r].seen.post /\ Seen(r).job = req[r].seen.job
<1>1. req[r] \in [phase : {"open", "loaded"}, order : Orders, seen : View]
  BY DEF RowTypes, SessionTypes, Idle
<1>2. req[r].order \in Orders /\ req[r].seen \in View
  BY <1>1
<1> DEFINE p == req[r].seen.post
<1> DEFINE J == req[r].seen.job
<1>3. p \in Post /\ J \in [Jobs -> Job]
  BY <1>2, ViewTypes
<1> HIDE DEF p, J
<1>4. LET u == [db EXCEPT !.post = p, !.job = J] IN u \in View /\ u.post = p /\ u.job = J
  BY <1>3 DEF View, RowTypes
<1> QED
  BY <1>1, <1>2, <1>4 DEF Seen, p, J

LEMMA HeldType == ASSUME RowTypes PROVE Held \in View
<1> DEFINE p == IF "post" \in worker.cached THEN worker.seen.post ELSE db.post
<1> DEFINE J == [j \in Jobs |-> IF j \in worker.cached THEN worker.seen.job[j] ELSE db.job[j]]
<1>1. db \in View /\ worker.seen \in View
  BY DEF RowTypes, WorkerTypes
<1>2. p \in Post /\ J \in [Jobs -> Job]
  BY <1>1, ViewTypes
<1> HIDE DEF p, J
<1>3. [db EXCEPT !.post = p, !.job = J] \in View
  BY <1>1, <1>2 DEF View
<1>4. Held = [db EXCEPT !.post = p, !.job = J]
  BY DEF Held, p, J
<1> QED
  BY <1>3, <1>4

LEMMA InitTypes == ASSUME ReviewAssumption, ReviewInit PROVE RowTypes
<1>1. db \in View
  <2> DEFINE w == approve(Fresh, Jobs, FALSE)
  <2>1. Fresh \in View /\ Jobs \in SUBSET Jobs /\ FALSE \in BOOLEAN
    BY FreshType
  <2>2. w = Fresh \/ Granted(Fresh, w, Jobs)
    BY <2>1, ApproveShape
  <2>3. db = w
    BY DEF ReviewInit
  <2> HIDE DEF w
  <2> QED
    BY <2>1, <2>2, <2>3 DEF Granted
<1>2. req \in [Sessions -> SessionTypes]
  BY DEF ReviewInit, SessionTypes
<1>3. worker \in WorkerTypes
  BY FreshType DEF ReviewInit, WorkerTypes, Sleeping, Jobs
<1> QED
  <2>1. lock = None /\ used = 0 /\ sent = {} /\ MaxRequests \in Nat
    BY DEF ReviewInit, ReviewAssumption
  <2> QED
    BY <1>1, <1>2, <1>3, <2>1 DEF RowTypes

LEMMA RefusedType ==
    ASSUME NEW v \in View, NEW j \in Jobs, NEW t \in BOOLEAN, NEW x \in BOOLEAN
    PROVE  Refused(v, j, t, x) \in View
BY RefusedShape DEF Handled

LEMMA WriteType ==
    ASSUME RowTypes, NEW v \in View, NEW w \in View, Write(v, w) PROVE db' \in View
BY Merged DEF Write, RowTypes

\* Every step keeps the types.
LEMMA StepTypes ==
    ASSUME ReviewAssumption, RowTypes, [ReviewNext]_reviewVars PROVE RowTypes'
<1>0. /\ db \in View /\ req \in [Sessions -> SessionTypes] /\ worker \in WorkerTypes
      /\ lock \in Sessions \cup {None} /\ used \in 0..MaxRequests
      /\ \A x \in sent : x.job \in Jobs /\ x.path \in Paths /\ x.text \in Texts
  BY DEF RowTypes
<1>a. used + 1 \in 0..MaxRequests \/ ~(used < MaxRequests)
  BY <1>0 DEF ReviewAssumption
<1>1. ASSUME NEW r \in Sessions, NEW o \in Orders, NEW ph \in {"open", "loaded"}, Begin(r, o, ph)
      PROVE  RowTypes'
  <2>1. [phase |-> ph, order |-> o, seen |-> db] \in SessionTypes
    BY <1>0 DEF SessionTypes
  <2>2. req' \in [Sessions -> SessionTypes]
    BY <1>0, <1>1, <2>1 DEF Begin
  <2> QED
    BY <1>0, <1>1, <1>a, <2>2 DEF Begin, RowTypes
<1>2. ASSUME NEW r \in Sessions, NEW o \in Unlocked, OpenRequest(r, o) PROVE RowTypes'
  BY <1>1, <1>2 DEF OpenRequest, Orders
<1>3. ASSUME NEW r \in Sessions, NEW o \in Renders, Claim(r, o) PROVE RowTypes'
  BY <1>1, <1>3 DEF Claim, Orders
<1>4. ASSUME NEW r \in Sessions, Load(r) PROVE RowTypes'
  <2> DEFINE p == req[r].seen.post
  <2> DEFINE s == [db EXCEPT !.post = p]
  <2>1. req[r] \in [phase : {"open", "loaded"}, order : Orders, seen : View] /\ p \in Post
    BY <1>4, SeenType, ViewTypes DEF Load
  <2> HIDE DEF p
  <2>2. s \in View
    BY <1>0, <2>1 DEF View
  <2> HIDE DEF s
  <2>3. [req[r] EXCEPT !.phase = "loaded", !.seen = s] \in SessionTypes
    BY <2>1, <2>2 DEF SessionTypes
  <2>4. req' = [req EXCEPT ![r] = [req[r] EXCEPT !.phase = "loaded", !.seen = s]]
    BY <1>0, <1>4 DEF Load, s, p
  <2>5. req' \in [Sessions -> SessionTypes]
    BY <1>0, <2>3, <2>4
  <2>6. lock' \in Sessions \cup {None}
    BY <1>0, <1>4 DEF Load
  <2> QED
    BY <1>0, <1>4, <2>5, <2>6 DEF Load, RowTypes
<1>5. ASSUME NEW r \in Sessions, Commit(r) PROVE RowTypes'
  <2>1. req[r].order \in Orders /\ Seen(r) \in View
    BY <1>5, SeenType DEF Commit
  <2>2. Effect(req[r].order, Seen(r)) \in View
    BY <2>1, EffectType
  <2>3. db' \in View
    BY <1>0, <1>5, <2>1, <2>2, Merged DEF Commit
  <2>4. req' \in [Sessions -> SessionTypes]
    BY <1>0, <1>5 DEF Commit, SessionTypes
  <2>5. lock' \in Sessions \cup {None}
    BY <1>0, <1>5 DEF Commit
  <2> QED
    BY <1>0, <1>5, <2>3, <2>4, <2>5 DEF Commit, RowTypes
<1>6. ASSUME NEW o \in Locking, Locked(o) PROVE RowTypes'
  <2>1. Effect(o, db) \in View
    BY <1>0, EffectType DEF Orders
  <2> QED
    BY <1>0, <1>6, <1>a, <2>1 DEF Locked, RowTypes
<1>7. CASE ListDue
  <2> DEFINE due == {j \in Jobs : db.job[j].status \in {"scheduled", "retry"}}
  <2>1. worker' = [phase |-> "list", due |-> due, cached |-> due, job |-> "feed", seen |-> db]
    BY <1>7 DEF ListDue, Sleeping
  <2>2. worker' \in WorkerTypes
    BY <1>0, <2>1 DEF WorkerTypes, Jobs
  <2> QED
    BY <1>0, <1>7, <2>2 DEF ListDue, RowTypes
<1>8. ASSUME NEW j \in Jobs, Checked(j) PROVE RowTypes'
  <2> DEFINE v == Held
  <2>0. v \in View
    BY HeldType
  <2> HIDE DEF v
  <2>1. TakenUp(v, j) \in View
    BY <2>0, TakenUpShape DEF Handled
  <2>2. ASSUME NEW t \in BOOLEAN, NEW x \in BOOLEAN PROVE Refused(v, j, t, x) \in View
    BY <2>0, RefusedType
  <2>3. db' \in View
    BY <1>0, <1>8, <2>0, <2>1, <2>2, WriteType DEF Checked, v
  <2>4. worker' \in WorkerTypes
    <3>1. \/ worker' = [worker EXCEPT !.due = @ \ {j}]
          \/ worker' = [worker EXCEPT !.phase = "claimed", !.due = @ \ {j},
                                      !.cached = {}, !.job = j, !.seen = Fresh]
          \/ \E t, x \in BOOLEAN :
               worker' = [worker EXCEPT !.due = @ \ {j}, !.seen = Refused(v, j, t, x),
                                        !.cached = worker.cached \cup {"post", j}]
      BY <1>8, Zenon DEF Checked, v
    <3>2. [worker EXCEPT !.due = @ \ {j}] \in WorkerTypes
      BY <1>0 DEF WorkerTypes
    <3>3. [worker EXCEPT !.phase = "claimed", !.due = @ \ {j},
                         !.cached = {}, !.job = j, !.seen = Fresh] \in WorkerTypes
      BY <1>0, FreshType DEF WorkerTypes
    <3>4. ASSUME NEW u \in View
          PROVE  [worker EXCEPT !.due = @ \ {j}, !.seen = u,
                                !.cached = worker.cached \cup {"post", j}] \in WorkerTypes
      BY <1>0, ZenonT(40) DEF WorkerTypes
    <3> QED
      <4>1. CASE \E t, x \in BOOLEAN :
               worker' = [worker EXCEPT !.due = @ \ {j}, !.seen = Refused(v, j, t, x),
                                        !.cached = worker.cached \cup {"post", j}]
        <5>1. PICK t \in BOOLEAN, x \in BOOLEAN :
               worker' = [worker EXCEPT !.due = @ \ {j}, !.seen = Refused(v, j, t, x),
                                        !.cached = worker.cached \cup {"post", j}]
          BY <4>1, Zenon
        <5> DEFINE u == Refused(v, j, t, x)
        <5>2. u \in View
          BY <2>2
        <5> HIDE DEF u
        <5>3. [worker EXCEPT !.due = @ \ {j}, !.seen = u,
                             !.cached = worker.cached \cup {"post", j}] \in WorkerTypes
          BY <3>4, <5>2, Zenon
        <5> QED
          BY <5>1, <5>3 DEF u
      <4> QED
        BY <3>1, <3>2, <3>3, <4>1, Zenon
  <2> QED
    BY <1>0, <1>8, <2>3, <2>4 DEF Checked, RowTypes
<1>9. CASE FinalCheck
  <2> DEFINE j == worker.job
  <2>0. j \in Jobs
    BY <1>0 DEF WorkerTypes
  <2>1. ASSUME NEW t \in BOOLEAN, NEW x \in BOOLEAN PROVE Refused(db, j, t, x) \in View
    BY <1>0, <2>0, RefusedType
  <2>2. db' \in View
    <3>1. db' = db \/ \E t, x \in BOOLEAN : Write(db, Refused(db, j, t, x))
      BY <1>9 DEF FinalCheck
    <3>2. ASSUME NEW t \in BOOLEAN, NEW x \in BOOLEAN,
      Write(db, Refused(db, j, t, x)) PROVE db' \in View
      BY <1>0, <2>1, <3>2, WriteType
    <3> QED
      BY <1>0, <3>1, <3>2
  <2>3. worker' \in WorkerTypes
    <3>1. \/ worker' = [worker EXCEPT !.phase = "sending", !.seen = db]
          \/ worker' = [worker EXCEPT !.phase = "list"]
      BY <1>9 DEF FinalCheck
    <3>2. /\ [worker EXCEPT !.phase = "sending", !.seen = db] \in WorkerTypes
          /\ [worker EXCEPT !.phase = "list"] \in WorkerTypes
      BY <1>0 DEF WorkerTypes
    <3> QED
      BY <3>1, <3>2
  <2>4. \A x \in sent' : x.job \in Jobs /\ x.path \in Paths /\ x.text \in Texts
    <3>1. db.job[j] \in Job
      BY <1>0, <2>0, ViewTypes
    <3>2. db.job[j].path \in Paths /\ db.job[j].text \in Texts
      BY <3>1 DEF Job
    <3> QED
      BY <1>0, <1>9, <2>0, <3>2 DEF FinalCheck
  <2> QED
    BY <1>0, <1>9, <2>2, <2>3, <2>4 DEF FinalCheck, RowTypes
<1>10. CASE Answer
  <2> DEFINE all == \A k \in Jobs \ {worker.job} : db.job[k].status \in Finished
  <2>0. worker.job \in Jobs /\ worker.seen \in View
    BY <1>0 DEF WorkerTypes
  <2>1. \A x : Answered(worker.seen, worker.job, x, all) \in View
    BY <2>0, AnsweredShape DEF Handled
  <2>2. \E x : Write(worker.seen, Answered(worker.seen, worker.job, x, all))
    BY <1>10 DEF Answer
  <2> HIDE DEF all
  <2>3. db' \in View
    BY <1>0, <2>0, <2>1, <2>2, WriteType
  <2>4. worker' \in WorkerTypes
    BY <1>0, <1>10, FreshType DEF Answer, WorkerTypes
  <2> QED
    BY <1>0, <1>10, <2>3, <2>4 DEF Answer, RowTypes
<1>11. Sleeping \in WorkerTypes
  BY FreshType DEF Sleeping, WorkerTypes, Jobs
<1>12. CASE EndList
  BY <1>0, <1>11, <1>12 DEF EndList, RowTypes
<1>13. CASE Crash
  BY <1>0, <1>11, <1>13, <1>a DEF Crash, RowTypes
<1>14. CASE TimePasses
  <2> DEFINE J == [j \in Jobs |-> [db.job[j] EXCEPT !.past = TRUE]]
  <2>0. \A x \in Job : [x EXCEPT !.past = TRUE] \in Job
    BY DEF Job
  <2>1. J \in [Jobs -> Job]
    BY <1>0, <2>0, ViewTypes
  <2>2. db' = [db EXCEPT !.job = J]
    BY <1>14 DEF TimePasses
  <2> HIDE DEF J
  <2>3. db' \in View
    BY <1>0, <2>1, <2>2 DEF View
  <2> QED
    BY <1>0, <1>14, <2>3 DEF TimePasses, RowTypes
<1>15. CASE SwitchGate
  BY <1>0, <1>15, <1>a DEF SwitchGate, RowTypes
<1>16. CASE UNCHANGED reviewVars
  BY <1>0, <1>16 DEF reviewVars, RowTypes
<1> QED
  BY <1>2, <1>3, <1>4, <1>5, <1>6, <1>7, <1>8, <1>9, <1>10, <1>12, <1>13, <1>14, <1>15, <1>16
     DEF ReviewNext

\* Every row, session and publication has its type.
THEOREM ReviewTypes == ReviewSpec => []ReviewTypeOK
<1>1. ReviewInit => RowTypes
  BY InitTypes, ReviewAssumption
<1>2. RowTypes /\ [ReviewNext]_reviewVars => RowTypes'
  BY StepTypes, ReviewAssumption
<1>3. RowTypes => ReviewTypeOK
  BY SeenType DEF RowTypes, WorkerTypes, ReviewTypeOK
<1> QED
  BY <1>1, <1>2, <1>3, PTL DEF ReviewSpec

(***************************************************************************)
(* What has been published does not go out again                           *)
(***************************************************************************)
Outdated(j) == db.job[j].approvedVersion < db.post.version
Untried(j) == db.job[j].attempts = 0
Busy(j) == worker.phase \in {"claimed", "sending"} /\ worker.job = j

\* A job that is on its way to the publisher, or will be listed.
Moving(j) ==
    \/ j \in worker.due
    \/ worker.phase = "claimed" /\ worker.job = j
    \/ db.job[j].status \in {"scheduled", "retry"}

\* A published job has left the statuses of the list.
JobsInv ==
    /\ db.post.version >= 1
    /\ \A j \in Jobs :
         /\ db.job[j].platform => db.job[j].status \notin {"scheduled", "retry"}
         /\ db.job[j].status = "published" => db.job[j].platform
         /\ db.job[j].approvedVersion <= db.post.version

\* The worker holds no published job; a job that has to be approved again while it is
\* listed has been approved for an older version only.
WorkerInv ==
    /\ worker.phase = "idle" => worker.due = {}
    /\ \A j \in worker.due :
         /\ ~db.job[j].platform
         /\ db.job[j].status = "unapproved" /\ Untried(j) => Outdated(j)
    /\ \A j \in Jobs : Busy(j) => /\ ~db.job[j].platform /\ ~Untried(j) /\ j \notin worker.due
    /\ worker.phase = "sending" =>
         /\ worker.seen.job[worker.job].status # "published"
         /\ ~worker.seen.job[worker.job].platform

Asks(r) == req[r].phase # "idle" /\ req[r].order.name = "approve"
Grants(r) == req[r].phase = "loaded" /\ req[r].order.name = "approve"

\* An approval would reschedule what it read as open and untried: that job has not
\* been published since, and what is on its way will not pass the worker's checks.
ReadOpen(r) ==
    \A j \in req[r].order.jobs :
        req[r].seen.job[j].status = "unapproved" /\ ~Started(req[r].seen.job[j]) =>
          /\ ~db.job[j].platform
          /\ Moving(j) => Outdated(j)
          /\ ~(worker.phase = "sending" /\ worker.job = j)

\* It leaves alone the status of what it read as scheduled, and would approve it for
\* the version it read: an older one, if the job has been opened since.
ReadScheduled(r) ==
    \A j \in req[r].order.jobs :
        /\ req[r].seen.job[j].status = "scheduled"
        /\ db.job[j].status = "unapproved" /\ Untried(j) /\ j \in worker.due
        => req[r].seen.post.version < db.post.version

ApprovalsInv ==
    /\ \A r, t \in Sessions : Asks(r) /\ Asks(t) => r = t
    /\ \A r \in Sessions : req[r].phase # "idle" => req[r].seen.post.version <= db.post.version
    /\ \A r \in Sessions : Grants(r) => ReadOpen(r) /\ ReadScheduled(r)

\* The rows of a deleted post do not change any more.
ResendInv == db.post.status # "deleted" => JobsInv /\ WorkerInv /\ ApprovalsInv

LEMMA NumberTypes ==
    ASSUME db \in View
    PROVE  /\ db.post.version \in Nat
           /\ \A j \in Jobs : db.job[j].approvedVersion \in Nat /\ db.job[j].attempts \in Nat
BY ViewTypes DEF Post, Job

\* Withdrawals, cancellations and what leaves the decisions alone.
LEMMA Withdrawing ==
    ASSUME RowTypes, RowTypes', JobsInv, WorkerInv, ApprovalsInv, Withdrawn(db, db'),
           worker.phase = "idle" \/ CountedUp(db, db'), worker' = worker,
           \A r \in Sessions : req'[r] = req[r] \/ req'[r] = Idle
    PROVE  JobsInv' /\ WorkerInv' /\ ApprovalsInv'
<1>1. /\ db \in View /\ db' \in View /\ worker.due \subseteq Jobs /\ worker.job \in Jobs
      /\ db.post.version \in Nat /\ db'.post.version \in Nat
      /\ \A j \in Jobs : db.job[j].approvedVersion \in Nat /\ db'.job[j].approvedVersion \in Nat
  BY NumberTypes, ViewTypes DEF RowTypes, WorkerTypes, Post, Job
<1>2. /\ db'.post.version \in {db.post.version, db.post.version + 1}
      /\ \A j \in Jobs : /\ db'.job[j].status \in {db.job[j].status, "unapproved", "cancelled"}
                         /\ db'.job[j].approvedVersion \in {db.job[j].approvedVersion, 0}
                         /\ db'.job[j].attempts = db.job[j].attempts
                         /\ db'.job[j].platform = db.job[j].platform
  BY DEF Withdrawn
<1>3. JobsInv'
  BY <1>1, <1>2 DEF JobsInv
<1>4. \A j \in Jobs : Outdated(j) => Outdated(j)'
  BY <1>1, <1>2 DEF JobsInv, Outdated
<1>5. \A j \in Jobs : /\ db'.job[j].status = "unapproved" /\ db.job[j].status # "unapproved"
                      /\ worker.phase # "idle"
                      => /\ db'.post.version = db.post.version + 1
                         /\ Outdated(j)'
  BY <1>1, <1>2 DEF JobsInv, Outdated, CountedUp
<1>6. WorkerInv'
  BY <1>1, <1>2, <1>4, <1>5 DEF WorkerInv, Busy, Untried
<1>7. \A j \in Jobs : (Moving(j))' => Moving(j)
  BY <1>2 DEF Moving
<1>8. ASSUME NEW r \in Sessions, req'[r].phase # "idle"
      PROVE  /\ req'[r] = req[r] /\ req[r] \in SessionTypes /\ req[r].seen.post.version \in Nat
             /\ req[r].seen.post.version <= db.post.version
             /\ req[r].seen.post.version <= db'.post.version
  <2>1. req'[r] = req[r]
    BY <1>8 DEF Idle
  <2>2. req[r].seen.post.version \in Nat
    BY <1>8, <2>1, SeenType, ViewTypes DEF Post
  <2> QED
    BY <1>1, <1>2, <1>8, <2>1, <2>2 DEF ApprovalsInv, RowTypes
<1>9. ASSUME NEW r \in Sessions, Grants(r)' PROVE ReadOpen(r)' /\ ReadScheduled(r)'
  <2>1. /\ req'[r] = req[r] /\ req[r].seen.post.version \in Nat
        /\ req[r].seen.post.version <= db.post.version
    BY <1>8, <1>9 DEF Grants
  <2>2. ReadOpen(r) /\ ReadScheduled(r) /\ req[r].order \in Orders
    BY <1>9, <2>1, SeenType DEF ApprovalsInv, Grants
  <2>3. req[r].order.jobs \in SUBSET Jobs
    BY <1>9, <2>1, <2>2, OrderTypes DEF Grants
  <2>4. ReadOpen(r)'
    BY <1>2, <1>4, <1>7, <2>1, <2>2, <2>3 DEF ReadOpen
  <2>5. ReadScheduled(r)'
    <3> SUFFICES ASSUME NEW j \in req[r].order.jobs, req[r].seen.job[j].status = "scheduled",
                        db'.job[j].status = "unapproved", Untried(j)', j \in worker.due
                 PROVE  req[r].seen.post.version < db'.post.version
      BY <2>1 DEF ReadScheduled
    <3>1. worker.phase # "idle" /\ Untried(j) /\ j \in Jobs
      BY <1>2, <2>3 DEF WorkerInv, Untried
    <3>2. CASE db.job[j].status = "unapproved"
      BY <1>1, <1>2, <2>1, <2>2, <3>1, <3>2 DEF ReadScheduled
    <3>3. CASE db.job[j].status # "unapproved"
      BY <1>1, <1>5, <2>1, <3>1, <3>3
    <3> QED
      BY <3>2, <3>3
  <2> QED
    BY <2>4, <2>5
<1>10. ApprovalsInv'
  <2>1. \A r, t \in Sessions : Asks(r)' /\ Asks(t)' => r = t
    BY <1>8 DEF ApprovalsInv, Asks
  <2> QED
    BY <1>8, <1>9, <2>1 DEF ApprovalsInv
<1> QED
  BY <1>3, <1>6, <1>10

\* An approval: by then the only one.
LEMMA Granting ==
    ASSUME RowTypes, RowTypes', JobsInv, WorkerInv, ApprovalsInv,
           NEW r \in Sessions, Grants(r), req' = [req EXCEPT ![r] = Idle],
           NEW n, Granted(req[r].seen, n, req[r].order.jobs),
           db' = Merge(req[r].seen, n), worker' = worker
    PROVE  JobsInv' /\ WorkerInv' /\ ApprovalsInv'
<1> DEFINE s == req[r].seen
<1> DEFINE J == req[r].order.jobs
<1>1. /\ db \in View /\ db' \in View /\ s \in View /\ n \in View
      /\ worker.due \subseteq Jobs /\ worker.job \in Jobs
      /\ db.post.version \in Nat /\ s.post.version \in Nat
      /\ s.post.version <= db.post.version
      /\ \A j \in Jobs : db.job[j].approvedVersion \in Nat
  BY NumberTypes, SeenType, ViewTypes DEF RowTypes, WorkerTypes, Post, Granted, Grants, ApprovalsInv
<1>2. J \in SUBSET Jobs
  BY OrderTypes, SeenType DEF Grants
<1>3. /\ db'.post.version = db.post.version
      /\ \A j \in Jobs : db'.job[j] = Put(db.job[j], s.job[j], n.job[j])
  BY <1>1, Merged DEF Granted
<1>4. \A j \in Jobs \ J : /\ db'.job[j].status = db.job[j].status
                          /\ db'.job[j].approvedVersion = db.job[j].approvedVersion
  <2> SUFFICES ASSUME NEW j \in Jobs \ J
               PROVE  /\ db'.job[j].status = db.job[j].status
                      /\ db'.job[j].approvedVersion = db.job[j].approvedVersion
    OBVIOUS
  <2>1. db.job[j] \in Job /\ s.job[j] \in Job /\ n.job[j] \in Job
    BY <1>1, ViewTypes
  <2>2. n.job[j].status = s.job[j].status /\ n.job[j].approvedVersion = s.job[j].approvedVersion
    BY DEF Granted, Alike
  <2> QED
    BY <1>3, <2>1, <2>2, PutJob
<1>5. \A j \in J : /\ s.job[j].status \in {"unapproved", "scheduled"} /\ ~Started(s.job[j])
                   /\ \/ db'.job[j].status = "skipped"
                      \/ s.job[j].status = "unapproved" /\ db'.job[j].status = "scheduled"
                      \/ s.job[j].status = "scheduled" /\ db'.job[j].status = db.job[j].status
                   /\ db'.job[j].approvedVersion \in {db.job[j].approvedVersion, s.post.version}
  <2> SUFFICES ASSUME NEW j \in J
               PROVE  /\ s.job[j].status \in {"unapproved", "scheduled"} /\ ~Started(s.job[j])
                      /\ \/ db'.job[j].status = "skipped"
                         \/ s.job[j].status = "unapproved" /\ db'.job[j].status = "scheduled"
                         \/ s.job[j].status = "scheduled" /\ db'.job[j].status = db.job[j].status
                      /\ db'.job[j].approvedVersion \in {db.job[j].approvedVersion, s.post.version}
    OBVIOUS
  <2>1. db.job[j] \in Job /\ s.job[j] \in Job /\ n.job[j] \in Job
    BY <1>1, <1>2, ViewTypes
  <2>2. /\ db'.job[j].status = IF n.job[j].status = s.job[j].status
                               THEN db.job[j].status ELSE n.job[j].status
        /\ db'.job[j].approvedVersion = IF n.job[j].approvedVersion = s.job[j].approvedVersion
                                        THEN db.job[j].approvedVersion ELSE n.job[j].approvedVersion
    BY <1>2, <1>3, <2>1, PutJob, SMTT(40)
  <2> QED
    BY <2>2 DEF Granted
<1>6. \A j \in Jobs : /\ db'.job[j].attempts = db.job[j].attempts
                      /\ db'.job[j].platform = db.job[j].platform
  <2> SUFFICES ASSUME NEW j \in Jobs PROVE /\ db'.job[j].attempts = db.job[j].attempts
                                           /\ db'.job[j].platform = db.job[j].platform
    OBVIOUS
  <2>1. db.job[j] \in Job /\ s.job[j] \in Job /\ n.job[j] \in Job
    BY <1>1, ViewTypes
  <2>2. n.job[j].attempts = s.job[j].attempts /\ n.job[j].platform = s.job[j].platform
    BY DEF Granted, Alike
  <2> QED
    BY <1>3, <2>1, <2>2, PutJob
<1>7. ReadOpen(r) /\ ReadScheduled(r)
  BY DEF ApprovalsInv
<1> HIDE DEF s, J
<1>8. JobsInv'
  <2> SUFFICES ASSUME NEW j \in Jobs
               PROVE  /\ db'.job[j].platform => db'.job[j].status \notin {"scheduled", "retry"}
                      /\ db'.job[j].status = "published" => db'.job[j].platform
                      /\ db'.job[j].approvedVersion <= db'.post.version
    BY <1>3, SMTT(40) DEF JobsInv
  <2>1. CASE j \in J
    BY <1>1, <1>3, <1>5, <1>6, <1>7, <2>1 DEF JobsInv, ReadOpen, s, J
  <2>2. CASE j \notin J
    BY <1>3, <1>4, <1>6, <2>2 DEF JobsInv
  <2> QED
    BY <2>1, <2>2
<1>9. WorkerInv'
  <2>1. ASSUME NEW j \in worker.due, db'.job[j].status = "unapproved",
    Untried(j)' PROVE Outdated(j)'
    <3>1. j \in Jobs /\ Untried(j)
      BY <1>1, <1>6, <2>1 DEF Untried
    <3>2. CASE j \in J
      <4>1. s.job[j].status = "scheduled" /\ db.job[j].status = "unapproved"
        BY <1>5, <2>1, <3>2
      <4>2. s.post.version < db.post.version /\ Outdated(j)
        BY <1>7, <2>1, <3>1, <3>2, <4>1 DEF ReadScheduled, WorkerInv, s, J
      <4> QED
        BY <1>3, <1>5, <3>2, <4>2 DEF Outdated
    <3>3. CASE j \notin J
      BY <1>3, <1>4, <2>1, <3>1, <3>3 DEF Outdated, WorkerInv
    <3> QED
      BY <3>2, <3>3
  <2> QED
    BY <1>1, <1>6, <2>1 DEF WorkerInv, Busy, Untried
<1>10. ASSUME NEW t \in Sessions, req'[t].phase # "idle"
       PROVE  t # r /\ req'[t] = req[t]
  BY <1>10 DEF RowTypes, Idle
<1>11. \A t \in Sessions : ~Asks(t)'
  BY <1>10 DEF ApprovalsInv, Asks, Grants
<1>12. ApprovalsInv'
  BY <1>3, <1>10, <1>11 DEF ApprovalsInv, Asks, Grants
<1> QED
  BY <1>8, <1>9, <1>12

\* A step of the worker on job j, after which the requests are where they were.
LEMMA Handling ==
    ASSUME RowTypes, RowTypes', JobsInv, WorkerInv, ApprovalsInv, req' = req,
           NEW j \in Jobs, Handled(db, db', j) \/ db' = db,
           db'.job[j].status \in {db.job[j].status, "scheduled", "unapproved", "publishing",
                                  "published", "retry", "uncertain", "failed"},
           db'.job[j].platform => db'.job[j].status \notin {"scheduled", "retry"},
           db'.job[j].status = "published" => db'.job[j].platform,
           db'.job[j].platform # db.job[j].platform => worker.phase = "sending" /\ worker.job = j,
           Untried(j)' => Untried(j),
           j \in worker.due \/ Busy(j),
           worker'.due \subseteq worker.due \ {j},
           worker'.phase \in {"list", "claimed", "sending"},
           worker'.phase \in {"claimed", "sending"} =>
              worker'.job = j /\ ~db'.job[j].platform /\ ~Untried(j)',
           worker'.phase = "sending" =>
              /\ worker'.seen.job[j].status # "published" /\ ~worker'.seen.job[j].platform
              /\ worker.phase = "claimed" /\ ~Outdated(j)
    PROVE  JobsInv' /\ WorkerInv' /\ ApprovalsInv'
<1>1. /\ db \in View /\ db' \in View /\ worker.due \subseteq Jobs
      /\ db'.post.version = db.post.version
      /\ \A k \in Jobs : db'.job[k].approvedVersion = db.job[k].approvedVersion
      /\ \A k \in Jobs \ {j} : Alike(db.job[k], db'.job[k])
  BY DEF RowTypes, WorkerTypes, Handled, Alike
<1>2. \A k \in Jobs : Outdated(k)' <=> Outdated(k)
  BY <1>1 DEF Outdated
<1>3. \A k \in Jobs : Untried(k)' => Untried(k)
  BY <1>1 DEF Untried, Alike
<1>4. JobsInv'
  BY <1>1 DEF JobsInv, Alike
<1>5. WorkerInv'
  <2>1. ASSUME NEW k \in worker'.due
        PROVE  k \in worker.due /\ k \in Jobs \ {j} /\ Alike(db.job[k], db'.job[k])
    BY <1>1
  <2>2. \A k \in worker'.due : /\ ~db'.job[k].platform
                               /\ db'.job[k].status = "unapproved" /\ Untried(k)' => Outdated(k)'
    BY <1>1, <1>2, <1>3, <2>1 DEF WorkerInv, Alike
  <2>3. \A k \in Jobs : Busy(k)' => k = j
    BY DEF Busy
  <2> QED
    BY <2>2, <2>3 DEF WorkerInv, Busy
<1>6. \A k \in Jobs : Moving(k)' => Moving(k) \/ (worker.phase = "sending" /\ worker.job = k)
  <2> SUFFICES ASSUME NEW k \in Jobs, Moving(k)'
               PROVE  Moving(k) \/ (worker.phase = "sending" /\ worker.job = k)
    OBVIOUS
  <2>1. CASE k = j
    BY ONLY <2>1, j \in worker.due \/ Busy(j) DEF Moving, Busy
  <2>2. CASE k # j
    <3>1. db'.job[k].status = db.job[k].status
      BY <1>1, <2>2 DEF Alike
    <3>2. k \in worker'.due => k \in worker.due
      OBVIOUS
    <3>3. ~(worker'.phase = "claimed" /\ worker'.job = k)
      BY <2>2
    <3> QED
      BY ONLY <3>1, <3>2, <3>3, Moving(k)' DEF Moving
  <2> QED
    BY <2>1, <2>2
<1>7. ASSUME NEW r \in Sessions, Grants(r)' PROVE ReadOpen(r)' /\ ReadScheduled(r)'
  <2>1. Grants(r) /\ ReadOpen(r) /\ ReadScheduled(r)
    BY <1>7 DEF Grants, ApprovalsInv
  <2>2. req[r].order.jobs \in SUBSET Jobs
    BY <2>1, OrderTypes, SeenType DEF Grants
  <2>3. ReadOpen(r)'
    <3> SUFFICES ASSUME NEW k \in req[r].order.jobs,
                        req[r].seen.job[k].status = "unapproved", ~Started(req[r].seen.job[k])
                 PROVE  /\ ~db'.job[k].platform
                        /\ Moving(k)' => Outdated(k)'
                        /\ ~(worker'.phase = "sending" /\ worker'.job = k)
      BY DEF ReadOpen
    <3>1. /\ k \in Jobs /\ ~db.job[k].platform /\ (Moving(k) => Outdated(k))
          /\ ~(worker.phase = "sending" /\ worker.job = k)
      BY <2>1, <2>2 DEF ReadOpen
    <3>2. ~db'.job[k].platform
      BY <1>1, <3>1 DEF Alike
    <3>3. Moving(k)' => Outdated(k)'
      BY <1>2, <1>6, <3>1
    <3>4. ~(worker'.phase = "sending" /\ worker'.job = k)
      BY <3>1 DEF Moving, Busy, WorkerInv
    <3> QED
      BY <3>2, <3>3, <3>4
  <2>4. ReadScheduled(r)'
    BY <1>1, <1>3, <2>1, <2>2 DEF ReadScheduled, Alike
  <2> QED
    BY <2>3, <2>4
<1>8. ApprovalsInv'
  BY <1>1, <1>7 DEF ApprovalsInv, Asks
<1> QED
  BY <1>4, <1>5, <1>8

\* A post that is deleted stays so.
LEMMA StaysDeleted ==
    ASSUME RowTypes, [ReviewNext]_reviewVars, db.post.status = "deleted"
    PROVE  db'.post.status = "deleted"
<1>1. db' = db \/ TimePasses
  BY Zenon DEF ReviewNext, reviewVars, OpenRequest, Claim, Begin, Load, Commit, Locked, ListDue,
    Checked,
     FinalCheck, Answer, EndList, Crash, SwitchGate, Write
<1>2. CASE TimePasses
  BY <1>2 DEF TimePasses, RowTypes, View
<1> QED
  BY <1>1, <1>2, SMTT(40)

LEMMA ReviewBegins ==
    ASSUME ReviewAssumption, ReviewInit PROVE JobsInv /\ WorkerInv /\ ApprovalsInv
<1> DEFINE w == approve(Fresh, Jobs, FALSE)
<1>1. /\ Fresh \in View /\ Fresh.post.version = 1
      /\ \A j \in Jobs : /\ Fresh.job[j].status = "unapproved" /\ Fresh.job[j].approvedVersion = 0
                         /\ Fresh.job[j].platform = FALSE
  BY FreshType DEF Fresh, FirstJob
<1>2. w = Fresh \/ Granted(Fresh, w, Jobs)
  <2>1. Jobs \in SUBSET Jobs /\ FALSE \in BOOLEAN
    OBVIOUS
  <2> QED
    BY <1>1, <2>1, ApproveShape
<1>3. db = w
  BY DEF ReviewInit
<1> HIDE DEF w
<1>4. JobsInv
  BY <1>1, <1>2, <1>3 DEF JobsInv, Granted
<1>5. worker.phase = "idle" /\ worker.due = {}
  BY DEF ReviewInit, Sleeping
<1>6. WorkerInv
  BY <1>5 DEF WorkerInv, Busy
<1>7. \A r \in Sessions : req[r].phase = "idle"
  BY DEF ReviewInit, Idle
<1>8. ApprovalsInv
  BY <1>7 DEF ApprovalsInv, Asks, Grants
<1> QED
  BY <1>4, <1>6, <1>8

\* What the worker's session holds of a job, and what it writes of it.
LEMMA Writing ==
    ASSUME RowTypes, NEW v \in View, NEW w \in View, NEW j \in Jobs, Handled(v, w, j), Write(v, w),
           db.post.status # "deleted"
    PROVE  /\ Handled(db, db', j)
           /\ db'.job[j].status = IF w.job[j].status = v.job[j].status
                                  THEN db.job[j].status ELSE w.job[j].status
           /\ db'.job[j].attempts = IF w.job[j].attempts = v.job[j].attempts
                                    THEN db.job[j].attempts ELSE w.job[j].attempts
           /\ db'.job[j].platform = IF w.job[j].platform = v.job[j].platform
                                    THEN db.job[j].platform ELSE w.job[j].platform
<1>1. db \in View /\ db' = Merge(v, w)
  BY DEF Write, RowTypes
<1> QED
  BY <1>1, MergedHandling

\* Every step keeps the invariant.
LEMMA ResendStep ==
    ASSUME ReviewAssumption, Overlapping = {}, RowTypes, ResendInv, [ReviewNext]_reviewVars
    PROVE  ResendInv'
<1> SUFFICES ASSUME db'.post.status # "deleted" PROVE JobsInv' /\ WorkerInv' /\ ApprovalsInv'
  BY DEF ResendInv
<1>0. db.post.status # "deleted" /\ JobsInv /\ WorkerInv /\ ApprovalsInv
  BY StaysDeleted DEF ResendInv
<1>a. RowTypes'
  BY StepTypes
<1>b. /\ db \in View /\ db.post.version \in Nat /\ req \in [Sessions -> SessionTypes]
      /\ worker \in WorkerTypes
  BY NumberTypes DEF RowTypes
<1>c. Withdrawn(db, db) /\ CountedUp(db, db)
  BY <1>b DEF Withdrawn, CountedUp
<1>1. ASSUME NEW r \in Sessions, NEW o \in Orders, NEW ph \in {"open", "loaded"}, Begin(r, o, ph),
             o.name = "approve" => ph = "open" /\ ~Approving
      PROVE  JobsInv' /\ WorkerInv' /\ ApprovalsInv'
  <2>1. db' = db /\ worker' = worker /\ req' = [req EXCEPT ![r] = [phase |-> ph, order |-> o, seen |-> db]]
    BY <1>1 DEF Begin
  <2>2. JobsInv' /\ WorkerInv'
    BY <1>0, <2>1 DEF JobsInv, WorkerInv, Busy, Untried, Outdated
  <2>3. /\ req'[r] = [phase |-> ph, order |-> o, seen |-> db]
        /\ \A t \in Sessions \ {r} : req'[t] = req[t]
    BY <1>b, <2>1
  <2>4. ~Grants(r)'
    BY <1>1, <2>3 DEF Grants
  <2>5. \A s, t \in Sessions : Asks(s)' /\ Asks(t)' => s = t
    BY <1>0, <1>1, <2>3 DEF ApprovalsInv, Asks, Approving
  <2>6. \A t \in Sessions : req'[t].phase # "idle" => req'[t].seen.post.version <= db'.post.version
    BY <1>0, <1>b, <2>1, <2>3 DEF ApprovalsInv
  <2>7. ASSUME NEW t \in Sessions, Grants(t)' PROVE ReadOpen(t)' /\ ReadScheduled(t)'
    <3>1. t # r /\ req'[t] = req[t]
      BY <2>3, <2>4, <2>7
    <3>2. ReadOpen(t) /\ ReadScheduled(t)
      BY <1>0, <2>7, <3>1 DEF ApprovalsInv, Grants
    <3> QED
      BY <2>1, <3>1, <3>2 DEF ReadOpen, ReadScheduled, Moving, Outdated, Untried
  <2> QED
    BY <2>2, <2>5, <2>6, <2>7 DEF ApprovalsInv
<1>2. ASSUME NEW r \in Sessions, NEW o \in Unlocked, OpenRequest(r, o)
      PROVE  JobsInv' /\ WorkerInv' /\ ApprovalsInv'
  BY <1>1, <1>2 DEF OpenRequest, Orders
<1>3. ASSUME NEW r \in Sessions, NEW o \in Renders, Claim(r, o)
      PROVE  JobsInv' /\ WorkerInv' /\ ApprovalsInv'
  <2>1. o.name # "approve"
    BY DEF Renders, Rerenders, Revisions, Recompositions
  <2> QED
    BY <1>1, <1>3, <2>1 DEF Claim, Orders
<1>4. ASSUME NEW r \in Sessions, Load(r) PROVE JobsInv' /\ WorkerInv' /\ ApprovalsInv'
  <2> DEFINE p == req[r].seen.post
  <2> DEFINE s == [db EXCEPT !.post = p]
  <2>1. /\ req[r] \in [phase : {"open", "loaded"}, order : Orders, seen : View] /\ p \in Post
        /\ db' = db /\ worker' = worker
    BY <1>4, SeenType, ViewTypes DEF Load
  <2>2. /\ req'[r].order = req[r].order /\ req'[r].phase = "loaded" /\ req'[r].seen = s
        /\ \A t \in Sessions \ {r} : req'[t] = req[t]
    <3>1. [req[r] EXCEPT !.phase = "loaded", !.seen = s].order = req[r].order
      BY <2>1
    <3>2. req' = [req EXCEPT ![r] = [req[r] EXCEPT !.phase = "loaded", !.seen = s]]
      BY <1>b, <1>4 DEF Load
    <3> HIDE DEF s
    <3>3. LET x == [req[r] EXCEPT !.phase = "loaded", !.seen = s] IN x.phase = "loaded" /\ x.seen = s
      BY <2>1
    <3> QED
      BY <1>b, <3>1, <3>2, <3>3 DEF s
  <2> HIDE DEF p
  <2>3. s.post = p /\ s.job = db.job
    BY <1>b DEF View
  <2> HIDE DEF s
  <2>4. JobsInv' /\ WorkerInv'
    BY <1>0, <2>1 DEF JobsInv, WorkerInv, Busy, Untried, Outdated
  <2>5. \A t \in Sessions : /\ req'[t].order = req[t].order
                            /\ req'[t].phase # "idle" => req[t].phase # "idle"
    BY <1>4, <2>2 DEF Load
  <2>6. \A t, u \in Sessions : Asks(t)' /\ Asks(u)' => t = u
    BY <1>0, <2>5 DEF ApprovalsInv, Asks
  <2>7. \A t \in Sessions : req'[t].phase # "idle" => req'[t].seen.post.version <= db'.post.version
    BY <1>0, <1>4, <2>1, <2>2, <2>3, ZenonT(40) DEF ApprovalsInv, Load, p
  <2>8. ASSUME Grants(r)' PROVE ReadOpen(r)' /\ ReadScheduled(r)'
    <3>1. req[r].order.jobs \in SUBSET Jobs
      BY <2>1, <2>2, <2>8, OrderTypes DEF Grants
    <3>2. ASSUME NEW j \in req[r].order.jobs, db.job[j].status = "unapproved", ~Started(db.job[j])
          PROVE  /\ ~db.job[j].platform /\ (Moving(j) => Outdated(j))
                 /\ ~(worker.phase = "sending" /\ worker.job = j)
      <4>1. j \in Jobs /\ db.job[j] \in Job
        BY <1>b, <3>1, ViewTypes
      <4>2. ~db.job[j].platform /\ Untried(j)
        BY <3>2, <4>1 DEF Started, Untried, Job
      <4> QED
        BY <1>0, <3>2, <4>1, <4>2 DEF WorkerInv, Busy, Moving
    <3>3. ReadOpen(r)'
      BY <2>1, <2>2, <2>3, <3>2 DEF ReadOpen, Moving, Outdated
    <3>4. ReadScheduled(r)'
      BY <2>1, <2>2, <2>3 DEF ReadScheduled
    <3> QED
      BY <3>3, <3>4
  <2>9. ASSUME NEW t \in Sessions, Grants(t)' PROVE ReadOpen(t)' /\ ReadScheduled(t)'
    <3>1. CASE t = r
      BY <2>8, <2>9, <3>1
    <3>2. CASE t # r
      <4>1. req'[t] = req[t] /\ ReadOpen(t) /\ ReadScheduled(t)
        BY <1>0, <2>2, <2>9, <3>2 DEF ApprovalsInv, Grants
      <4> QED
        BY <2>1, <4>1 DEF ReadOpen, ReadScheduled, Moving, Outdated, Untried
    <3> QED
      BY <3>1, <3>2
  <2> QED
    BY <2>4, <2>6, <2>7, <2>9 DEF ApprovalsInv
<1>5. ASSUME NEW r \in Sessions, Commit(r) PROVE JobsInv' /\ WorkerInv' /\ ApprovalsInv'
  <2> DEFINE o == req[r].order
  <2> DEFINE s == Seen(r)
  <2> DEFINE n == Effect(o, s)
  <2>1. /\ o \in Orders /\ s \in View /\ s.post = req[r].seen.post /\ req[r].seen \in View
        /\ n \in View
    BY <1>5, SeenType, EffectType DEF Commit
  <2>2. db' = Merge(s, n) /\ worker' = worker /\ req' = [req EXCEPT ![r] = Idle]
    BY <1>0, <1>5 DEF Commit
  <2>3. \A t \in Sessions : req'[t] = req[t] \/ req'[t] = Idle
    BY <1>b, <2>2
  <2>4. CASE o.name = "approve"
    <3>1. s = req[r].seen
      BY <2>4 DEF Seen, Renders, Rerenders, Revisions, Recompositions
    <3>2. n = s \/ Granted(s, n, o.jobs)
      BY <2>1, <2>4, EffectShape
    <3>3. CASE n = s
      <4>1. Withdrawn(s, n) /\ CountedUp(s, n)
        BY <2>1, <3>3 DEF Withdrawn, CountedUp
      <4>2. Withdrawn(db, db') /\ CountedUp(db, db')
        BY <1>b, <2>1, <2>2, <3>3, <4>1, MergedWithdrawal
      <4> QED
        BY <1>0, <1>a, <2>2, <2>3, <4>2, Withdrawing
    <3>4. CASE Granted(s, n, o.jobs)
      <4>1. Grants(r)
        BY <1>5, <2>4 DEF Commit, Grants
      <4> HIDE DEF n
      <4> QED
        BY <1>0, <1>a, <2>2, <3>1, <3>4, <4>1, Granting, ZenonT(40)
    <3> QED
      BY <3>2, <3>3, <3>4
  <2>5. CASE o.name # "approve"
    <3>1. /\ Withdrawn(s, n) /\ (o.name # "reject" => CountedUp(s, n))
          /\ o.name \in {"reject", "cancel"} => n.post.version = s.post.version
      BY <2>1, <2>5, EffectShape
    <3>2. s.post = db.post \/ n.post.version = s.post.version
      BY <1>5, <2>1, <2>5, <3>1 DEF Commit, Overtaken, MayOverlap
    <3>3. o.name = "reject" => worker.phase = "idle"
      BY <1>5 DEF Commit
    <3> HIDE DEF n, s
    <3>4. Withdrawn(db, db') /\ (CountedUp(s, n) => CountedUp(db, db'))
      BY <1>b, <2>1, <2>2, <3>1, <3>2, MergedWithdrawal
    <3> QED
      BY <1>0, <1>a, <2>2, <2>3, <3>1, <3>3, <3>4, Withdrawing
  <2> QED
    BY <2>4, <2>5
<1>6. ASSUME NEW o \in Locking, Locked(o) PROVE JobsInv' /\ WorkerInv' /\ ApprovalsInv'
  <2>1. o \in Orders /\ o.name \notin {"approve", "reject"}
    BY DEF Orders, Locking
  <2>2. Withdrawn(db, Effect(o, db)) /\ CountedUp(db, Effect(o, db))
    BY <1>b, <2>1, EffectShape
  <2>3. db' = Effect(o, db) /\ worker' = worker /\ req' = req
    BY <1>6 DEF Locked
  <2> QED
    BY <1>0, <1>a, <2>2, <2>3, Withdrawing
<1>7. CASE ListDue
  <2> DEFINE due == {j \in Jobs : db.job[j].status \in {"scheduled", "retry"}}
  <2>1. /\ worker' = [phase |-> "list", due |-> due, cached |-> due, job |-> "feed", seen |-> db]
        /\ db' = db /\ req' = req
    BY <1>7 DEF ListDue, Sleeping
  <2>2. JobsInv' /\ WorkerInv'
    BY <1>0, <2>1 DEF JobsInv, WorkerInv, Busy
  <2>3. \A j \in Jobs : Moving(j)' => Moving(j)
    BY <2>1 DEF Moving
  <2>4. ASSUME NEW r \in Sessions, Grants(r)' PROVE ReadOpen(r)' /\ ReadScheduled(r)'
    <3>1. Grants(r) /\ ReadOpen(r) /\ ReadScheduled(r)
      BY <1>0, <2>1, <2>4 DEF ApprovalsInv, Grants
    <3>2. req[r].order.jobs \in SUBSET Jobs
      BY <3>1, OrderTypes, SeenType DEF Grants
    <3>3. ReadOpen(r)'
      BY <2>1, <2>3, <3>1, <3>2 DEF ReadOpen, Outdated
    <3>4. ReadScheduled(r)'
      BY <2>1 DEF ReadScheduled
    <3> QED
      BY <3>3, <3>4
  <2> QED
    BY <1>0, <2>1, <2>2, <2>4 DEF ApprovalsInv, Asks
<1>8. ASSUME NEW j \in Jobs, Checked(j) PROVE JobsInv' /\ WorkerInv' /\ ApprovalsInv'
  <2> DEFINE v == Held
  <2>0. v \in View /\ v.job[j] \in Job /\ j \in worker.due /\ ~db.job[j].platform /\ req' = req
        /\ db.job[j].attempts \in Nat /\ v.job[j].attempts \in Nat
    BY <1>0, <1>8, HeldType, NumberTypes, ViewTypes DEF Checked, WorkerInv, RowTypes, Job
  <2> HIDE DEF v
  <2>1. CASE db' = db /\ worker' = [worker EXCEPT !.due = @ \ {j}]
    <3>1. worker'.due = worker.due \ {j} /\ worker'.phase = "list"
      BY <1>b, <1>8, <2>1 DEF Checked, WorkerTypes
    <3>2. db.job[j].status \in JobStatus
      BY <1>b, ViewTypes DEF Job
    <3> QED
      BY <1>0, <1>a, <2>0, <2>1, <3>1, Handling DEF JobsInv, Untried
  <2>2. CASE /\ v.job[j].status # "publishing" /\ Write(v, TakenUp(v, j))
             /\ worker' = [worker EXCEPT !.phase = "claimed", !.due = @ \ {j},
                                         !.cached = {}, !.job = j, !.seen = Fresh]
    <3> DEFINE w == TakenUp(v, j)
    <3>1. /\ Handled(v, w, j) /\ w.job[j].status = "publishing" /\ w \in View
          /\ w.job[j].attempts = v.job[j].attempts + 1 /\ w.job[j].platform = v.job[j].platform
      BY <2>0, TakenUpShape DEF Handled
    <3> HIDE DEF w
    <3>2. /\ Handled(db, db', j) /\ db'.job[j].status = "publishing"
          /\ db'.job[j].attempts = v.job[j].attempts + 1
          /\ db'.job[j].platform = db.job[j].platform
      BY <1>0, <2>0, <2>2, <3>1, Writing DEF w
    <3>3. worker'.due = worker.due \ {j} /\ worker'.phase = "claimed" /\ worker'.job = j
      BY <1>b, <2>2 DEF WorkerTypes
    <3>4. ~Untried(j)'
      BY <2>0, <3>2 DEF Untried
    <3> QED
      BY <1>0, <1>a, <2>0, <3>2, <3>3, <3>4, Handling
  <2>3. CASE \E t, x \in BOOLEAN :
               /\ Write(v, Refused(v, j, t, x))
               /\ worker' = [worker EXCEPT !.due = @ \ {j}, !.seen = Refused(v, j, t, x),
                                           !.cached = worker.cached \cup {"post", j}]
    <3>1. PICK t \in BOOLEAN, x \in BOOLEAN :
               /\ Write(v, Refused(v, j, t, x))
               /\ worker' = [worker EXCEPT !.due = @ \ {j}, !.seen = Refused(v, j, t, x),
                                           !.cached = worker.cached \cup {"post", j}]
      BY <2>3, Zenon
    <3> DEFINE w == Refused(v, j, t, x)
    <3>2. /\ Handled(v, w, j) /\ w.job[j].status \in {"scheduled", "unapproved"} /\ w \in View
          /\ w.job[j].attempts = v.job[j].attempts /\ w.job[j].platform = v.job[j].platform
      BY <2>0, RefusedShape DEF Handled
    <3> HIDE DEF w
    <3>3. /\ Handled(db, db', j)
          /\ db'.job[j].status \in {db.job[j].status, "scheduled", "unapproved"}
          /\ db'.job[j].attempts = db.job[j].attempts
          /\ db'.job[j].platform = db.job[j].platform
      BY <1>0, <2>0, <3>1, <3>2, Writing DEF w
    <3>4. worker'.due = worker.due \ {j} /\ worker'.phase = "list"
      BY <1>b, <1>8, <3>1 DEF WorkerTypes, Checked
    <3> QED
      BY <1>0, <1>a, <2>0, <3>3, <3>4, Handling DEF JobsInv, Untried
  <2> QED
    BY <1>8, <2>1, <2>2, <2>3, Zenon DEF Checked, v
<1>9. CASE FinalCheck
  <2> DEFINE j == worker.job
  <2>0. j \in Jobs /\ Busy(j) /\ ~db.job[j].platform /\ ~Untried(j) /\ j \notin worker.due /\ req' = req
        /\ db.job[j] \in Job
    BY <1>0, <1>9, <1>b, ViewTypes DEF FinalCheck, Busy, WorkerInv, WorkerTypes
  <2>1. CASE /\ db' = db /\ VersionGate(db, j)
             /\ worker' = [worker EXCEPT !.phase = "sending", !.seen = db]
    <3>1. worker'.due = worker.due /\ worker'.phase = "sending" /\ worker'.job = j /\ worker'.seen = db
      BY <1>b, <2>1 DEF WorkerTypes
    <3>2. ~Outdated(j) /\ worker.phase = "claimed"
      BY <1>9, <1>b, <2>1 DEF Outdated, VersionGate, FinalCheck
    <3>3. db.job[j].status # "published"
      BY <1>0, <2>0 DEF JobsInv
    <3> QED
      BY <1>0, <1>a, <2>0, <2>1, <3>1, <3>2, <3>3, Handling DEF JobsInv, Untried
  <2>2. CASE \E t, x \in BOOLEAN : Write(db, Refused(db, j, t, x)) /\ worker' = [worker EXCEPT !.phase = "list"]
    <3>1. PICK t \in BOOLEAN, x \in BOOLEAN :
            Write(db, Refused(db, j, t, x)) /\ worker' = [worker EXCEPT !.phase = "list"]
      BY <2>2, Zenon
    <3> DEFINE w == Refused(db, j, t, x)
    <3>2. /\ Handled(db, w, j) /\ w.job[j].status \in {"scheduled", "unapproved"} /\ w \in View
          /\ w.job[j].attempts = db.job[j].attempts /\ w.job[j].platform = db.job[j].platform
      BY <1>b, <2>0, RefusedShape DEF Handled
    <3> HIDE DEF w
    <3>3. /\ Handled(db, db', j)
          /\ db'.job[j].status \in {db.job[j].status, "scheduled", "unapproved"}
          /\ db'.job[j].attempts = db.job[j].attempts
          /\ db'.job[j].platform = db.job[j].platform
      BY <1>0, <1>b, <2>0, <3>1, <3>2, Writing DEF w
    <3>4. worker'.due = worker.due /\ worker'.phase = "list"
      BY <1>b, <3>1 DEF WorkerTypes
    <3> QED
      BY <1>0, <1>a, <2>0, <3>3, <3>4, Handling DEF JobsInv, Untried
  <2> QED
    BY <1>9, <2>1, <2>2 DEF FinalCheck
<1>10. CASE Answer
  <2> DEFINE j == worker.job
  <2> DEFINE v == worker.seen
  <2> DEFINE all == \A k \in Jobs \ {j} : db.job[k].status \in Finished
  <2>0. /\ j \in Jobs /\ v \in View /\ Busy(j) /\ ~db.job[j].platform /\ ~Untried(j)
        /\ j \notin worker.due /\ req' = req /\ worker.phase = "sending" /\ db.job[j] \in Job
        /\ v.job[j].status # "published" /\ ~v.job[j].platform /\ v.job[j].platform \in BOOLEAN
    BY <1>0, <1>10, <1>b, ViewTypes DEF Answer, Busy, WorkerInv, WorkerTypes, Job
  <2>1. PICK x \in Outcomes, a \in BOOLEAN : Write(v, Answered(v, j, x, a))
    <3>1. all \in BOOLEAN
      OBVIOUS
    <3>2. \E x \in Outcomes : Write(v, Answered(v, j, x, all))
      BY <1>10 DEF Answer
    <3> HIDE DEF all
    <3> QED
      BY <3>1, <3>2, Zenon
  <2> DEFINE w == Answered(v, j, x, a)
  <2>2. /\ Handled(v, w, j) /\ w \in View /\ w.job[j].attempts = v.job[j].attempts
        /\ \/ w.job[j].status \in {"retry", "uncertain", "failed"} /\ w.job[j].platform = v.job[j].platform
           \/ w.job[j].status = "published" /\ w.job[j].platform = TRUE
    <3>1. v \in View /\ j \in Jobs
      BY <2>0
    <3> HIDE DEF v, j
    <3>2. /\ Handled(v, w, j) /\ w.job[j].attempts = v.job[j].attempts
          /\ \/ w.job[j].status \in {"retry", "uncertain", "failed"} /\ w.job[j].platform = v.job[j].platform
             \/ w.job[j].status = "published" /\ w.job[j].platform = TRUE
      BY ONLY <3>1, a \in BOOLEAN, AnsweredShape, Zenon
    <3> QED
      BY <3>2 DEF Handled
  <2> HIDE DEF w, v
  <2>3. /\ Handled(db, db', j)
        /\ db'.job[j].attempts = db.job[j].attempts
        /\ \/ /\ db'.job[j].status \in {db.job[j].status, "retry", "uncertain", "failed"}
              /\ db'.job[j].platform = db.job[j].platform
           \/ db'.job[j].status = "published" /\ db'.job[j].platform = TRUE
    BY <1>0, <2>0, <2>1, <2>2, Writing DEF w
  <2>4. worker'.due = worker.due /\ worker'.phase = "list"
    BY <1>10, <1>b DEF Answer, WorkerTypes
  <2> QED
    BY <1>0, <1>a, <2>0, <2>3, <2>4, Handling, ZenonT(40) DEF JobsInv, Untried
<1>11. CASE EndList \/ Crash
  <2>1. /\ db' = db /\ req' = req /\ worker'.phase = "idle" /\ worker'.due = {}
    BY <1>11 DEF EndList, Crash, Sleeping
  <2>2. JobsInv' /\ WorkerInv'
    BY <1>0, <2>1 DEF JobsInv, WorkerInv, Busy
  <2>3. \A r \in Sessions : Grants(r)' => ReadOpen(r)' /\ ReadScheduled(r)'
    BY <1>0, <2>1 DEF ApprovalsInv, Grants, ReadOpen, ReadScheduled, Moving, Outdated
  <2> QED
    BY <1>0, <2>1, <2>2, <2>3 DEF ApprovalsInv, Asks
<1>12. CASE TimePasses
  <2>0. \A x \in Job : [x EXCEPT !.past = TRUE] \in Job /\ Alike(x, [x EXCEPT !.past = TRUE])
    BY DEF Job, Alike
  <2> DEFINE J == [j \in Jobs |-> [db.job[j] EXCEPT !.past = TRUE]]
  <2>1. J \in [Jobs -> Job] /\ \A j \in Jobs : Alike(db.job[j], J[j])
    BY <1>b, <2>0, ViewTypes
  <2>2. db' = [db EXCEPT !.job = J] /\ worker' = worker /\ req' = req
    BY <1>12 DEF TimePasses
  <2> HIDE DEF J
  <2>3. Keeps(db, db')
    BY <1>b, <2>1, <2>2 DEF Keeps, View
  <2> QED
    BY <1>0, <1>a, <2>2, <2>3, KeepsWithdrawn, Withdrawing
<1>13. CASE SwitchGate \/ UNCHANGED reviewVars
  <2>1. db' = db /\ worker' = worker /\ req' = req
    BY <1>13 DEF SwitchGate, reviewVars
  <2> QED
    BY <1>0, <1>a, <1>c, <2>1, Withdrawing
<1> QED
  BY <1>2, <1>3, <1>4, <1>5, <1>6, <1>7, <1>8, <1>9, <1>10, <1>11, <1>12, <1>13 DEF ReviewNext

\* What a platform has accepted is never handed to the publisher again (publishing/worker.py
\* process_job), as long as no request is overtaken, no second approval is under way, and no
\* rejection meets the worker at work.
THEOREM PublishedOnce ==
    ASSUME Overlapping = {}
    PROVE  ReviewSpec => NeverResent
<1> DEFINE Inv == RowTypes /\ ResendInv
<1>1. ReviewInit => Inv
  BY InitTypes, ReviewBegins, ReviewAssumption DEF ResendInv
<1>2. Inv /\ [ReviewNext]_reviewVars => Inv'
  BY StepTypes, ResendStep, ReviewAssumption
<1>3. Inv /\ [ReviewNext]_reviewVars =>
      [\A j \in Jobs : db.job[j].platform =>
          {x \in sent' : x.job = j} = {x \in sent : x.job = j}]_reviewVars
  <2> SUFFICES ASSUME Inv, ReviewNext, NEW j \in Jobs, db.job[j].platform
               PROVE  {x \in sent' : x.job = j} = {x \in sent : x.job = j}
    BY SMTT(40)
  <2>1. sent' = sent \/ FinalCheck
    BY Zenon DEF ReviewNext, OpenRequest, Claim, Begin, Load, Commit, Locked, ListDue, Checked,
       Answer, EndList, Crash, TimePasses, SwitchGate
  <2>2. CASE FinalCheck /\ sent' # sent
    <3>1. db.post.status # "deleted"
      BY <2>2 DEF FinalCheck, PostGate, Released
    <3>2. worker.job # j
      BY <2>2, <3>1 DEF FinalCheck, ResendInv, WorkerInv, Busy
    <3> QED
      BY <2>2, <3>2 DEF FinalCheck
  <2> QED
    BY <2>1, <2>2
<1> QED
  BY <1>1, <1>2, <1>3, PTL DEF ReviewSpec, NeverResent

(***************************************************************************)
(* What goes out is what was approved                                      *)
(***************************************************************************)
\* One output of each kind.
Single == \A s \in Slots : s = Default[Kind[s]]

\* The files of the rows are where files of their kind belong.
Housed(v) ==
    /\ \A s \in Slots : /\ v.slot[s].sel \in v.shelf[s] /\ v.slot[s].latest \in v.shelf[s]
                        /\ \A p \in v.shelf[s] : Format[p] = Kind[s]
                        /\ Format[v.post.current[s]] = Kind[s]
    /\ \A j \in Jobs : Format[v.job[j].path] = j

\* The files that are shown are on record, and the text is the one selected.
Stocked(v) == \A s \in Slots : v.post.current[s] \in v.shelf[s]
Proper(v) == Housed(v) /\ Stocked(v) /\ v.post.text = v.post.tsel

Grows(v, w) == \A s \in Slots : v.shelf[s] \subseteq w.shelf[s]

\* w shows the files of v ...
Placed(v, w) ==
    /\ w.post.current = v.post.current /\ w.slot = v.slot /\ w.shelf = v.shelf
    /\ \A j \in Jobs : w.job[j].path = v.job[j].path

\* ... and its texts.
SamePost(p, q) == q.current = p.current /\ q.text = p.text /\ q.tsel = p.tsel
SameJobs(v, w) == \A j \in Jobs : w.job[j].path = v.job[j].path /\ w.job[j].text = v.job[j].text
Same(v, w) == SamePost(v.post, w.post) /\ SameJobs(v, w) /\ w.slot = v.slot /\ w.shelf = v.shelf

\* The file selected for job j.
Sel(v, j) == v.slot[Default[j]].sel

\* The default output of a kind is an output of that kind.
LEMMA DefaultSlot ==
    ASSUME ReviewAssumption, NEW j \in Jobs PROVE Default[j] \in Slots /\ Kind[Default[j]] = j
BY DEF ReviewAssumption

\* Rows that show the files of v, with the selected text, are in order if v is.
LEMMA PlacedProper ==
    ASSUME NEW v, NEW w, Proper(v), Placed(v, w), w.post.text = w.post.tsel
    PROVE  Proper(w) /\ Grows(v, w)
BY DEF Proper, Placed, Housed, Stocked, Grows

\* Rows with the same contents show the same files,
LEMMA SamePlaced ==
    ASSUME NEW v, NEW w, Same(v, w) PROVE Placed(v, w)
BY DEF Same, SamePost, SameJobs, Placed

\* are in order if v is,
LEMMA SameProper ==
    ASSUME NEW v, NEW w, Proper(v), Same(v, w) PROVE Proper(w) /\ Grows(v, w)
<1>1. w.post.text = w.post.tsel
  BY DEF Same, SamePost, Proper
<1> QED
  BY <1>1, SamePlaced, PlacedProper

\* and so do others with the same contents as those.
LEMMA SameTrans ==
    ASSUME NEW u, NEW v, NEW w, Same(u, v), Same(v, w) PROVE Same(u, w)
BY DEF Same, SamePost, SameJobs

\* A new row of the post with the same texts and files changes no contents,
LEMMA SameWithPost ==
    ASSUME NEW v \in View, NEW p \in Post, SamePost(v.post, p) PROVE Same(v, WithPost(v, p))
BY WithPostTypes DEF Same, SameJobs

\* nor does one of a job,
LEMMA SameWithJob ==
    ASSUME NEW v \in View, NEW j \in Jobs, NEW x \in Job, x.path = v.job[j].path, x.text = v.job[j].text
    PROVE  Same(v, WithJob(v, j, x))
<1> DEFINE w == WithJob(v, j, x)
<1>1. w.post = v.post /\ w.slot = v.slot /\ w.shelf = v.shelf /\ w.job = [v.job EXCEPT ![j] = x]
  BY WithJobTypes
<1> HIDE DEF w
<1>2. Same(v, w)
  BY <1>1, ViewTypes DEF Same, SameJobs, SamePost
<1> QED
  BY <1>2 DEF w

\* New rows of the jobs with the same files and texts.
LEMMA SameWithJobs ==
    ASSUME NEW v \in View, NEW G \in [Jobs -> Job],
           \A k \in Jobs : G[k].path = v.job[k].path /\ G[k].text = v.job[k].text
    PROVE  Same(v, [v EXCEPT !.job = G])
BY DEF Same, SameJobs, SamePost, View

\* nor a mark that jobs need another approval (mark_publication_for_reapproval),
LEMMA SameMarked ==
    ASSUME NEW v \in View, NEW J \in SUBSET Jobs
    PROVE  LET w == WithJobs(v, J, mark_publication_for_reapproval) IN
           w \in View /\ w.post = v.post /\ Same(v, w)
<1> DEFINE G == [k \in Jobs |-> IF k \in J THEN mark_publication_for_reapproval(v.job[k]) ELSE v.job[k]]
<1>1. \A x \in Job : /\ mark_publication_for_reapproval(x).path = x.path
                     /\ mark_publication_for_reapproval(x).text = x.text
                     /\ mark_publication_for_reapproval(x) \in Job
  BY MarkedJob DEF mark_publication_for_reapproval, Job
<1>2. G \in [Jobs -> Job] /\ \A k \in Jobs : G[k].path = v.job[k].path /\ G[k].text = v.job[k].text
  BY <1>1, ViewTypes
<1> HIDE DEF G
<1>3. LET w == [v EXCEPT !.job = G] IN w \in View /\ w.post = v.post /\ Same(v, w)
  BY <1>2, SameWithJobs DEF View
<1> QED
  BY <1>3 DEF WithJobs, G

\* nor a new version number alone (invalidate_post_approval).
LEMMA SameInvalidated ==
    ASSUME NEW p \in Post PROVE SamePost(p, invalidate_post_approval(p))
BY DEF SamePost, invalidate_post_approval, Post

(***************************************************************************)
(* The versions                                                            *)
(***************************************************************************)
\* ensure_text_version makes the post's text the selected one.
LEMMA EnsureTextContent ==
    ASSUME NEW v \in View
    PROVE  LET w == ensure_text_version(v) IN
           /\ Placed(v, w) /\ w.post.text = w.post.tsel
           /\ w.job = v.job
           /\ v.post.text = v.post.tsel => w = v
BY DEF ensure_text_version, Placed, View, Post

\* register_media_version puts a file on its shelf, and does nothing if it is there.
LEMMA RegisterContent ==
    ASSUME NEW v \in View, Housed(v), NEW s \in Slots, NEW p \in Paths, Format[p] = Kind[s]
    PROVE  LET w == register_media_version(v, s, p) IN
           /\ Housed(w) /\ Grows(v, w) /\ p \in w.shelf[s]
           /\ \A t \in Slots \ {s} : w.slot[t] = v.slot[t] /\ w.shelf[t] = v.shelf[t]
           /\ p \in v.shelf[s] => w = v
<1> DEFINE w == register_media_version(v, s, p)
<1>1. CASE p \in v.shelf[s]
  BY <1>1 DEF register_media_version, Grows
<1>2. CASE p \notin v.shelf[s]
  <2> DEFINE z == v.slot[s]
  <2> DEFINE e == IF z.mode = "auto" THEN p ELSE z.sel
  <2> DEFINE x == [z EXCEPT !.latest = p, !.sel = e]
  <2> DEFINE u == WithSlot(v, s, x)
  <2>1. z \in Slot /\ e \in Paths /\ e \in {p, v.slot[s].sel}
    BY ViewTypes DEF Slot
  <2> HIDE DEF z, e
  <2>2. x \in Slot /\ x.latest = p /\ x.sel = e
    BY <2>1 DEF Slot
  <2> HIDE DEF x
  <2>3. /\ u \in View /\ u.post = v.post /\ u.job = v.job
        /\ u.shelf = v.shelf /\ u.slot = [v.slot EXCEPT ![s] = x]
    BY <2>2, WithSlotTypes
  <2>4. w = [u EXCEPT !.shelf[s] = @ \cup {p}]
    BY <1>2 DEF register_media_version, x, z, e
  <2> HIDE DEF u, w
  <2>5. /\ w.post = v.post /\ w.job = v.job /\ w.slot = [v.slot EXCEPT ![s] = x]
        /\ w.shelf = [v.shelf EXCEPT ![s] = v.shelf[s] \cup {p}]
    BY <2>3, <2>4 DEF View
  <2>6. /\ w.slot[s] = x /\ w.shelf[s] = v.shelf[s] \cup {p}
        /\ \A t \in Slots \ {s} : w.slot[t] = v.slot[t] /\ w.shelf[t] = v.shelf[t]
    BY <2>5, ViewTypes
  <2>7. Grows(v, w)
    BY <2>6 DEF Grows
  <2>8. Housed(w)
    <3> SUFFICES ASSUME NEW t \in Slots
                 PROVE  /\ w.slot[t].sel \in w.shelf[t] /\ w.slot[t].latest \in w.shelf[t]
                        /\ \A q \in w.shelf[t] : Format[q] = Kind[t]
      BY <2>5 DEF Housed
    <3>1. CASE t = s
      BY <2>1, <2>2, <2>6, <3>1 DEF Housed
    <3>2. CASE t # s
      BY <2>6, <3>2 DEF Housed
    <3> QED
      BY <3>1, <3>2
  <2>9. /\ Housed(w) /\ Grows(v, w) /\ p \in w.shelf[s]
        /\ \A t \in Slots \ {s} : w.slot[t] = v.slot[t] /\ w.shelf[t] = v.shelf[t]
    BY <2>6, <2>7, <2>8
  <2> QED
    BY <1>2, <2>9 DEF w
<1> QED
  BY <1>1, <1>2

\* The current files are registered.
LEMMA RegisterCurrentContent ==
    ASSUME NEW v \in View, Housed(v)
    PROVE  LET w == RegisterCurrent(v) IN
           /\ w \in View /\ w.post = v.post /\ w.job = v.job
           /\ Housed(w) /\ Stocked(w) /\ Grows(v, w)
           /\ Stocked(v) => w.slot = v.slot /\ w.shelf = v.shelf
<1> DEFINE R(s) == register_media_version(v, s, v.post.current[s])
<1> DEFINE S == [s \in Slots |-> R(s).shelf[s]]
<1> DEFINE L == [s \in Slots |-> R(s).slot[s]]
<1> DEFINE w == [v EXCEPT !.shelf = S, !.slot = L]
<1>1. ASSUME NEW s \in Slots
      PROVE  /\ R(s) \in View /\ Housed(R(s)) /\ Grows(v, R(s))
             /\ v.post.current[s] \in R(s).shelf[s]
             /\ v.post.current[s] \in v.shelf[s] => R(s) = v
  <2>1. v.post.current[s] \in Paths /\ Format[v.post.current[s]] = Kind[s]
    BY ViewTypes DEF Post, Housed
  <2> QED
    BY <2>1, RegisterKeeps, RegisterContent
<1> HIDE DEF R
<1>2. S \in [Slots -> SUBSET Paths] /\ L \in [Slots -> Slot]
  BY <1>1, ViewTypes
<1>3. \A s \in Slots : S[s] = R(s).shelf[s] /\ L[s] = R(s).slot[s]
  OBVIOUS
<1>4. Stocked(v) => L = v.slot /\ S = v.shelf
  BY <1>1, ViewTypes DEF Stocked
<1> HIDE DEF S, L
<1>5. /\ w \in View /\ w.post = v.post /\ w.job = v.job /\ w.shelf = S /\ w.slot = L
  BY <1>2 DEF View
<1>6. w = RegisterCurrent(v)
  BY DEF RegisterCurrent, S, L, R
<1> HIDE DEF w
<1>7. ASSUME NEW s \in Slots
      PROVE  /\ w.slot[s].sel \in w.shelf[s] /\ w.slot[s].latest \in w.shelf[s]
             /\ (\A p \in w.shelf[s] : Format[p] = Kind[s])
             /\ v.shelf[s] \subseteq w.shelf[s] /\ v.post.current[s] \in w.shelf[s]
  <2>1. Housed(R(s)) /\ Grows(v, R(s)) /\ v.post.current[s] \in R(s).shelf[s]
    BY <1>1
  <2>2. w.slot[s] = R(s).slot[s] /\ w.shelf[s] = R(s).shelf[s]
    BY <1>3, <1>5
  <2> QED
    BY <2>1, <2>2 DEF Housed, Grows
<1>8. Housed(w)
  BY <1>5, <1>7 DEF Housed
<1>9. Stocked(w) /\ Grows(v, w)
  BY <1>5, <1>7 DEF Stocked, Grows
<1> QED
  BY <1>4, <1>5, <1>6, <1>8, <1>9

\* With one output of each kind, that is where the files of a job are looked for.
LEMMA SlotDefault ==
    ASSUME ReviewAssumption, Single, NEW v, Housed(v), NEW j \in Jobs
    PROVE  SlotOf(v, j) = Default[j]
<1>1. CASE \E s \in Slots : v.post.current[s] = v.job[j].path
  <2> DEFINE P(s) == v.post.current[s] = v.job[j].path
  <2> DEFINE t == CHOOSE s \in Slots : P(s)
  <2>1. t \in Slots /\ v.post.current[t] = v.job[j].path
    BY <1>1
  <2>2. SlotOf(v, j) = t
    BY <1>1 DEF SlotOf
  <2> HIDE DEF t
  <2>3. Kind[t] = j
    BY <2>1 DEF Housed
  <2> QED
    BY <2>1, <2>2, <2>3 DEF Single
<1>2. CASE ~\E s \in Slots : v.post.current[s] = v.job[j].path
  BY <1>2 DEF SlotOf
<1> QED
  BY <1>1, <1>2

\* The file of a job is registered, and that of an open job is then the selected one.
LEMMA SyncJobContent ==
    ASSUME ReviewAssumption, Single, NEW v \in View, Housed(v), NEW j \in Jobs
    PROVE  LET w == SyncJob(v, j) IN
           /\ w \in View /\ w.post = v.post /\ Housed(w) /\ Grows(v, w)
           /\ w.job[j].status = v.job[j].status /\ w.job[j].text = v.job[j].text
           /\ \A k \in Jobs \ {j} : w.job[k] = v.job[k] /\ Sel(w, k) = Sel(v, k)
           /\ v.job[j].status # "published" => w.job[j].path = Sel(w, j)
           /\ v.job[j].path = Sel(v, j) => w.job[j].path = v.job[j].path /\ Sel(w, j) = Sel(v, j)
<1> DEFINE s == Default[j]
<1> DEFINE z == v.job[j]
<1> DEFINE u == register_media_version(v, s, z.path)
<1>1. s \in Slots /\ Kind[s] = j /\ SlotOf(v, j) = s /\ z \in Job /\ z.path \in Paths /\ Format[z.path] = j
  BY DefaultSlot, SlotDefault, ViewTypes DEF Job, Housed
<1>2. u \in View /\ u.post = v.post /\ u.job = v.job
  BY <1>1, RegisterKeeps
<1>3. /\ Housed(u) /\ Grows(v, u)
      /\ \A t \in Slots \ {s} : u.slot[t] = v.slot[t] /\ u.shelf[t] = v.shelf[t]
      /\ z.path \in v.shelf[s] => u = v
  BY <1>1, RegisterContent
<1>4. \A k \in Jobs \ {j} : Default[k] \in Slots \ {s}
  BY <1>1, DefaultSlot
<1>5. \A k \in Jobs \ {j} : u.job[k] = v.job[k] /\ Sel(u, k) = Sel(v, k)
  <2> HIDE DEF u, s
  <2>1. ASSUME NEW k \in Jobs \ {j} PROVE u.slot[Default[k]] = v.slot[Default[k]]
    BY <1>3, <1>4
  <2> QED
    BY <1>2, <2>1 DEF Sel
<1>6. z.path = Sel(v, j) => u = v
  <2>1. Sel(v, j) = v.slot[s].sel
    BY DEF Sel
  <2> HIDE DEF u, z, s
  <2>2. v.slot[s].sel \in v.shelf[s]
    BY <1>1 DEF Housed
  <2> QED
    BY <1>3, <2>1, <2>2
<1> DEFINE e == u.slot[s].sel
<1> DEFINE x == [z EXCEPT !.path = e]
<1> DEFINE w == WithJob(u, j, x)
<1>7. e \in Paths /\ e = Sel(u, j) /\ Format[e] = j
  <2>1. e = Sel(u, j)
    BY DEF Sel
  <2> HIDE DEF u, s
  <2>2. e \in u.shelf[s] /\ \A q \in u.shelf[s] : Format[q] = Kind[s]
    BY <1>1, <1>3 DEF Housed
  <2>3. u.slot[s] \in Slot
    BY <1>1, <1>2, ViewTypes
  <2> HIDE DEF e
  <2> QED
    BY <1>1, <2>1, <2>2, <2>3 DEF Slot, e
<1>8. SyncJob(v, j) = IF z.status = "published" THEN u ELSE w
  BY <1>1, <1>2 DEF SyncJob
<1> HIDE DEF e, z, u
<1>9. x \in Job /\ x.path = e /\ x.text = z.text /\ x.status = z.status
  BY <1>1, <1>7 DEF Job
<1> HIDE DEF x
<1>10. /\ w \in View /\ w.post = u.post /\ w.slot = u.slot /\ w.shelf = u.shelf
       /\ w.job = [u.job EXCEPT ![j] = x]
  BY <1>2, <1>9, WithJobTypes
<1> HIDE DEF w
<1>11. w.job[j] = x /\ \A k \in Jobs \ {j} : w.job[k] = u.job[k]
  BY <1>2, <1>10, ViewTypes
<1>12. Housed(w) /\ Grows(v, w) /\ \A k \in Jobs : Sel(w, k) = Sel(u, k)
  BY <1>3, <1>7, <1>9, <1>10, <1>11 DEF Housed, Grows, Sel
<1>13. CASE z.status = "published"
  BY <1>2, <1>3, <1>5, <1>6, <1>8, <1>13 DEF z
<1>14. CASE z.status # "published"
  <2>1. SyncJob(v, j) = w
    BY <1>8, <1>14
  <2>2. w.post = v.post /\ w.job[j].path = Sel(w, j) /\ w.job[j].status = z.status /\ w.job[j].text = z.text
    BY <1>2, <1>7, <1>9, <1>10, <1>11, <1>12
  <2>3. \A k \in Jobs \ {j} : w.job[k] = v.job[k] /\ Sel(w, k) = Sel(v, k)
    BY <1>5, <1>11, <1>12
  <2>4. z.path = Sel(v, j) => w.job[j].path = z.path /\ Sel(w, j) = Sel(v, j)
    BY <1>6, <1>12, <2>2
  <2> HIDE DEF w
  <2> QED
    BY <1>10, <1>12, <2>1, <2>2, <2>3, <2>4 DEF z
<1> QED
  BY <1>13, <1>14

\* w has the files of v and newer ones; each open job shows the one that is selected.
Synced(v, w) ==
    /\ w \in View /\ Grows(v, w) /\ Proper(w)
    /\ \A j \in Jobs :
         /\ w.job[j].text = v.job[j].text
         /\ v.job[j].status # "published" => w.job[j].path = Sel(w, j)

\* A job that shows the selected file keeps it.
Settled(v, w) ==
    \A j \in Jobs : v.job[j].path = Sel(v, j) => w.job[j].path = v.job[j].path /\ Sel(w, j) = Sel(v, j)

\* synchronize_post_versions: what is in order stays so, open jobs show the selection.
LEMMA SynchronizeContent ==
    ASSUME ReviewAssumption, Single, NEW v \in View, Housed(v)
    PROVE  LET w == synchronize_post_versions(v) IN
           /\ Synced(v, w)
           /\ Proper(v) => w.post = v.post /\ Settled(v, w)
<1> DEFINE a == ensure_text_version(v)
<1> DEFINE b == RegisterCurrent(a)
<1> DEFINE c == SyncJob(b, "feed")
<1> DEFINE w == SyncJob(c, "story")
<1>1. /\ a \in View /\ Placed(v, a) /\ a.post.text = a.post.tsel /\ a.job = v.job
      /\ v.post.text = v.post.tsel => a = v
  BY EnsureTextContent, EnsureTextKeeps DEF Keeps
<1>2. Housed(a) /\ Grows(v, a) /\ (Stocked(v) => Stocked(a))
  BY <1>1 DEF Placed, Housed, Grows, Stocked
<1> HIDE DEF a
<1>3. /\ b \in View /\ b.post = a.post /\ b.job = a.job
      /\ Housed(b) /\ Stocked(b) /\ Grows(a, b)
      /\ Stocked(a) => b.slot = a.slot /\ b.shelf = a.shelf
  BY <1>1, <1>2, RegisterCurrentContent
<1> HIDE DEF b
<1>4. /\ c \in View /\ c.post = b.post /\ Housed(c) /\ Grows(b, c)
      /\ c.job["feed"].status = b.job["feed"].status /\ c.job["feed"].text = b.job["feed"].text
      /\ c.job["story"] = b.job["story"] /\ Sel(c, "story") = Sel(b, "story")
      /\ b.job["feed"].status # "published" => c.job["feed"].path = Sel(c, "feed")
      /\ b.job["feed"].path = Sel(b, "feed") =>
            c.job["feed"].path = b.job["feed"].path /\ Sel(c, "feed") = Sel(b, "feed")
  BY <1>3, SyncJobContent DEF Jobs
<1> HIDE DEF c
<1>5. /\ w \in View /\ w.post = c.post /\ Housed(w) /\ Grows(c, w)
      /\ w.job["story"].status = c.job["story"].status /\ w.job["story"].text = c.job["story"].text
      /\ w.job["feed"] = c.job["feed"] /\ Sel(w, "feed") = Sel(c, "feed")
      /\ c.job["story"].status # "published" => w.job["story"].path = Sel(w, "story")
      /\ c.job["story"].path = Sel(c, "story") =>
            w.job["story"].path = c.job["story"].path /\ Sel(w, "story") = Sel(c, "story")
  BY <1>4, SyncJobContent DEF Jobs
<1>6. w = synchronize_post_versions(v)
  BY DEF synchronize_post_versions, c, b, a
<1> HIDE DEF w
<1>7. Grows(v, w) /\ Grows(b, w)
  BY <1>2, <1>3, <1>4, <1>5 DEF Grows
<1>8. Proper(w)
  BY <1>1, <1>3, <1>4, <1>5, <1>7 DEF Proper, Stocked, Grows
<1>9. ASSUME NEW j \in Jobs
      PROVE  /\ w.job[j].text = v.job[j].text
             /\ v.job[j].status # "published" => w.job[j].path = Sel(w, j)
  BY <1>1, <1>3, <1>4, <1>5 DEF Jobs
<1>10. Synced(v, w)
  BY <1>5, <1>7, <1>8, <1>9 DEF Synced
<1>11. ASSUME Proper(v) PROVE w.post = v.post /\ Settled(v, w)
  <2>1. a = v /\ b.post = v.post /\ b.job = v.job /\ \A j \in Jobs : Sel(b, j) = Sel(v, j)
    BY <1>1, <1>3, <1>11 DEF Proper, Sel
  <2>2. w.post = v.post
    BY <1>4, <1>5, <2>1
  <2>3. ASSUME NEW j \in Jobs, v.job[j].path = Sel(v, j)
        PROVE  w.job[j].path = v.job[j].path /\ Sel(w, j) = Sel(v, j)
    BY <1>4, <1>5, <2>1, <2>3 DEF Jobs
  <2> QED
    BY <2>2, <2>3 DEF Settled
<1> QED
  BY <1>6, <1>10, <1>11

\* freeze_publication_versions: what it freezes shows the selected file and text.
LEMMA FreezeContent ==
    ASSUME ReviewAssumption, Single, NEW v \in View, Proper(v), NEW J \in SUBSET Jobs
    PROVE  LET w == freeze_publication_versions(v, J) IN
           /\ w \in View /\ Proper(w) /\ Grows(v, w) /\ w.post = v.post /\ Settled(v, w)
           /\ \A j \in J : v.job[j].status # "published" =>
                w.job[j].path = Sel(w, j) /\ w.job[j].text = w.post.tsel
           /\ \A j \in Jobs \ J : w.job[j].text = v.job[j].text
<1> DEFINE u == synchronize_post_versions(v)
<1> DEFINE G == [k \in Jobs |-> IF k \in J \cap Unpublished(u) THEN [u.job[k] EXCEPT !.text = u.post.tsel]
                                ELSE u.job[k]]
<1> DEFINE w == [u EXCEPT !.job = G]
<1>1. Synced(v, u) /\ u.post = v.post /\ Settled(v, u)
  BY SynchronizeContent DEF Proper
<1>2. Keeps(v, u)
  BY SynchronizeKeeps
<1> HIDE DEF u
<1>3. /\ u \in View /\ u.post.tsel \in Texts /\ u.post.tsel = v.post.tsel
      /\ \A j \in Jobs : u.job[j] \in Job /\ u.job[j].status = v.job[j].status
  BY <1>1, <1>2, ViewTypes DEF Synced, Post, Keeps, Alike
<1>4. \A x \in Job, t \in Texts :
        [x EXCEPT !.text = t] \in Job /\ [x EXCEPT !.text = t].path = x.path /\ [x EXCEPT !.text = t].text = t
  BY DEF Job
<1>5. ASSUME NEW j \in Jobs
      PROVE  /\ G[j] \in Job /\ G[j].path = u.job[j].path
             /\ j \in J /\ v.job[j].status # "published" => G[j].text = u.post.tsel
             /\ j \notin J => G[j].text = u.job[j].text
  BY <1>3, <1>4 DEF Unpublished
<1>6. G \in [Jobs -> Job]
  BY <1>5
<1> HIDE DEF G
<1>7. /\ w \in View /\ w.post = u.post /\ w.slot = u.slot /\ w.shelf = u.shelf /\ w.job = G
  BY <1>3, <1>6 DEF View
<1>8. w = freeze_publication_versions(v, J)
  BY DEF freeze_publication_versions, WithJobs, G, u
<1> HIDE DEF w
<1>9. Placed(u, w) /\ \A j \in Jobs : Sel(w, j) = Sel(u, j)
  BY <1>5, <1>7 DEF Placed, Sel
<1>10. Proper(w) /\ Grows(v, w)
  <2>1. Proper(u) /\ Grows(v, u)
    BY <1>1 DEF Synced
  <2>2. Proper(w) /\ Grows(u, w)
    BY <1>7, <1>9, <2>1, PlacedProper DEF Proper
  <2> QED
    BY <2>1, <2>2 DEF Grows
<1>11. Settled(v, w)
  BY <1>1, <1>5, <1>7, <1>9 DEF Settled
<1>12. \A j \in J : v.job[j].status # "published" =>
         w.job[j].path = Sel(w, j) /\ w.job[j].text = w.post.tsel
  BY <1>1, <1>5, <1>7, <1>9 DEF Synced
<1>13. \A j \in Jobs \ J : w.job[j].text = v.job[j].text
  BY <1>1, <1>5, <1>7 DEF Synced
<1> QED
  BY <1>1, <1>7, <1>8, <1>10, <1>11, <1>12, <1>13

\* An approval leaves text and files of the post alone; what it approves shows them.
LEMMA ApproveContent ==
    ASSUME ReviewAssumption, Single, NEW v \in View, Proper(v), NEW J \in SUBSET Jobs, NEW now \in BOOLEAN
    PROVE  LET w == approve(v, J, now) IN
           /\ Proper(w) /\ Grows(v, w) /\ SamePost(v.post, w.post) /\ Settled(v, w)
           /\ w # v => \A j \in J : w.job[j].path = Sel(w, j) /\ w.job[j].text = w.post.tsel
           /\ \A j \in Jobs \ J : w.job[j].text = v.job[j].text
<1> DEFINE f == freeze_publication_versions(v, J)
<1> DEFINE late == late_approval_behavior(now) # "publish_now"
<1> DEFINE R(x) == [x EXCEPT !.approval = "approved", !.approvedVersion = f.post.version,
                             !.status = IF x.past /\ late THEN "skipped" ELSE "scheduled"]
<1> DEFINE G == [k \in Jobs |-> IF k \in J THEN R(f.job[k]) ELSE f.job[k]]
<1> DEFINE w == [f EXCEPT !.job = G]
<1> DEFINE p == [f.post EXCEPT !.status = "approved", !.approved = f.post.version]
<1> DEFINE u == WithPost(w, p)
<1>1. CASE ~Approvable(v, J, now)
  <2>1. approve(v, J, now) = v
    BY <1>1 DEF approve
  <2> QED
    BY <2>1 DEF Grows, SamePost, Settled
<1>2. CASE Approvable(v, J, now)
  <2>1. /\ f \in View /\ Proper(f) /\ Grows(v, f) /\ f.post = v.post /\ Settled(v, f)
        /\ \A j \in J : v.job[j].status # "published" =>
             f.job[j].path = Sel(f, j) /\ f.job[j].text = f.post.tsel
        /\ \A j \in Jobs \ J : f.job[j].text = v.job[j].text
    BY FreezeContent
  <2> HIDE DEF f
  <2>2. f.post.version \in Nat /\ f.post \in Post
    BY <2>1, ViewTypes DEF Post
  <2>3. ASSUME NEW x \in Job PROVE R(x) \in Job /\ R(x).path = x.path /\ R(x).text = x.text
    <3> DEFINE st == IF x.past /\ late THEN "skipped" ELSE "scheduled"
    <3> DEFINE n == f.post.version
    <3>1. st \in {"scheduled", "skipped"} /\ n \in Nat
      BY <2>2
    <3> HIDE DEF st, n
    <3>2. LET y == [x EXCEPT !.approval = "approved", !.approvedVersion = n, !.status = st]
          IN y \in Job /\ y.path = x.path /\ y.text = x.text
      BY <3>1 DEF Job, JobStatus
    <3> QED
      BY <3>2 DEF st, n
  <2> HIDE DEF R
  <2>4. G \in [Jobs -> Job] /\ \A k \in Jobs : G[k].path = f.job[k].path /\ G[k].text = f.job[k].text
    BY <2>1, <2>3, ViewTypes
  <2> HIDE DEF G
  <2>5. w \in View /\ w.post = f.post /\ Same(f, w)
    BY <2>1, <2>4, SameWithJobs DEF View
  <2>6. p \in Post /\ SamePost(f.post, p)
    <3> DEFINE z == f.post
    <3> DEFINE n == f.post.version
    <3>1. z \in Post /\ n \in Nat
      BY <2>2
    <3> HIDE DEF n, z
    <3>2. LET y == [z EXCEPT !.status = "approved", !.approved = n] IN y \in Post /\ SamePost(z, y)
      BY <3>1 DEF Post, PostStatus, SamePost
    <3> QED
      BY <3>2 DEF n, z
  <2> HIDE DEF p, w
  <2>7. Same(f, u)
    BY <2>5, <2>6, SameWithPost, SameTrans
  <2>8. approve(v, J, now) = u
    BY <1>2 DEF approve, WithJobs, p, w, G, R, f
  <2> HIDE DEF u
  <2>9. Proper(u) /\ Grows(f, u)
    BY <2>1, <2>7, SameProper
  <2>10. Grows(v, u)
    BY <2>1, <2>9 DEF Grows
  <2>11. /\ u.post.tsel = f.post.tsel /\ SamePost(v.post, u.post)
         /\ \A j \in Jobs : /\ u.job[j].path = f.job[j].path /\ u.job[j].text = f.job[j].text
                            /\ Sel(u, j) = Sel(f, j)
    BY <2>1, <2>7 DEF Same, SamePost, SameJobs, Sel
  <2>12. Settled(v, u)
    BY <2>1, <2>11 DEF Settled
  <2>13. \A k \in J : v.job[k].status # "published"
    BY <1>2, ViewTypes DEF Approvable, approval_job_blockers
  <2>14. \A j \in J : u.job[j].path = Sel(u, j) /\ u.job[j].text = u.post.tsel
    BY <2>1, <2>11, <2>13
  <2>15. \A j \in Jobs \ J : u.job[j].text = v.job[j].text
    BY <2>1, <2>11
  <2> QED
    BY <2>8, <2>9, <2>10, <2>11, <2>12, <2>14, <2>15
<1> QED
  BY <1>1, <1>2

(***************************************************************************)
(* What the orders do to the files and texts                               *)
(***************************************************************************)
\* Another version of the post, with all its files in place.
Advanced(v, w) == Proper(w) /\ Grows(v, w) /\ w.post.version = v.post.version + 1

\* Rows have their own contents.
LEMMA SameRefl == ASSUME NEW v PROVE Same(v, v)
BY DEF Same, SamePost, SameJobs

\* A move, and then a step that changes no contents, is a move.
LEMMA MovedSame ==
    ASSUME NEW v, NEW u, NEW w, Advanced(v, u), Same(u, w), w.post.version = u.post.version
    PROVE  Advanced(v, w)
<1>1. Proper(w) /\ Grows(u, w)
  BY SameProper DEF Advanced
<1> QED
  BY <1>1 DEF Advanced, Grows

\* invalidate_post_approval alone moves the version.
LEMMA InvalidatedMoves ==
    ASSUME NEW v \in View, Proper(v)
    PROVE  LET w == WithPost(v, invalidate_post_approval(v.post)) IN
           /\ w \in View /\ w.job = v.job /\ w.slot = v.slot /\ Advanced(v, w) /\ Same(v, w)
<1> DEFINE p == invalidate_post_approval(v.post)
<1>1. p \in Post /\ p.version = v.post.version + 1 /\ SamePost(v.post, p)
  BY InvalidatedPost, SameInvalidated, ViewTypes
<1> HIDE DEF p
<1>2. LET w == WithPost(v, p) IN w \in View /\ w.post = p /\ w.job = v.job /\ w.slot = v.slot /\ Same(v, w)
  BY <1>1, WithPostTypes, SameWithPost
<1> QED
  BY <1>1, <1>2, SameProper DEF Advanced, p

\* Selecting a file moves the version, or does nothing,
LEMMA ChooseMediaContent ==
    ASSUME ReviewAssumption, Single, NEW v \in View, Proper(v), NEW s \in Slots,
           NEW m \in {"auto", "manual"}, NEW p \in v.shelf[s]
    PROVE  LET w == ChooseMedia(v, s, m, p) IN w = v \/ Advanced(v, w)
<1>1. CASE v.slot[s].mode = m /\ v.slot[s].sel = p
  BY <1>1 DEF ChooseMedia
<1>2. CASE ~(v.slot[s].mode = m /\ v.slot[s].sel = p)
  <2> DEFINE q == WithPost(v, invalidate_post_approval(v.post))
  <2> DEFINE z == v.slot[s]
  <2> DEFINE x == [z EXCEPT !.mode = m, !.sel = p]
  <2> DEFINE c == WithSlot(q, s, x)
  <2> DEFINE J == EditableJobs(v)
  <2> DEFINE w == WithJobs(c, J, mark_publication_for_reapproval)
  <2> DEFINE f == freeze_publication_versions(w, J)
  <2>1. q \in View /\ q.job = v.job /\ q.slot = v.slot /\ Advanced(v, q) /\ Same(v, q)
    BY InvalidatedMoves
  <2>2. z \in Slot /\ p \in Paths
    BY ViewTypes
  <2> HIDE DEF q
  <2>3. q.slot[s] = z
    BY <2>1
  <2> HIDE DEF z
  <2>4. x \in Slot /\ x.sel = p /\ x.latest = z.latest
    BY <2>2 DEF Slot
  <2> HIDE DEF x
  <2>5. /\ c \in View /\ c.post = q.post /\ c.job = q.job /\ c.shelf = q.shelf
        /\ c.slot = [q.slot EXCEPT ![s] = x]
    BY <2>1, <2>4, WithSlotTypes
  <2> HIDE DEF c
  <2>6. c.slot[s] = x /\ \A t \in Slots \ {s} : c.slot[t] = q.slot[t]
    BY <2>1, <2>5, ViewTypes
  <2>7. q.shelf = v.shelf
    BY <2>1 DEF Same
  <2>8. Housed(c)
    BY <2>1, <2>3, <2>4, <2>5, <2>6, <2>7 DEF Housed, Advanced, Proper
  <2>9. Advanced(v, c)
    BY <2>1, <2>5, <2>8 DEF Advanced, Proper, Stocked, Grows
  <2>10. w \in View /\ w.post = c.post /\ Same(c, w)
    BY <2>5, SameMarked DEF EditableJobs
  <2> HIDE DEF w
  <2>11. Advanced(v, w)
    BY <2>9, <2>10, MovedSame
  <2>12. Proper(f) /\ Grows(w, f) /\ f.post = w.post
    BY <2>10, <2>11, FreezeContent DEF Advanced, EditableJobs
  <2> HIDE DEF f
  <2>13. Advanced(v, f)
    BY <2>11, <2>12 DEF Advanced, Grows
  <2> QED
    BY <1>2, <2>13 DEF ChooseMedia, f, w, J, c, x, z, q
<1> QED
  BY <1>1, <1>2

\* selecting another output for a job as well;
LEMMA SelectVariantContent ==
    ASSUME ReviewAssumption, NEW v \in View, Proper(v), NEW j \in Jobs, NEW s \in Slots
    PROVE  LET w == select_publication_media_variant(v, j, s) IN w = v \/ Advanced(v, w)
<1>1. CASE Kind[s] # j \/ v.job[j].status \notin Editable \/ Started(v.job[j])
  BY <1>1 DEF select_publication_media_variant
<1>2. CASE ~(Kind[s] # j \/ v.job[j].status \notin Editable \/ Started(v.job[j]))
  <2> DEFINE q == WithPost(v, invalidate_post_approval(v.post))
  <2> DEFINE z == v.job[j]
  <2> DEFINE e == v.slot[s].sel
  <2> DEFINE x == [z EXCEPT !.path = e]
  <2> DEFINE m == WithJob(q, j, x)
  <2> DEFINE J == EditableJobs(v)
  <2> DEFINE w == WithJobs(m, J, mark_publication_for_reapproval)
  <2>1. q \in View /\ q.job = v.job /\ Advanced(v, q)
    BY InvalidatedMoves
  <2>2. z \in Job /\ e \in Paths /\ Format[e] = j
    BY <1>2, ViewTypes DEF Slot, Proper, Housed
  <2> HIDE DEF q, z, e
  <2>3. x \in Job /\ x.path = e
    BY <2>2 DEF Job
  <2> HIDE DEF x
  <2>4. /\ m \in View /\ m.post = q.post /\ m.slot = q.slot /\ m.shelf = q.shelf
        /\ m.job = [q.job EXCEPT ![j] = x]
    BY <2>1, <2>3, WithJobTypes
  <2> HIDE DEF m
  <2>5. m.job[j] = x /\ \A k \in Jobs \ {j} : m.job[k] = q.job[k]
    BY <2>1, <2>4, ViewTypes
  <2>6. Advanced(v, m)
    BY <2>1, <2>2, <2>3, <2>4, <2>5 DEF Advanced, Proper, Housed, Stocked, Grows
  <2>7. w \in View /\ w.post = m.post /\ Same(m, w)
    BY <2>4, SameMarked DEF EditableJobs
  <2> HIDE DEF w
  <2>8. Advanced(v, w)
    BY <2>6, <2>7, MovedSame
  <2> QED
    BY <1>2, <2>8 DEF select_publication_media_variant, w, J, m, x, z, e, q
<1> QED
  BY <1>1, <1>2

\* selecting a text moves the version,
LEMMA ChooseTextContent ==
    ASSUME NEW v \in View, Proper(v), NEW m \in {"auto", "manual"}, NEW t \in Texts
    PROVE  Advanced(v, ChooseText(v, m, t))
<1> DEFINE q == invalidate_post_approval(v.post)
<1> DEFINE p == [q EXCEPT !.tmode = m, !.tsel = t, !.text = t]
<1> DEFINE c == [v EXCEPT !.post = p]
<1> DEFINE G == [k \in Jobs |-> IF k \in Unpublished(v)
                                THEN [mark_publication_for_reapproval(c.job[k]) EXCEPT !.text = t]
                                ELSE c.job[k]]
<1> DEFINE w == [c EXCEPT !.job = G]
<1>1. q \in Post /\ q.version = v.post.version + 1 /\ q.current = v.post.current
  BY InvalidatedPost, SameInvalidated, ViewTypes DEF SamePost
<1> HIDE DEF q
<1>2. /\ p \in Post /\ p.version = v.post.version + 1 /\ p.current = v.post.current
      /\ p.text = t /\ p.tsel = t
  BY <1>1 DEF Post
<1> HIDE DEF p
<1>3. c \in View /\ c.post = p /\ c.job = v.job /\ c.slot = v.slot /\ c.shelf = v.shelf
  BY <1>2 DEF View
<1> HIDE DEF c
<1>4. \A x \in Job : LET y == [mark_publication_for_reapproval(x) EXCEPT !.text = t]
                     IN y \in Job /\ y.path = x.path
  <2> SUFFICES ASSUME NEW x \in Job
               PROVE LET y == [mark_publication_for_reapproval(x) EXCEPT !.text = t]
                     IN y \in Job /\ y.path = x.path
    OBVIOUS
  <2> DEFINE z == mark_publication_for_reapproval(x)
  <2>1. z \in Job /\ z.path = x.path
    BY MarkedJob, Zenon DEF mark_publication_for_reapproval, Job
  <2> HIDE DEF z
  <2>2. [z EXCEPT !.text = t] \in Job /\ [z EXCEPT !.text = t].path = z.path
    BY <2>1 DEF Job
  <2> QED
    BY <2>1, <2>2 DEF z
<1>5. \A k \in Jobs : G[k] \in Job /\ G[k].path = v.job[k].path
  BY <1>3, <1>4, ViewTypes
<1>6. G \in [Jobs -> Job]
  BY <1>5
<1> HIDE DEF G
<1>7. w.post = p /\ w.slot = v.slot /\ w.shelf = v.shelf /\ w.job = G
  BY <1>3, <1>6 DEF View
<1>8. w = ChooseText(v, m, t)
  BY DEF ChooseText, WithJobs, w, G, c, p, q
<1> HIDE DEF w
<1>9. Placed(v, w)
  BY <1>2, <1>5, <1>7 DEF Placed
<1>10. Advanced(v, w)
  BY <1>2, <1>7, <1>9, PlacedProper DEF Advanced
<1> QED
  BY <1>8, <1>10

\* Showing the same files is transitive.
LEMMA PlacedTrans ==
    ASSUME NEW u, NEW v, NEW w, Placed(u, v), Placed(v, w) PROVE Placed(u, w)
BY DEF Placed

\* and so does an edit of the text (edit_text).
LEMMA EditTextContent ==
    ASSUME NEW v \in View, Proper(v), NEW t \in Texts PROVE Advanced(v, edit_text(v, t))
<1> DEFINE st == IF v.post.status = "approved" THEN "reapproval" ELSE v.post.status
<1> DEFINE p == [v.post EXCEPT !.text = t, !.version = @ + 1, !.status = st]
<1> DEFINE q == WithPost(v, p)
<1> DEFINE G == [k \in Jobs |-> IF k \in Unpublished(v)
                  THEN [q.job[k] EXCEPT !.status = "unapproved", !.approval = "reapproval_required"]
                  ELSE q.job[k]]
<1> DEFINE w == [q EXCEPT !.job = G]
<1> DEFINE x == [w.job["feed"] EXCEPT !.text = t]
<1> DEFINE u == IF v.job["feed"].status = "published" THEN w ELSE WithJob(w, "feed", x)
<1> DEFINE e == ensure_text_version(u)
<1>1. p \in Post /\ p.current = v.post.current
  <2> DEFINE z == v.post
  <2> DEFINE n == z.version + 1
  <2>1. z \in Post /\ n \in Nat /\ st \in PostStatus
    BY ViewTypes DEF Post, PostStatus
  <2> HIDE DEF z, n, st
  <2>2. LET y == [z EXCEPT !.text = t, !.version = n, !.status = st]
        IN y \in Post /\ y.current = z.current
    BY <2>1 DEF Post
  <2> QED
    BY <2>2 DEF z, n
<1> HIDE DEF p
<1>2. q \in View /\ q.job = v.job /\ q.slot = v.slot /\ q.shelf = v.shelf /\ q.post = p
  BY <1>1, WithPostTypes
<1> HIDE DEF q
<1>3. ASSUME NEW k \in Jobs PROVE G[k] \in Job /\ G[k].path = v.job[k].path
  <2> DEFINE z == q.job[k]
  <2>1. z \in Job /\ z = v.job[k]
    BY <1>2, ViewTypes
  <2> HIDE DEF z
  <2>2. LET y == [z EXCEPT !.status = "unapproved", !.approval = "reapproval_required"]
        IN y \in Job /\ y.path = z.path
    BY <2>1 DEF Job, JobStatus
  <2> QED
    BY <2>1, <2>2 DEF z
<1>4. G \in [Jobs -> Job]
  BY <1>3, Zenon
<1> HIDE DEF G
<1>5. w \in View /\ w.post = p /\ w.slot = v.slot /\ w.shelf = v.shelf /\ w.job = G
  BY <1>2, <1>4 DEF View
<1> HIDE DEF w
<1>6. x \in Job /\ x.path = w.job["feed"].path
  BY <1>5, ViewTypes DEF Job, Jobs
<1> HIDE DEF x
<1>7. Placed(w, u) /\ u \in View
  <2>1. LET y == WithJob(w, "feed", x)
        IN /\ y \in View /\ y.post = w.post /\ y.slot = w.slot /\ y.shelf = w.shelf
           /\ y.job = [w.job EXCEPT !["feed"] = x]
    BY <1>5, <1>6, WithJobTypes DEF Jobs
  <2>2. Placed(w, WithJob(w, "feed", x))
    BY <1>5, <1>6, <2>1, ViewTypes DEF Placed
  <2>3. Placed(w, w)
    BY DEF Placed
  <2> QED
    BY <1>5, <2>1, <2>2, <2>3
<1> HIDE DEF u
<1>8. Placed(v, w)
  BY <1>1, <1>3, <1>5 DEF Placed
<1>9. Placed(u, e) /\ e.post.text = e.post.tsel
  BY <1>7, EnsureTextContent
<1>10. e = edit_text(v, t)
  BY DEF edit_text, WithJobs, u, x, w, G, q, p, st
<1> HIDE DEF e
<1>11. Placed(v, e)
  BY <1>7, <1>8, <1>9, PlacedTrans
<1>12. Proper(e) /\ Grows(v, e)
  BY <1>9, <1>11, PlacedProper
<1>13. e.post.version = v.post.version + 1
  BY <1>10, EditTextShape DEF Revised
<1> QED
  BY <1>10, <1>12, <1>13 DEF Advanced

\* Orders that change neither texts nor files.
LEMMA RevokeContent ==
    ASSUME NEW v \in View, NEW J \in SUBSET Jobs, NEW a \in {"logo", "result"}
    PROVE  Same(v, Revoke(v, J, a))
<1> DEFINE W == v.post.warnings \cup {a}
<1> DEFINE p == [v.post EXCEPT !.version = @ + 1, !.approved = 0, !.status = "reapproval", !.warnings = W]
<1> DEFINE q == WithPost(v, p)
<1>1. p \in Post /\ SamePost(v.post, p)
  <2> DEFINE z == v.post
  <2> DEFINE n == z.version + 1
  <2>1. z \in Post /\ n \in Nat /\ W \in SUBSET {"logo", "result"}
    BY ViewTypes DEF Post
  <2> HIDE DEF z, n, W
  <2>2. LET y == [z EXCEPT !.version = n, !.approved = 0, !.status = "reapproval", !.warnings = W]
        IN y \in Post /\ SamePost(z, y)
    BY <2>1 DEF Post, PostStatus, SamePost
  <2> QED
    BY <2>2 DEF z, n
<1> HIDE DEF p
<1>2. q \in View /\ Same(v, q)
  BY <1>1, WithPostTypes, SameWithPost
<1> HIDE DEF q
<1>3. Same(v, WithJobs(q, J, mark_publication_for_reapproval))
  BY <1>2, SameMarked, SameTrans
<1> QED
  BY <1>3, SameRefl DEF Revoke, q, p, W

\* reject_post changes the status only,
LEMMA RejectContent ==
    ASSUME NEW v \in View PROVE Same(v, reject_post(v))
<1> DEFINE p == [v.post EXCEPT !.status = "rejected"]
<1> DEFINE q == WithPost(v, p)
<1> DEFINE G == [k \in Jobs |-> IF k \in Unpublished(v)
                  THEN [q.job[k] EXCEPT !.status = "unapproved", !.approval = "rejected"]
                  ELSE q.job[k]]
<1>1. p \in Post /\ SamePost(v.post, p)
  BY ViewTypes DEF Post, PostStatus, SamePost
<1> HIDE DEF p
<1>2. q \in View /\ Same(v, q)
  BY <1>1, WithPostTypes, SameWithPost
<1> HIDE DEF q
<1>3. \A x \in Job : LET y == [x EXCEPT !.status = "unapproved", !.approval = "rejected"]
                     IN y \in Job /\ y.path = x.path /\ y.text = x.text
  BY DEF Job, JobStatus
<1>4. \A k \in Jobs : G[k] \in Job /\ G[k].path = q.job[k].path /\ G[k].text = q.job[k].text
  BY <1>2, <1>3, ViewTypes, Zenon
<1>5. G \in [Jobs -> Job]
  BY <1>4, Zenon
<1> HIDE DEF G
<1>6. Same(q, [q EXCEPT !.job = G])
  BY <1>2, <1>4, <1>5, SameWithJobs
<1>7. reject_post(v) = [q EXCEPT !.job = G]
  BY DEF reject_post, WithJobs, G, q, p
<1> QED
  BY <1>2, <1>6, <1>7, SameTrans

\* cancel_job,
LEMMA CancelContent ==
    ASSUME NEW v \in View, NEW j \in Jobs PROVE Same(v, cancel_job(v, j))
<1> DEFINE x == [v.job[j] EXCEPT !.status = "cancelled"]
<1>1. x \in Job /\ x.path = v.job[j].path /\ x.text = v.job[j].text
  BY ViewTypes DEF Job, JobStatus
<1> HIDE DEF x
<1>2. Same(v, WithJob(v, j, x))
  BY <1>1, SameWithJob
<1> QED
  BY <1>2, SameRefl DEF cancel_job, x

\* reschedule_publication_job,
LEMMA RescheduleContent ==
    ASSUME NEW v \in View, NEW j \in Jobs PROVE Same(v, reschedule_publication_job(v, j))
<1> DEFINE x == [v.job[j] EXCEPT !.past = FALSE]
<1> DEFINE m == WithJob(v, j, x)
<1> DEFINE p == [v.post EXCEPT !.version = @ + 1, !.approved = 0, !.status = "reapproval"]
<1> DEFINE q == WithPost(m, p)
<1> DEFINE w == WithJobs(q, EditableJobs(v), mark_publication_for_reapproval)
<1>1. x \in Job /\ x.path = v.job[j].path /\ x.text = v.job[j].text
  BY ViewTypes, ZenonT(40) DEF Job
<1> HIDE DEF x
<1>2. m \in View /\ m.post = v.post /\ Same(v, m)
  BY <1>1, WithJobTypes, SameWithJob
<1> HIDE DEF m
<1>3. p \in Post /\ SamePost(v.post, p)
  <2> DEFINE z == v.post
  <2> DEFINE n == z.version + 1
  <2>1. z \in Post /\ n \in Nat
    BY ViewTypes DEF Post
  <2> HIDE DEF z, n
  <2>2. LET y == [z EXCEPT !.version = n, !.approved = 0, !.status = "reapproval"]
        IN y \in Post /\ SamePost(z, y)
    BY <2>1 DEF Post, PostStatus, SamePost
  <2> QED
    BY <2>2 DEF z, n
<1> HIDE DEF p
<1>4. q \in View /\ Same(m, q)
  BY <1>2, <1>3, WithPostTypes, SameWithPost
<1> HIDE DEF q
<1>5. Same(q, w)
  BY <1>4, SameMarked DEF EditableJobs
<1> HIDE DEF w
<1>6. Same(v, w)
  BY <1>2, <1>4, <1>5, SameTrans
<1>7. reschedule_publication_job(v, j) \in {v, m, w}
  BY DEF reschedule_publication_job, w, q, p, m, x
<1> QED
  BY <1>2, <1>6, <1>7, SameRefl

\* post_channel_text on rows whose text is the selected one,
LEMMA ChannelTextContent ==
    ASSUME NEW v \in View, Proper(v) PROVE Same(v, post_channel_text(v))
<1> DEFINE q == WithPost(v, invalidate_post_approval(v.post))
<1>1. q \in View /\ Same(v, q)
  BY InvalidatedMoves
<1> HIDE DEF q
<1>2. Same(q, WithJobs(q, Unpublished(v), mark_publication_for_reapproval))
  BY <1>1, SameMarked DEF Unpublished
<1> QED
  BY <1>1, <1>2, SameTrans DEF post_channel_text, q

\* and delete_unpublished_post.
LEMMA DeleteContent ==
    ASSUME NEW v \in View PROVE Same(v, delete_unpublished_post(v))
<1> DEFINE w == [v EXCEPT !.post.status = "deleted"]
<1>1. SamePost(v.post, w.post)
  BY DEF View, Post, SamePost
<1>2. w.job = v.job /\ w.slot = v.slot /\ w.shelf = v.shelf
  BY DEF View
<1> HIDE DEF w
<1>3. Same(v, w)
  BY <1>1, <1>2 DEF Same, SameJobs
<1> QED
  BY <1>3, SameRefl DEF delete_unpublished_post, w

\* Contents that stay keep the files in their places.
LEMMA SameHoused ==
    ASSUME NEW v, NEW w, Housed(v), Same(v, w) PROVE Housed(w) /\ Grows(v, w)
BY DEF Same, SamePost, SameJobs, Housed, Grows

\* A new graphic of an output's kind is put on record and shown.
LEMMA NewFilesContent ==
    ASSUME ReviewAssumption, NEW v \in View, Proper(v), NEW s \in Slots, NEW p \in Paths,
           Format[p] = Kind[s]
    PROVE  LET w == NewFiles(v, s, p) IN
           w \in View /\ Housed(w) /\ Grows(v, w) /\ w.post.text = w.post.tsel
<1> DEFINE k == Kind[s]
<1> DEFINE c == Rendered(v, s, p)
<1> DEFINE y == [v.post EXCEPT !.current = c]
<1> DEFINE q == WithPost(v, y)
<1> DEFINE z == v.job[k]
<1> DEFINE f == IF k = "feed" THEN FeedFile(v, s, p) ELSE StoryFile(v, s, p)
<1> DEFINE x == [z EXCEPT !.path = f]
<1> DEFINE m == WithJob(q, k, x)
<1>1. k \in Jobs /\ z \in Job
  BY ViewTypes DEF ReviewAssumption
<1>2. c \in [Slots -> Paths] /\ \A t \in Slots : Format[c[t]] = Kind[t]
  BY ViewTypes DEF Post, Rendered, Proper, Housed
<1>3. f \in Paths /\ Format[f] = k
  <2>1. CASE k = "feed"
    <3>1. Default["feed"] \in Slots /\ Kind[Default["feed"]] = "feed"
      BY DefaultSlot DEF Jobs
    <3> HIDE DEF c
    <3>2. f = c[Default["feed"]]
      BY <2>1 DEF FeedFile, c
    <3> QED
      BY <1>2, <2>1, <3>1, <3>2
  <2>2. CASE k = "story"
    <3>1. v.job["story"].path \in Paths /\ Format[v.job["story"].path] = "story"
      BY ViewTypes DEF Jobs, Job, Proper, Housed
    <3> QED
      BY <2>2, <3>1 DEF StoryFile
  <2> QED
    BY <1>1, <2>1, <2>2 DEF Jobs
<1>4. y \in Post /\ y.current = c /\ y.text = v.post.text /\ y.tsel = v.post.tsel
  <2> HIDE DEF c
  <2> QED
    BY <1>2, ViewTypes, SMTT(40) DEF Post
<1> HIDE DEF c, f, y
<1>5. q \in View /\ q.post = y /\ q.job = v.job /\ q.slot = v.slot /\ q.shelf = v.shelf
  BY <1>4, WithPostTypes
<1> HIDE DEF q
<1> HIDE DEF z
<1>6. x \in Job /\ x.path = f
  BY <1>1, <1>3 DEF Job
<1> HIDE DEF x, k
<1>7. /\ m \in View /\ m.post = q.post /\ m.slot = q.slot /\ m.shelf = q.shelf
      /\ m.job = [q.job EXCEPT ![k] = x]
  BY <1>1, <1>5, <1>6, WithJobTypes
<1> HIDE DEF m
<1>8. m.job[k] = x /\ \A j \in Jobs \ {k} : m.job[j] = v.job[j]
  BY <1>1, <1>5, <1>7, ViewTypes
<1>9. \A j \in Jobs : Format[m.job[j].path] = j
  BY <1>1, <1>3, <1>6, <1>8 DEF Proper, Housed
<1>10. Housed(m) /\ Grows(v, m) /\ m.post.text = m.post.tsel
  BY <1>2, <1>4, <1>5, <1>7, <1>9 DEF Proper, Housed, Grows
<1> QED
  BY <1>7, <1>10 DEF NewFiles, m, x, q, z, y, f, c, k

\* rerender_post moves the version,
LEMMA RerenderContent ==
    ASSUME ReviewAssumption, Single, NEW v \in View, Proper(v), NEW s \in Slots, NEW p \in Paths,
           Format[p] = Kind[s], Rerenderable(v, s)
    PROVE  Advanced(v, rerender_post(v, s, p)) /\ rerender_post(v, s, p) \in View
<1> DEFINE w == NewFiles(v, s, p)
<1> DEFINE was == v.post.status \in Released
<1> DEFINE st == IF was THEN "reapproval" ELSE w.post.status
<1> DEFINE a == IF was THEN 0 ELSE w.post.approved
<1> DEFINE W == w.post.warnings \ {"logo"}
<1> DEFINE q == [w.post EXCEPT !.version = @ + 1, !.warnings = W, !.status = st, !.approved = a]
<1> DEFINE J == IF was THEN Unpublished(v) ELSE {}
<1> DEFINE r == WithPost(w, q)
<1> DEFINE u == WithJobs(r, J, mark_publication_for_reapproval)
<1> DEFINE e == synchronize_post_versions(u)
<1>1. w \in View /\ Housed(w) /\ Grows(v, w) /\ w.post.text = w.post.tsel
  BY NewFilesContent
<1> HIDE DEF w
<1>2. q \in Post /\ SamePost(w.post, q)
  <2> DEFINE z == w.post
  <2> DEFINE n == z.version + 1
  <2>1. z \in Post /\ n \in Nat /\ st \in PostStatus /\ a \in Nat /\ W \in SUBSET {"logo", "result"}
    BY <1>1, ViewTypes DEF Post, PostStatus
  <2> HIDE DEF n, z, st, a, W
  <2>2. LET y == [z EXCEPT !.version = n, !.warnings = W, !.status = st, !.approved = a]
        IN y \in Post /\ SamePost(z, y)
    BY <2>1 DEF Post, SamePost
  <2> QED
    BY <2>2 DEF n, z
<1> HIDE DEF q
<1>3. r \in View /\ Same(w, r)
  BY <1>1, <1>2, WithPostTypes, SameWithPost
<1> HIDE DEF r
<1>4. J \in SUBSET Jobs
  BY DEF Unpublished
<1> HIDE DEF J
<1>5. u \in View /\ Same(w, u)
  BY <1>3, <1>4, SameMarked, SameTrans
<1>6. e = rerender_post(v, s, p)
  BY DEF rerender_post, e, u, r, J, q, W, a, st, w
<1> HIDE DEF u
<1>7. Housed(u) /\ Grows(w, u)
  BY <1>1, <1>5, SameHoused
<1>8. Synced(u, e)
  BY <1>5, <1>7, SynchronizeContent
<1> HIDE DEF e
<1>9. Proper(e) /\ Grows(v, e) /\ e \in View
  BY <1>1, <1>7, <1>8 DEF Synced, Grows
<1>10. e.post.version = v.post.version + 1
  BY <1>6, RerenderShape DEF Revised
<1> QED
  BY <1>6, <1>9, <1>10 DEF Advanced

\* revise_post moves it or does nothing,
LEMMA ReviseContent ==
    ASSUME ReviewAssumption, Single, NEW v \in View, Proper(v), NEW S \in SUBSET Slots,
           NEW p \in Paths, NEW T \in SUBSET Texts, \A s \in S : Format[p] = Kind[s]
    PROVE  LET w == revise_post(v, S, p, T) IN w = v \/ Advanced(v, w)
<1> DEFINE refused == \/ T # {} /\ (v.job["feed"].status = "published" \/ v.job["feed"].platform)
                      \/ \E s \in S : ~Rerenderable(v, s)
<1> DEFINE s == CHOOSE s \in S : TRUE
<1> DEFINE g == IF S = {} THEN [v EXCEPT !.post.version = @ + 1] ELSE rerender_post(v, s, p)
<1> DEFINE was == v.post.status \in Released
<1> DEFINE t == IF T = {} THEN g.post.text ELSE CHOOSE t \in T : TRUE
<1> DEFINE st == IF was THEN "reapproval" ELSE IF g.post.warnings # {} THEN "incomplete" ELSE "pending"
<1> DEFINE ap == IF was THEN "reapproval_required" ELSE "unapproved"
<1> DEFINE q == [g.post EXCEPT !.text = t, !.approved = 0, !.status = st]
<1> DEFINE r == WithPost(g, q)
<1> DEFINE G == [k \in Jobs |-> IF k \in Unpublished(g)
                  THEN [r.job[k] EXCEPT !.status = "unapproved", !.approvedVersion = 0,
                                        !.approval = ap, !.text = IF T = {} THEN @ ELSE t]
                  ELSE r.job[k]]
<1> DEFINE h == [r EXCEPT !.job = G]
<1> DEFINE w == ensure_text_version(h)
<1>1. CASE refused
  BY <1>1 DEF revise_post
<1>2. CASE ~refused
  <2>1. Advanced(v, g) /\ g \in View
    <3>1. CASE S = {}
      <4> DEFINE z == v.post
      <4> DEFINE n == z.version + 1
      <4>1. z \in Post /\ n \in Nat
        BY ViewTypes DEF Post
      <4>2. g = WithPost(v, [z EXCEPT !.version = n])
        BY <3>1 DEF WithPost, View
      <4> HIDE DEF z, n, g
      <4>3. LET y == [z EXCEPT !.version = n] IN y \in Post /\ y.version = n /\ SamePost(z, y)
        BY <4>1 DEF Post, SamePost
      <4>4. g \in View /\ g.post.version = n /\ Same(v, g)
        BY <4>2, <4>3, WithPostTypes, SameWithPost DEF z
      <4> QED
        BY <4>4, SameProper DEF Advanced, n, z
    <3>2. CASE S # {}
      <4>1. s \in S
        BY <3>2
      <4> HIDE DEF s
      <4>2. Advanced(v, rerender_post(v, s, p)) /\ rerender_post(v, s, p) \in View
        BY <1>2, <4>1, RerenderContent
      <4> QED
        BY <3>2, <4>2
    <3> QED
      BY <3>1, <3>2
  <2> HIDE DEF g
  <2>2. t \in Texts /\ st \in PostStatus /\ ap \in {"reapproval_required", "unapproved"}
    BY <2>1, ViewTypes DEF Post, PostStatus
  <2> HIDE DEF t, st, ap
  <2>3. q \in Post /\ q.current = g.post.current /\ q.version = g.post.version
    <3> DEFINE z == g.post
    <3>1. z \in Post
      BY <2>1, ViewTypes
    <3> HIDE DEF z
    <3>2. LET y == [z EXCEPT !.text = t, !.approved = 0, !.status = st]
          IN y \in Post /\ y.current = z.current /\ y.version = z.version
      BY <2>2, <3>1 DEF Post
    <3> QED
      BY <3>2 DEF z
  <2> HIDE DEF q
  <2>4. r \in View /\ r.post = q /\ r.job = g.job /\ r.slot = g.slot /\ r.shelf = g.shelf
    BY <2>1, <2>3, WithPostTypes
  <2> HIDE DEF r
  <2>5. ASSUME NEW k \in Jobs PROVE G[k] \in Job /\ G[k].path = g.job[k].path
    <3> DEFINE x == r.job[k]
    <3> DEFINE e == IF T = {} THEN x.text ELSE t
    <3>1. x \in Job /\ e \in Texts /\ x = g.job[k]
      BY <2>2, <2>4, ViewTypes DEF Job
    <3> HIDE DEF x, e
    <3>2. LET y == [x EXCEPT !.status = "unapproved", !.approvedVersion = 0, !.approval = ap,
      !.text = e]
          IN y \in Job /\ y.path = x.path
      BY <2>2, <3>1 DEF Job, JobStatus
    <3> QED
      BY <3>1, <3>2 DEF x, e
  <2>6. G \in [Jobs -> Job]
    BY <2>5, Zenon
  <2> HIDE DEF G
  <2>7. h \in View /\ h.post = q /\ h.job = G /\ h.slot = g.slot /\ h.shelf = g.shelf
    BY <2>4, <2>6 DEF View
  <2> HIDE DEF h
  <2>8. Placed(g, h)
    BY <2>3, <2>5, <2>7 DEF Placed
  <2>9. /\ Placed(h, w) /\ w.post.text = w.post.tsel /\ w \in View
        /\ w.post.version = g.post.version
    BY <2>3, <2>7, EnsureTextContent, EnsureTextKeeps DEF Keeps
  <2>10. revise_post(v, S, p, T) = IF S = {} THEN w ELSE synchronize_post_versions(w)
    BY <1>2 DEF revise_post, WithJobs, w, h, G, r, q, t, st, ap, g, s
  <2> HIDE DEF w
  <2>11. Advanced(v, w)
    <3>1. Placed(g, w)
      BY <2>8, <2>9, PlacedTrans
    <3>2. Proper(w) /\ Grows(g, w)
      BY <2>1, <2>9, <3>1, PlacedProper DEF Advanced
    <3> QED
      BY <2>1, <2>9, <3>2 DEF Advanced, Grows
  <2>12. Advanced(v, synchronize_post_versions(w))
    <3>1. Synced(w, synchronize_post_versions(w)) /\ synchronize_post_versions(w).post = w.post
      BY <2>9, <2>11, SynchronizeContent DEF Advanced, Proper
    <3> QED
      BY <2>11, <3>1 DEF Advanced, Synced, Grows
  <2> QED
    BY <2>10, <2>11, <2>12
<1> QED
  BY <1>1, <1>2

\* and so does recompose_post_logos.
LEMMA RecomposeContent ==
    ASSUME ReviewAssumption, NEW v \in View, Proper(v), NEW p \in Paths, Format[p] = "feed"
    PROVE  LET w == recompose_post_logos(v, p) IN w = v \/ Advanced(v, w)
<1> DEFINE W == v.post.warnings \ {"logo"}
<1> DEFINE q == [v.post EXCEPT !.version = @ + 1, !.approved = 0, !.status = "reapproval", !.warnings = W]
<1> DEFINE r == WithPost(v, q)
<1> DEFINE z == v.job["feed"]
<1> DEFINE x == [z EXCEPT !.path = p]
<1> DEFINE m == WithJob(r, "feed", x)
<1> DEFINE w == WithJobs(m, Unpublished(v), mark_publication_for_reapproval)
<1>1. CASE v.job["feed"].status = "published"
  BY <1>1 DEF recompose_post_logos
<1>2. CASE v.job["feed"].status # "published"
  <2>1. q \in Post /\ q.version = v.post.version + 1 /\ SamePost(v.post, q)
    <3> DEFINE y == v.post
    <3> DEFINE n == y.version + 1
    <3>1. y \in Post /\ n \in Nat /\ W \in SUBSET {"logo", "result"}
      BY ViewTypes DEF Post
    <3> HIDE DEF y, n, W
    <3>2. LET e == [y EXCEPT !.version = n, !.approved = 0, !.status = "reapproval", !.warnings = W]
          IN e \in Post /\ e.version = n /\ SamePost(y, e)
      BY <3>1 DEF Post, PostStatus, SamePost
    <3> QED
      BY <3>2 DEF y, n
  <2> HIDE DEF q
  <2>2. r \in View /\ r.post = q /\ r.job = v.job /\ Same(v, r)
    BY <2>1, WithPostTypes, SameWithPost
  <2> HIDE DEF r
  <2>3. Advanced(v, r)
    BY <2>1, <2>2, SameProper DEF Advanced
  <2>4. z \in Job
    BY ViewTypes DEF Jobs
  <2> HIDE DEF z
  <2>5. x \in Job /\ x.path = p
    BY <2>4 DEF Job
  <2> HIDE DEF x
  <2>6. /\ m \in View /\ m.post = r.post /\ m.slot = r.slot /\ m.shelf = r.shelf
        /\ m.job = [r.job EXCEPT !["feed"] = x]
    BY <2>2, <2>5, WithJobTypes DEF Jobs
  <2> HIDE DEF m
  <2>7. m.job["feed"] = x /\ \A k \in Jobs \ {"feed"} : m.job[k] = r.job[k]
    BY <2>2, <2>6, ViewTypes DEF Jobs
  <2>8. Advanced(v, m)
    BY <2>3, <2>5, <2>6, <2>7 DEF Advanced, Proper, Housed, Stocked, Grows
  <2>9. w.post = m.post /\ Same(m, w)
    BY <2>6, SameMarked DEF Unpublished
  <2>10. w = recompose_post_logos(v, p)
    BY <1>2 DEF recompose_post_logos, w, m, x, z, r, q, W
  <2> HIDE DEF w
  <2> QED
    BY <2>8, <2>9, <2>10, MovedSame
<1> QED
  BY <1>1, <1>2

\* New graphics are of the kind of the output they are drawn for.
LEMMA OrderFiles ==
    ASSUME NEW o \in Orders
    PROVE  /\ o.name = "rerender" => Format[o.path] = Kind[o.slot]
           /\ o.name = "revise" => \A s \in o.slots : Format[o.path] = Kind[s]
           /\ o.name = "recompose" => Format[o.path] = "feed"
BY DEF Orders, Renders, Rerenders, Revisions, Recompositions, Unlocked, Locking

\* An order other than an approval makes another version of the post, unless it
\* changes neither texts nor files; a rejection or a cancellation never does.
LEMMA EffectContent ==
    ASSUME ReviewAssumption, Single, NEW v \in View, Proper(v), NEW o \in Orders, o.name # "approve"
    PROVE  LET w == Effect(o, v) IN
           /\ Advanced(v, w) \/ Same(v, w)
           /\ o.name \in {"reject", "cancel"} => Same(v, w)
<1> DEFINE w == Effect(o, v)
<1>1. CASE o.name = "edit_text"
  BY <1>1, OrderTypes, EditTextContent DEF Effect
<1>3. CASE o.name = "reject"
  BY <1>3, RejectContent DEF Effect
<1>4. CASE o.name = "cancel"
  BY <1>4, OrderTypes, CancelContent DEF Effect
<1>5. CASE o.name \in {"logo_changed", "result_changed"}
  BY <1>5, RevokeContent DEF Effect, invalidate_posts_for_logo_change,
     invalidate_posts_for_result_change, Unpublished
<1>6. CASE o.name = "select_media"
  <2>1. CASE o.path \in v.shelf[o.slot]
    <3>1. w = ChooseMedia(v, o.slot, "manual", o.path)
      BY <1>6, <2>1 DEF Effect, select_media_version
    <3>2. w = v \/ Advanced(v, w)
      BY <1>6, <2>1, <3>1, OrderTypes, ChooseMediaContent
    <3> QED
      BY <1>6, <3>2, SameRefl
  <2>2. CASE o.path \notin v.shelf[o.slot]
    BY <1>6, <2>2, SameRefl DEF Effect, select_media_version
  <2> QED
    BY <2>1, <2>2
<1>7. CASE o.name = "auto_media"
  <2>1. o.slot \in Slots /\ v.slot[o.slot].latest \in v.shelf[o.slot]
    BY <1>7, OrderTypes DEF Proper, Housed
  <2>2. w = ChooseMedia(v, o.slot, "auto", v.slot[o.slot].latest)
    BY <1>7 DEF Effect, select_latest_media_automatically
  <2>3. w = v \/ Advanced(v, w)
    BY <2>1, <2>2, ChooseMediaContent
  <2> QED
    BY <1>7, <2>3, SameRefl
<1>8. CASE o.name = "select_variant"
  BY <1>8, OrderTypes, SelectVariantContent, SameRefl DEF Effect
<1>9. CASE o.name \in {"select_text", "auto_text"}
  <2>1. v.post.tlatest \in Texts
    BY ViewTypes DEF Post
  <2> QED
    BY <1>9, <2>1, OrderTypes, ChooseTextContent, SameRefl DEF Effect, select_text_version,
       select_latest_text_automatically
<1>10. CASE o.name = "channel_text"
  BY <1>10, ChannelTextContent DEF Effect
<1>11. CASE o.name = "delete"
  BY <1>11, DeleteContent DEF Effect
<1>12. CASE o.name = "reschedule"
  BY <1>12, OrderTypes, RescheduleContent DEF Effect
<1>13. CASE o.name = "rerender"
  <2>1. CASE Rerenderable(v, o.slot)
    BY <1>13, <2>1, OrderTypes, OrderFiles, RerenderContent DEF Effect
  <2>2. CASE ~Rerenderable(v, o.slot)
    BY <1>13, <2>2, SameRefl DEF Effect, rerender_post
  <2> QED
    BY <2>1, <2>2
<1>14. CASE o.name = "revise"
  <2>1. w = revise_post(v, o.slots, o.path, o.texts)
    BY <1>14 DEF Effect
  <2>2. w = v \/ Advanced(v, w)
    BY <1>14, <2>1, OrderTypes, OrderFiles, ReviseContent
  <2> QED
    BY <1>14, <2>2, SameRefl
<1>15. CASE o.name = "recompose"
  BY <1>15, OrderTypes, OrderFiles, RecomposeContent, SameRefl DEF Effect
<1> QED
  BY <1>1, <1>3, <1>4, <1>5, <1>6, <1>7, <1>8, <1>9, <1>10, <1>11, <1>12, <1>13, <1>14, <1>15,
    OrderTypes

(***************************************************************************)
(* What a session writes of them                                           *)
(***************************************************************************)
\* A session writes of a post's texts and files what it has changed,
LEMMA PutTexts ==
    ASSUME NEW row \in Post, NEW s \in Post, NEW n \in Post
    PROVE  LET p == Put(row, s, n) IN
           /\ p.current = IF n.current = s.current THEN row.current ELSE n.current
           /\ p.text = IF n.text = s.text THEN row.text ELSE n.text
           /\ p.tsel = IF n.tsel = s.tsel THEN row.tsel ELSE n.tsel
BY DEF Put, Post

\* of a job's,
LEMMA PutFile ==
    ASSUME NEW row \in Job, NEW s \in Job, NEW n \in Job
    PROVE  LET p == Put(row, s, n) IN
           /\ p.path = IF n.path = s.path THEN row.path ELSE n.path
           /\ p.text = IF n.text = s.text THEN row.text ELSE n.text
BY DEF Put, Job

\* and of an output's selection.
LEMMA PutSelection ==
    ASSUME NEW row \in Slot, NEW s \in Slot, NEW n \in Slot
    PROVE  LET p == Put(row, s, n) IN
           /\ p.sel = IF n.sel = s.sel THEN row.sel ELSE n.sel
           /\ p.latest = IF n.latest = s.latest THEN row.latest ELSE n.latest
BY DEF Put, Slot

\* A row the session left alone keeps what others wrote; one nobody else wrote becomes its own.
LEMMA PutWhole ==
    ASSUME NEW a \in Slot, NEW b \in Slot
    PROVE  Put(a, b, b) = a /\ Put(a, a, b) = b
BY DEF Put, Slot

\* What a session writes is written row by row.
LEMMA MergedRows ==
    ASSUME NEW s, NEW n
    PROVE  LET m == Merge(s, n) IN
           /\ m.post = Put(db.post, s.post, n.post)
           /\ \A j \in Jobs : m.job[j] = Put(db.job[j], s.job[j], n.job[j])
           /\ m.slot = [t \in Slots |-> Put(db.slot[t], s.slot[t], n.slot[t])]
           /\ m.shelf = [t \in Slots |-> db.shelf[t] \cup n.shelf[t]]
BY DEF Merge

\* Rows in order stay in order when a session whose rows are in order writes.
LEMMA MergeProper ==
    ASSUME db \in View, NEW s \in View, NEW n \in View, Proper(db), Proper(s), Proper(n), Grows(s, db)
    PROVE  Proper(Merge(s, n)) /\ Grows(db, Merge(s, n))
<1> DEFINE m == Merge(s, n)
<1>1. /\ m.post = Put(db.post, s.post, n.post)
      /\ \A j \in Jobs : m.job[j] = Put(db.job[j], s.job[j], n.job[j])
      /\ m.slot = [t \in Slots |-> Put(db.slot[t], s.slot[t], n.slot[t])]
      /\ m.shelf = [t \in Slots |-> db.shelf[t] \cup n.shelf[t]]
  BY MergedRows
<1> HIDE DEF m
<1>a. \A t \in Slots : /\ m.slot[t] = Put(db.slot[t], s.slot[t], n.slot[t])
                       /\ m.shelf[t] = db.shelf[t] \cup n.shelf[t]
  BY <1>1
<1>2. /\ m.post.current \in {db.post.current, n.post.current}
      /\ m.post.text = m.post.tsel
  <2>1. /\ m.post.current = IF n.post.current = s.post.current THEN db.post.current ELSE n.post.current
        /\ m.post.text = IF n.post.text = s.post.text THEN db.post.text ELSE n.post.text
        /\ m.post.tsel = IF n.post.tsel = s.post.tsel THEN db.post.tsel ELSE n.post.tsel
    <3>1. db.post \in Post /\ s.post \in Post /\ n.post \in Post
      BY ViewTypes
    <3> QED
      BY <1>1, <3>1, PutTexts
  <2> QED
    BY <2>1 DEF Proper
<1>3. ASSUME NEW j \in Jobs PROVE m.job[j].path \in {db.job[j].path, n.job[j].path}
  <2>1. db.job[j] \in Job /\ s.job[j] \in Job /\ n.job[j] \in Job
    BY ViewTypes
  <2> QED
    BY <1>1, <2>1, PutFile
<1>4. ASSUME NEW t \in Slots
      PROVE  /\ m.slot[t].sel \in {db.slot[t].sel, n.slot[t].sel}
             /\ m.slot[t].latest \in {db.slot[t].latest, n.slot[t].latest}
  <2>1. db.slot[t] \in Slot /\ s.slot[t] \in Slot /\ n.slot[t] \in Slot
    BY ViewTypes
  <2> QED
    BY <1>a, <2>1, PutSelection, SMTT(30)
<1>5. Grows(db, m)
  BY <1>a DEF Grows
<1>6. \A j \in Jobs : Format[m.job[j].path] = j
  BY <1>3 DEF Proper, Housed
<1>7. ASSUME NEW t \in Slots
      PROVE  /\ m.slot[t].sel \in m.shelf[t] /\ m.slot[t].latest \in m.shelf[t]
             /\ (\A p \in m.shelf[t] : Format[p] = Kind[t])
             /\ m.post.current[t] \in m.shelf[t] /\ Format[m.post.current[t]] = Kind[t]
  BY <1>a, <1>2, <1>4 DEF Proper, Housed, Stocked
<1>8. Proper(m)
  BY <1>2, <1>6, <1>7 DEF Proper, Housed, Stocked
<1> QED
  BY <1>5, <1>8 DEF m

\* What the session left as it read it stays as it is.
LEMMA MergeSame ==
    ASSUME db \in View, NEW s \in View, NEW n \in View, Same(s, n), Grows(s, db)
    PROVE  Same(db, Merge(s, n))
<1> DEFINE m == Merge(s, n)
<1>1. /\ m.post = Put(db.post, s.post, n.post)
      /\ \A j \in Jobs : m.job[j] = Put(db.job[j], s.job[j], n.job[j])
      /\ m.slot = [t \in Slots |-> Put(db.slot[t], s.slot[t], n.slot[t])]
      /\ m.shelf = [t \in Slots |-> db.shelf[t] \cup n.shelf[t]]
  BY MergedRows
<1> HIDE DEF m
<1>2. SamePost(db.post, m.post)
  <2> DEFINE p == db.post
  <2> DEFINE q == s.post
  <2> DEFINE r == n.post
  <2>1. p \in Post /\ q \in Post /\ r \in Post /\ m.post = Put(p, q, r) /\ SamePost(q, r)
    BY <1>1, ViewTypes DEF Same
  <2> HIDE DEF p, q, r
  <2>2. SamePost(p, m.post)
    BY <2>1, PutTexts DEF SamePost
  <2> QED
    BY <2>2 DEF p
<1>3. ASSUME NEW j \in Jobs PROVE m.job[j].path = db.job[j].path /\ m.job[j].text = db.job[j].text
  <2>1. db.job[j] \in Job /\ s.job[j] \in Job /\ n.job[j] \in Job
    BY ViewTypes
  <2>2. n.job[j].path = s.job[j].path /\ n.job[j].text = s.job[j].text
    BY DEF Same, SameJobs
  <2> QED
    BY <1>1, <2>1, <2>2, PutFile, SMTT(30)
<1>4. m.slot = db.slot
  <2>1. \A t \in Slots : Put(db.slot[t], s.slot[t], n.slot[t]) = db.slot[t]
    BY PutWhole, ViewTypes DEF Same
  <2> QED
    BY <1>1, <2>1, ViewTypes
<1>5. m.shelf = db.shelf
  <2>1. \A t \in Slots : db.shelf[t] \cup n.shelf[t] = db.shelf[t]
    BY DEF Same, Grows
  <2> QED
    BY <1>1, <2>1, ViewTypes
<1> QED
  BY <1>2, <1>3, <1>4, <1>5 DEF Same, SameJobs, m

\* What nobody has changed since the session read it is as the session leaves it.
LEMMA MergeWhole ==
    ASSUME db \in View, NEW s \in View, NEW n \in View, Same(s, db), Grows(s, n)
    PROVE  Same(n, Merge(s, n))
<1> DEFINE m == Merge(s, n)
<1>1. /\ m.post = Put(db.post, s.post, n.post)
      /\ \A j \in Jobs : m.job[j] = Put(db.job[j], s.job[j], n.job[j])
      /\ m.slot = [t \in Slots |-> Put(db.slot[t], s.slot[t], n.slot[t])]
      /\ m.shelf = [t \in Slots |-> db.shelf[t] \cup n.shelf[t]]
  BY MergedRows
<1> HIDE DEF m
<1>2. SamePost(n.post, m.post)
  <2> DEFINE p == db.post
  <2> DEFINE q == s.post
  <2> DEFINE r == n.post
  <2>1. p \in Post /\ q \in Post /\ r \in Post /\ m.post = Put(p, q, r) /\ SamePost(q, p)
    BY <1>1, ViewTypes DEF Same
  <2> HIDE DEF p, q, r
  <2>2. SamePost(r, m.post)
    BY <2>1, PutTexts DEF SamePost
  <2> QED
    BY <2>2 DEF r
<1>3. ASSUME NEW j \in Jobs PROVE m.job[j].path = n.job[j].path /\ m.job[j].text = n.job[j].text
  <2>1. db.job[j] \in Job /\ s.job[j] \in Job /\ n.job[j] \in Job
    BY ViewTypes
  <2>2. db.job[j].path = s.job[j].path /\ db.job[j].text = s.job[j].text
    BY DEF Same, SameJobs
  <2> QED
    BY <1>1, <2>1, <2>2, PutFile, SMTT(30)
<1>4. m.slot = n.slot
  <2>1. \A t \in Slots : Put(db.slot[t], s.slot[t], n.slot[t]) = n.slot[t]
    BY PutWhole, ViewTypes DEF Same
  <2> QED
    BY <1>1, <2>1, ViewTypes
<1>5. m.shelf = n.shelf
  <2>1. \A t \in Slots : db.shelf[t] \cup n.shelf[t] = n.shelf[t]
    BY DEF Same, Grows
  <2> QED
    BY <1>1, <2>1, ViewTypes
<1> QED
  BY <1>2, <1>3, <1>4, <1>5 DEF Same, SameJobs, m

(***************************************************************************)
(* What an approval binds                                                  *)
(***************************************************************************)
\* Job j of v shows the selected file and text, and x the same.
Agreed(v, j, x) ==
    /\ v.job[j].path = Sel(v, j) /\ v.job[j].text = v.post.tsel
    /\ x.path = v.job[j].path /\ x.text = v.job[j].text

\* What is read is in order, and older than the rows.
ReadsInv ==
    /\ Proper(db)
    /\ \A r \in Sessions : req[r].phase # "idle" => Proper(req[r].seen) /\ Grows(req[r].seen, db)
    /\ worker.phase = "sending" => Grows(worker.seen, db)

\* An approval for the version of the post agrees with the selection; one under way
\* has read texts and files of its version, or comes too late.
BindingInv ==
    /\ \A j \in Jobs : ~Outdated(j) => Agreed(db, j, frozen[j])
    /\ \A r \in Sessions : Asks(r) =>
         /\ \A j \in Jobs : db.job[j].approvedVersion <= req[r].seen.post.version
         /\ req[r].seen.post.version = db.post.version =>
              /\ SamePost(req[r].seen.post, db.post)
              /\ Grants(r) => Same(req[r].seen, db)

\* What went out is what was approved, and an approval of a job that has gone out
\* since approves the same again.
SentInv ==
    /\ \A x \in sent : /\ db.job[x.job].attempts > 0
                       /\ x.path = frozen[x.job].path /\ x.text = frozen[x.job].text
    /\ \A r \in Sessions : Grants(r) =>
         \A x \in sent : /\ x.job \in req[r].order.jobs
                         /\ ~Started(req[r].seen.job[x.job])
                         => Agreed(req[r].seen, x.job, x)

ContentInv == ReadsInv /\ SentInv /\ (db.post.status # "deleted" => BindingInv)

\* An approval agrees with all rows of the same contents,
LEMMA AgreedSame ==
    ASSUME NEW v, NEW w, Same(v, w), NEW j \in Jobs, NEW x, Agreed(v, j, x) PROVE Agreed(w, j, x)
BY DEF Agreed, Same, SamePost, SameJobs, Sel

\* whichever of the two is called the older.
LEMMA SameBack ==
    ASSUME NEW v, NEW w, Same(v, w) PROVE Same(w, v)
BY DEF Same, SamePost, SameJobs

\* What a request sees is in order, read again or not.
LEMMA SeenContent ==
    ASSUME RowTypes, ReadsInv, NEW r \in Sessions, req[r].phase # "idle"
    PROVE  /\ Seen(r) \in View /\ Proper(Seen(r)) /\ Grows(Seen(r), db)
           /\ Seen(r).post = req[r].seen.post
<1> DEFINE v == req[r].seen
<1>1. Seen(r) \in View /\ Seen(r).post = v.post /\ Seen(r).job = v.job /\ v \in View
  BY SeenType
<1>2. Proper(v) /\ Grows(v, db) /\ Proper(db)
  BY DEF ReadsInv
<1>3. CASE Seen(r) = v
  BY <1>1, <1>2, <1>3
<1>4. CASE Seen(r).slot = db.slot /\ Seen(r).shelf = db.shelf
  <2> DEFINE s == Seen(r)
  <2> HIDE DEF s, v
  <2>1. s.post = v.post /\ s.job = v.job /\ s.slot = db.slot /\ s.shelf = db.shelf
    BY <1>1, <1>4 DEF s
  <2>2. Proper(s) /\ Grows(s, db)
    BY <1>2, <2>1 DEF Proper, Housed, Stocked, Grows
  <2> QED
    BY <1>1, <2>2 DEF s, v
<1>5. Seen(r) = v \/ (Seen(r).slot = db.slot /\ Seen(r).shelf = db.shelf)
  <2>1. \A p \in Post, J \in [Jobs -> Job] :
          [db EXCEPT !.post = p, !.job = J].slot = db.slot /\ [db EXCEPT !.post = p, !.job = J].shelf = db.shelf
    BY DEF RowTypes, View
  <2>2. v.post \in Post /\ v.job \in [Jobs -> Job]
    BY <1>1, ViewTypes
  <2>3. [db EXCEPT !.post = v.post, !.job = v.job].slot = db.slot
        /\ [db EXCEPT !.post = v.post, !.job = v.job].shelf = db.shelf
    BY <2>1, <2>2
  <2> QED
    BY <2>3 DEF Seen
<1> QED
  BY <1>3, <1>4, <1>5

\* Steps that approve and send nothing.
LEMMA Unbinding ==
    ASSUME RowTypes, RowTypes', ContentInv, ResendInv,
           Advanced(db, db') \/ Same(db, db'),
           db'.post.version \in {db.post.version, db.post.version + 1},
           \A j \in Jobs : /\ db'.job[j].approvedVersion \in {db.job[j].approvedVersion, 0}
                           /\ db.job[j].attempts > 0 => db'.job[j].attempts > 0,
           db.post.status = "deleted" => db'.post.status = "deleted",
           frozen' = frozen, sent' = sent,
           \A r \in Sessions : req'[r] = req[r] \/ req'[r] = Idle,
           worker'.phase = "sending" => worker.phase = "sending" /\ worker'.seen = worker.seen
    PROVE  ContentInv'
<1>1. /\ db \in View /\ db' \in View
      /\ db.post.version \in Nat /\ db'.post.version \in Nat
      /\ \A j \in Jobs : db.job[j].approvedVersion \in Nat /\ db'.job[j].approvedVersion \in Nat
  BY NumberTypes, ViewTypes DEF RowTypes, Post, Job
<1>2. Proper(db') /\ Grows(db, db')
  BY SameProper DEF Advanced, ContentInv, ReadsInv
<1>3. ASSUME NEW r \in Sessions, req'[r].phase # "idle"
      PROVE  req'[r] = req[r] /\ req[r].phase # "idle" /\ req[r].seen.post.version \in Nat
  <2>1. req'[r] = req[r] /\ req[r].phase # "idle"
    BY <1>3 DEF Idle
  <2> QED
    BY <2>1, SeenType, ViewTypes DEF Post
<1>4. ReadsInv'
  <2>1. \A r \in Sessions : req'[r].phase # "idle" => Proper(req'[r].seen) /\ Grows(req'[r].seen, db')
    BY <1>2, <1>3 DEF ContentInv, ReadsInv, Grows
  <2>2. worker'.phase = "sending" => Grows(worker'.seen, db')
    BY <1>2 DEF ContentInv, ReadsInv, Grows
  <2> QED
    BY <1>2, <2>1, <2>2 DEF ReadsInv
<1>5. SentInv'
  <2>1. \A x \in sent : x.job \in Jobs
    BY DEF RowTypes
  <2>2. \A x \in sent' : /\ db'.job[x.job].attempts > 0
                         /\ x.path = frozen'[x.job].path /\ x.text = frozen'[x.job].text
    BY <2>1 DEF ContentInv, SentInv
  <2>3. \A r \in Sessions : Grants(r)' => Grants(r) /\ req'[r] = req[r]
    BY <1>3 DEF Grants
  <2>4. \A r \in Sessions : Grants(r)' =>
           \A x \in sent' : /\ x.job \in req'[r].order.jobs
                            /\ ~Started(req'[r].seen.job[x.job])
                            => Agreed(req'[r].seen, x.job, x)
    BY <2>3 DEF ContentInv, SentInv
  <2> QED
    BY <2>2, <2>4 DEF SentInv
<1>6. ASSUME db'.post.status # "deleted" PROVE BindingInv'
  <2>1. BindingInv /\ JobsInv /\ ApprovalsInv
    BY <1>6 DEF ContentInv, ResendInv
  <2>2. ASSUME NEW r \in Sessions, Asks(r)'
        PROVE  /\ Asks(r) /\ req'[r] = req[r] /\ req[r].seen.post.version \in Nat
               /\ req[r].seen.post.version <= db.post.version
               /\ \A j \in Jobs : db'.job[j].approvedVersion <= req[r].seen.post.version
               /\ Grants(r)' => Grants(r)
    <3>1. Asks(r) /\ req'[r] = req[r] /\ req[r].seen.post.version \in Nat /\ (Grants(r)' => Grants(r))
      BY <1>3, <2>2 DEF Asks, Grants
    <3>2. req[r].seen.post.version <= db.post.version
      BY <2>1, <3>1 DEF ApprovalsInv, Asks
    <3>3. \A j \in Jobs : db.job[j].approvedVersion <= req[r].seen.post.version
      BY <2>1, <3>1 DEF BindingInv
    <3> QED
      BY <1>1, <3>1, <3>2, <3>3
  <2>3. CASE db'.post.version = db.post.version + 1
    <3>1. \A j \in Jobs : Outdated(j)'
      BY <1>1, <2>1, <2>3 DEF JobsInv, Outdated
    <3>2. \A r \in Sessions : Asks(r)' => req'[r].seen.post.version # db'.post.version
      BY <1>1, <2>2, <2>3
    <3> QED
      BY <2>2, <3>1, <3>2 DEF BindingInv
  <2>4. CASE db'.post.version = db.post.version
    <3>1. Same(db, db')
      BY <1>1, <2>4 DEF Advanced
    <3>2. ASSUME NEW j \in Jobs, ~Outdated(j)' PROVE Agreed(db', j, frozen'[j])
      <4>1. ~Outdated(j)
        BY <1>1, <2>1, <2>4, <3>2 DEF JobsInv, Outdated
      <4> QED
        BY <2>1, <3>1, <4>1, AgreedSame DEF BindingInv
    <3>3. ASSUME NEW r \in Sessions, Asks(r)', req'[r].seen.post.version = db'.post.version
          PROVE  /\ SamePost(req'[r].seen.post, db'.post)
                 /\ Grants(r)' => Same(req'[r].seen, db')
      <4>1. /\ SamePost(req[r].seen.post, db.post) /\ (Grants(r)' => Same(req[r].seen, db))
            /\ req'[r] = req[r]
        BY <2>1, <2>2, <2>4, <3>3 DEF BindingInv
      <4>2. SamePost(db.post, db'.post)
        BY <3>1 DEF Same
      <4>3. SamePost(req[r].seen.post, db'.post)
        BY <4>1, <4>2 DEF SamePost
      <4> QED
        BY <3>1, <4>1, <4>3, SameTrans
    <3> QED
      BY <2>2, <3>2, <3>3 DEF BindingInv
  <2> QED
    BY <2>3, <2>4
<1> QED
  BY <1>4, <1>5, <1>6 DEF ContentInv

\* An approval.
LEMMA Binding ==
    ASSUME ReviewAssumption, Single, RowTypes, RowTypes', ContentInv, ResendInv,
           NEW r \in Sessions, Commit(r), req[r].order.name = "approve",
           Effect(req[r].order, Seen(r)) # Seen(r)
    PROVE  ContentInv'
<1> DEFINE s == req[r].seen
<1> DEFINE J == req[r].order.jobs
<1> DEFINE now == req[r].order.now
<1> DEFINE n == approve(s, J, now)
<1>1. /\ Grants(r) /\ Asks(r) /\ s \in View /\ Proper(s) /\ Grows(s, db)
      /\ J \in SUBSET Jobs /\ now \in BOOLEAN
      /\ Seen(r) = s /\ Effect(req[r].order, Seen(r)) = n
  <2>1. Grants(r) /\ Asks(r)
    BY DEF Commit, Grants, Asks
  <2>2. req[r].order \in Orders /\ s \in View
    BY <2>1, SeenType, SMTT(30) DEF Grants
  <2>3. Seen(r) = s
    BY DEF Seen, Renders, Rerenders, Revisions, Recompositions
  <2>4. Effect(req[r].order, Seen(r)) = n
    BY <2>3 DEF Effect
  <2>5. J \in SUBSET Jobs /\ now \in BOOLEAN
    BY <2>2, OrderTypes
  <2>6. Proper(s) /\ Grows(s, db)
    BY <2>1 DEF ContentInv, ReadsInv, Grants
  <2> QED
    BY <2>1, <2>2, <2>3, <2>4, <2>5, <2>6
<1>2. /\ Proper(n) /\ Grows(s, n) /\ SamePost(s.post, n.post) /\ Settled(s, n)
      /\ \A j \in J : n.job[j].path = Sel(n, j) /\ n.job[j].text = n.post.tsel
      /\ \A j \in Jobs \ J : n.job[j].text = s.job[j].text
      /\ Granted(s, n, J) /\ n \in View
  <2>1. s \in View /\ Proper(s) /\ J \in SUBSET Jobs /\ now \in BOOLEAN /\ n # s
    BY <1>1
  <2> HIDE DEF s, J, now
  <2>2. /\ Proper(n) /\ Grows(s, n) /\ SamePost(s.post, n.post) /\ Settled(s, n)
        /\ \A j \in J : n.job[j].path = Sel(n, j) /\ n.job[j].text = n.post.tsel
        /\ \A j \in Jobs \ J : n.job[j].text = s.job[j].text
    BY <2>1, ApproveContent, SMTT(40)
  <2>3. Granted(s, n, J)
    BY <2>1, ApproveShape
  <2> QED
    BY <2>2, <2>3 DEF Granted
<1>3. /\ db' = IF db.post.status = "deleted" THEN db ELSE Merge(s, n)
      /\ frozen' = [j \in Jobs |-> IF j \in J
                                   THEN [path |-> n.job[j].path, text |-> n.job[j].text,
                                         version |-> n.job[j].approvedVersion]
                                   ELSE frozen[j]]
      /\ req' = [req EXCEPT ![r] = Idle] /\ sent' = sent /\ worker' = worker
  BY <1>1 DEF Commit
<1> HIDE DEF n
<1>4. \A t \in Sessions : req'[t].phase # "idle" => t # r /\ req'[t] = req[t] /\ req[t].phase # "idle"
  BY <1>3 DEF RowTypes, Idle
<1>5. /\ \A j \in J : frozen'[j].path = n.job[j].path /\ frozen'[j].text = n.job[j].text
      /\ \A j \in Jobs \ J : frozen'[j] = frozen[j]
  BY <1>1, <1>3
<1>6. db \in View /\ Proper(db)
  BY DEF RowTypes, ContentInv, ReadsInv
<1>7. Proper(db') /\ Grows(db, db')
  BY <1>1, <1>2, <1>3, <1>6, MergeProper DEF Grows
<1>8. ReadsInv'
  <2>1. \A t \in Sessions : req'[t].phase # "idle" => Proper(req'[t].seen) /\ Grows(req'[t].seen, db')
    BY <1>4, <1>7 DEF ContentInv, ReadsInv, Grows
  <2>2. worker'.phase = "sending" => Grows(worker'.seen, db')
    BY <1>3, <1>7 DEF ContentInv, ReadsInv, Grows
  <2> QED
    BY <1>7, <2>1, <2>2 DEF ReadsInv
<1>9. ASSUME NEW j \in Jobs, db.post.status # "deleted"
      PROVE  /\ db'.job[j].attempts = db.job[j].attempts
             /\ db'.job[j].approvedVersion \in {db.job[j].approvedVersion, s.post.version}
             /\ j \notin J => db'.job[j].approvedVersion = db.job[j].approvedVersion
             /\ db'.post.version = db.post.version
  <2>1. db.job[j] \in Job /\ s.job[j] \in Job /\ n.job[j] \in Job
    BY <1>1, <1>2, <1>6, ViewTypes, SMTT(30)
  <2>2. db'.job[j] = Put(db.job[j], s.job[j], n.job[j]) /\ db'.post.version = db.post.version
    BY <1>1, <1>2, <1>3, <1>6, <1>9, Merged, SMTT(30) DEF Granted
  <2>3. /\ n.job[j].attempts = s.job[j].attempts
        /\ n.job[j].approvedVersion \in {s.job[j].approvedVersion, s.post.version}
        /\ j \notin J => n.job[j].approvedVersion = s.job[j].approvedVersion
    BY <1>1, <1>2 DEF Granted, Alike
  <2> DEFINE x == db.job[j]
  <2> DEFINE y == s.job[j]
  <2> DEFINE z == n.job[j]
  <2>4. x \in Job /\ y \in Job /\ z \in Job /\ db'.job[j] = Put(x, y, z)
    BY <2>1, <2>2
  <2> HIDE DEF x, y, z
  <2>5. /\ db'.job[j].attempts = IF z.attempts = y.attempts THEN x.attempts ELSE z.attempts
        /\ db'.job[j].approvedVersion = IF z.approvedVersion = y.approvedVersion
                                        THEN x.approvedVersion ELSE z.approvedVersion
    BY <2>4, PutJob
  <2> QED
    BY <2>2, <2>3, <2>5 DEF x, y, z
<1>10. SentInv'
  <2>1. ASSUME NEW x \in sent
        PROVE  /\ db'.job[x.job].attempts > 0
               /\ x.path = frozen'[x.job].path /\ x.text = frozen'[x.job].text
    <3>1. /\ x.job \in Jobs /\ db.job[x.job].attempts > 0
          /\ x.path = frozen[x.job].path /\ x.text = frozen[x.job].text
      BY DEF RowTypes, ContentInv, SentInv
    <3>2. db'.job[x.job].attempts > 0
      BY <1>3, <1>9, <3>1
    <3>3. CASE x.job \in J
      <4>1. Agreed(s, x.job, x)
        BY <1>1, <1>2, <3>3 DEF ContentInv, SentInv, Granted
      <4>2. n.job[x.job].path = s.job[x.job].path /\ n.job[x.job].text = n.post.tsel /\ n.post.tsel = s.post.tsel
        BY <1>2, <3>1, <3>3, <4>1 DEF Agreed, Settled, SamePost
      <4> QED
        BY <1>5, <3>2, <3>3, <4>1, <4>2 DEF Agreed
    <3>4. CASE x.job \notin J
      BY <1>5, <3>1, <3>2, <3>4
    <3> QED
      BY <3>3, <3>4
  <2>2. \A t \in Sessions : Grants(t)' => Grants(t) /\ req'[t] = req[t]
    BY <1>4 DEF Grants
  <2>3. \A t \in Sessions : Grants(t)' =>
           \A x \in sent : /\ x.job \in req'[t].order.jobs
                           /\ ~Started(req'[t].seen.job[x.job])
                           => Agreed(req'[t].seen, x.job, x)
    BY <2>2 DEF ContentInv, SentInv
  <2> QED
    BY <1>3, <2>1, <2>3 DEF SentInv
<1>11. ASSUME db'.post.status # "deleted" PROVE BindingInv'
  <2>1. db.post.status # "deleted" /\ BindingInv /\ JobsInv /\ ApprovalsInv
    BY <1>3, <1>11 DEF ContentInv, ResendInv
  <2>2. \A t \in Sessions : ~Asks(t)'
    BY <1>1, <1>4, <2>1 DEF ApprovalsInv, Asks
  <2>3. /\ s.post.version \in Nat /\ db.post.version \in Nat /\ s.post.version <= db.post.version
        /\ \A j \in Jobs : db.job[j].approvedVersion \in Nat
    BY <1>1, <1>6, <2>1, NumberTypes, ViewTypes DEF ApprovalsInv, Post, Asks
  <2>4. CASE s.post.version < db.post.version
    <3>1. \A j \in Jobs : db.job[j].approvedVersion <= s.post.version
      BY <1>1, <2>1 DEF BindingInv
    <3>2. \A j \in Jobs : Outdated(j)'
      BY <1>9, <2>1, <2>3, <2>4, <3>1 DEF Outdated
    <3> QED
      BY <2>2, <3>2 DEF BindingInv
  <2>5. CASE s.post.version = db.post.version
    <3>1. Same(s, db)
      BY <1>1, <2>1, <2>5 DEF BindingInv
    <3>2. Same(n, db')
      BY <1>1, <1>2, <1>3, <1>6, <2>1, <3>1, MergeWhole
    <3>3. ASSUME NEW j \in Jobs, ~Outdated(j)' PROVE Agreed(n, j, frozen'[j])
      <4>1. CASE j \in J
        BY <1>2, <1>5, <4>1 DEF Agreed
      <4>2. CASE j \notin J
        <5>1. ~Outdated(j)
          BY <1>9, <2>1, <3>3, <4>2 DEF Outdated
        <5>2. Agreed(s, j, frozen[j])
          BY <2>1, <3>1, <5>1, SameBack, AgreedSame DEF BindingInv
        <5> QED
          BY <1>2, <1>5, <4>2, <5>2 DEF Agreed, Settled, SamePost
      <4> QED
        BY <4>1, <4>2
    <3>4. \A j \in Jobs : ~Outdated(j)' => Agreed(db', j, frozen'[j])
      BY <3>2, <3>3, AgreedSame
    <3> QED
      BY <2>2, <3>4 DEF BindingInv
  <2> QED
    BY <2>3, <2>4, <2>5
<1> QED
  BY <1>8, <1>10, <1>11 DEF ContentInv

\* The dry-run worker changes neither texts nor files.
LEMMA RefusedContent ==
    ASSUME NEW v \in View, NEW j \in Jobs, NEW t \in BOOLEAN, NEW x \in BOOLEAN
    PROVE  Same(v, Refused(v, j, t, x))
<1> DEFINE z == v.job[j]
<1> DEFINE st == IF x THEN "reapproval" ELSE v.post.status
<1> DEFINE p == [v.post EXCEPT !.status = st]
<1>1. z \in Job /\ st \in PostStatus
  BY ViewTypes DEF Post, PostStatus
<1> HIDE DEF z, st
<1>2. /\ [z EXCEPT !.status = "scheduled"] \in Job
      /\ [z EXCEPT !.status = "scheduled"].path = z.path /\ [z EXCEPT !.status = "scheduled"].text = z.text
      /\ LET y == [z EXCEPT !.status = "unapproved", !.approval = "reapproval_required"]
         IN y \in Job /\ y.path = z.path /\ y.text = z.text
  BY <1>1 DEF Job, JobStatus
<1>3. p \in Post /\ SamePost(v.post, p)
  BY <1>1, ViewTypes DEF Post, SamePost
<1> HIDE DEF p
<1>4. CASE t
  <2> DEFINE y == [z EXCEPT !.status = "scheduled"]
  <2>1. y \in Job /\ y.path = v.job[j].path /\ y.text = v.job[j].text
    BY <1>2 DEF z
  <2>2. Refused(v, j, t, x) = WithJob(v, j, y)
    BY <1>4 DEF Refused, z
  <2> HIDE DEF y
  <2> QED
    BY <2>1, <2>2, SameWithJob
<1>5. CASE ~t
  <2> DEFINE y == [z EXCEPT !.status = "unapproved", !.approval = "reapproval_required"]
  <2> DEFINE q == WithPost(v, p)
  <2>1. y \in Job /\ y.path = v.job[j].path /\ y.text = v.job[j].text
    BY <1>2 DEF z
  <2>2. Refused(v, j, t, x) = WithJob(q, j, y)
    BY <1>5 DEF Refused, z, p, st
  <2> HIDE DEF y
  <2>3. q \in View /\ q.job = v.job /\ Same(v, q)
    BY <1>3, WithPostTypes, SameWithPost
  <2> HIDE DEF q
  <2>4. Same(q, WithJob(q, j, y))
    BY <2>1, <2>3, SameWithJob
  <2> QED
    BY <2>2, <2>3, <2>4, SameTrans
<1> QED
  BY <1>4, <1>5

\* Taking a job up changes no contents,
LEMMA TakenUpContent ==
    ASSUME NEW v \in View, NEW j \in Jobs PROVE Same(v, TakenUp(v, j))
<1> DEFINE z == v.job[j]
<1> DEFINE n == z.attempts + 1
<1> DEFINE y == [z EXCEPT !.status = "publishing", !.attempts = n]
<1>1. z \in Job
  BY ViewTypes
<1> HIDE DEF z
<1>2. n \in Nat
  BY <1>1 DEF Job
<1> HIDE DEF n
<1>3. y \in Job /\ y.path = z.path /\ y.text = z.text
  BY <1>1, <1>2 DEF Job, JobStatus
<1>4. TakenUp(v, j) = WithJob(v, j, y)
  BY DEF TakenUp, y, n, z
<1> HIDE DEF y
<1> QED
  BY <1>3, <1>4, SameWithJob DEF z

\* nor does writing down what the publisher answered,
LEMMA AnsweredContent ==
    ASSUME NEW v \in View, NEW j \in Jobs, NEW x, NEW all \in BOOLEAN
    PROVE  Same(v, Answered(v, j, x, all))
<1> DEFINE z == v.job[j]
<1>1. z \in Job
  BY ViewTypes
<1>2. CASE x # "ok"
  <2> DEFINE st == IF x = "retry" /\ z.attempts < MaxAttempts THEN "retry"
                   ELSE IF x = "unclear" THEN "uncertain" ELSE "failed"
  <2> DEFINE y == [z EXCEPT !.status = st]
  <2>1. st \in {"retry", "uncertain", "failed"}
    OBVIOUS
  <2>2. Answered(v, j, x, all) = WithJob(v, j, y)
    BY <1>2 DEF Answered
  <2> HIDE DEF st, z
  <2>3. y \in Job /\ y.path = z.path /\ y.text = z.text
    BY <1>1, <2>1 DEF Job, JobStatus
  <2> HIDE DEF y
  <2> QED
    BY <2>2, <2>3, SameWithJob DEF z
<1>3. CASE x = "ok"
  <2> DEFINE st == IF all THEN "published" ELSE "partial"
  <2> DEFINE p == [v.post EXCEPT !.status = st]
  <2> DEFINE q == WithPost(v, p)
  <2> DEFINE y == [z EXCEPT !.status = "published", !.platform = TRUE]
  <2>1. st \in PostStatus
    BY DEF PostStatus
  <2>2. Answered(v, j, x, all) = WithJob(q, j, y)
    BY <1>3 DEF Answered
  <2> HIDE DEF st, z
  <2>3. y \in Job /\ y.path = z.path /\ y.text = z.text
    BY <1>1 DEF Job, JobStatus
  <2> HIDE DEF y
  <2>4. p \in Post /\ SamePost(v.post, p)
    BY <2>1, ViewTypes DEF Post, SamePost
  <2> HIDE DEF p
  <2>5. q \in View /\ q.job = v.job /\ Same(v, q)
    BY <2>4, WithPostTypes, SameWithPost
  <2> HIDE DEF q
  <2>6. Same(q, WithJob(q, j, y))
    BY <2>3, <2>5, SameWithJob DEF z
  <2> QED
    BY <2>2, <2>5, <2>6, SameTrans
<1> QED
  BY <1>2, <1>3

\* so what the worker writes keeps the invariant.
LEMMA WriteContent ==
    ASSUME RowTypes, RowTypes', ContentInv, ResendInv,
           NEW v \in View, NEW w \in View, NEW j \in Jobs, Handled(v, w, j), Same(v, w),
           Grows(v, db), Write(v, w),
           w.job[j].attempts = v.job[j].attempts \/ w.job[j].attempts > 0,
           frozen' = frozen, sent' = sent, req' = req,
           worker'.phase = "sending" => worker.phase = "sending" /\ worker'.seen = worker.seen
    PROVE  ContentInv'
<1>1. /\ db \in View /\ db.post.version \in Nat
      /\ \A k \in Jobs : db.job[k].attempts \in Nat
  BY NumberTypes DEF RowTypes
<1>2. /\ Same(db, db') /\ db'.post.version = db.post.version
      /\ db.post.status = "deleted" => db' = db
      /\ \A k \in Jobs : /\ db'.job[k].approvedVersion = db.job[k].approvedVersion
                         /\ db.job[k].attempts > 0 => db'.job[k].attempts > 0
  <2>1. CASE db.post.status = "deleted"
    BY <2>1, SameRefl DEF Write
  <2>2. CASE db.post.status # "deleted"
    <3>1. db' = Merge(v, w)
      BY <2>2 DEF Write
    <3>2. Same(db, db')
      BY <1>1, <3>1, MergeSame
    <3>3. /\ Handled(db, db', j)
          /\ db'.job[j].attempts = IF w.job[j].attempts = v.job[j].attempts
                                   THEN db.job[j].attempts ELSE w.job[j].attempts
      BY <1>1, <3>1, MergedHandling
    <3> QED
      BY <2>2, <3>2, <3>3 DEF Handled, Alike
  <2> QED
    BY <2>1, <2>2
<1> QED
  BY <1>2, Unbinding

\* The invariant holds in the beginning.
LEMMA ContentBegins ==
    ASSUME ReviewAssumption, Single, ReviewInit PROVE ContentInv
<1> DEFINE w == approve(Fresh, Jobs, FALSE)
<1>1. /\ Fresh \in View /\ Fresh.post.version = 1
      /\ \A j \in Jobs : Fresh.job[j].approvedVersion = 0
  BY FreshType DEF Fresh, FirstJob
<1>2. Proper(Fresh)
  <2>1. \A j \in Jobs : Fresh.job[j].path = First[Default[j]] /\ Default[j] \in Slots /\ Kind[Default[j]] = j
    BY DefaultSlot DEF Fresh, FirstJob
  <2>2. \A s \in Slots : /\ Fresh.slot[s].sel = First[s] /\ Fresh.slot[s].latest = First[s]
                         /\ Fresh.shelf[s] = {First[s]} /\ Fresh.post.current[s] = First[s]
    BY DEF Fresh
  <2>3. Fresh.post.text = Fresh.post.tsel
    BY DEF Fresh
  <2>4. \A s \in Slots : Format[First[s]] = Kind[s]
    BY DEF ReviewAssumption
  <2> HIDE DEF w
  <2> QED
    BY <2>1, <2>2, <2>3, <2>4 DEF Proper, Housed, Stocked
<1>3. /\ Proper(w)
      /\ w # Fresh => \A j \in Jobs : w.job[j].path = Sel(w, j) /\ w.job[j].text = w.post.tsel
  BY <1>1, <1>2, ApproveContent
<1>4. /\ db = w /\ sent = {}
      /\ \A j \in Jobs : frozen[j].path = db.job[j].path /\ frozen[j].text = db.job[j].text
  BY DEF ReviewInit
<1> HIDE DEF w
<1>5. \A r \in Sessions : req[r].phase = "idle"
  BY DEF ReviewInit, Idle
<1>6. worker.phase = "idle"
  BY DEF ReviewInit, Sleeping
<1>7. ReadsInv
  BY <1>3, <1>4, <1>5, <1>6 DEF ReadsInv
<1>8. \A j \in Jobs : ~Outdated(j) => Agreed(db, j, frozen[j])
  BY <1>1, <1>3, <1>4 DEF Outdated, Agreed
<1>9. BindingInv /\ SentInv
  BY <1>4, <1>5, <1>8 DEF BindingInv, SentInv, Asks, Grants
<1> QED
  BY <1>7, <1>9 DEF ContentInv

\* Every step keeps the invariant.
LEMMA ContentStep ==
    ASSUME ReviewAssumption, Overlapping = {}, Single, RowTypes, ResendInv, ContentInv,
           [ReviewNext]_reviewVars
    PROVE  ContentInv'
<1>a. RowTypes'
  BY StepTypes
<1>b. /\ db \in View /\ db.post.version \in Nat /\ req \in [Sessions -> SessionTypes]
      /\ worker \in WorkerTypes /\ Proper(db)
  BY NumberTypes DEF RowTypes, ContentInv, ReadsInv
<1>c. db.post.status = "deleted" => db'.post.status = "deleted"
  BY StaysDeleted
<1>d. ASSUME Advanced(db, db') \/ Same(db, db'), Withdrawn(db, db'), frozen' = frozen, sent' = sent,
             \A r \in Sessions : req'[r] = req[r] \/ req'[r] = Idle,
             worker'.phase = "sending" => worker.phase = "sending" /\ worker'.seen = worker.seen
      PROVE  ContentInv'
  BY <1>a, <1>c, <1>d, Unbinding DEF Withdrawn
<1>e. ASSUME db' = db, frozen' = frozen, sent' = sent, req' = req,
             worker'.phase = "sending" => worker.phase = "sending" /\ worker'.seen = worker.seen
      PROVE  ContentInv'
  BY <1>b, <1>d, <1>e, SameRefl DEF Withdrawn
<1>1. ASSUME NEW r \in Sessions, NEW o \in Orders, NEW ph \in {"open", "loaded"}, Begin(r, o, ph),
             o.name = "approve" => ph = "open"
      PROVE  ContentInv'
  <2>1. /\ db' = db /\ worker' = worker /\ frozen' = frozen /\ sent' = sent
        /\ req'[r] = [phase |-> ph, order |-> o, seen |-> db]
        /\ \A t \in Sessions \ {r} : req'[t] = req[t]
    BY <1>1, <1>b DEF Begin
  <2>2. ReadsInv'
    BY <1>b, <2>1 DEF ContentInv, ReadsInv, Grows
  <2>3. ~Grants(r)'
    BY <1>1, <2>1 DEF Grants
  <2>4. SentInv'
    BY <2>1, <2>3 DEF ContentInv, SentInv, Grants
  <2>5. ASSUME db.post.status # "deleted" PROVE BindingInv'
    <3>1. BindingInv /\ JobsInv
      BY <2>5 DEF ContentInv, ResendInv
    <3>2. \A j \in Jobs : ~Outdated(j)' => Agreed(db', j, frozen'[j])
      BY <2>1, <3>1 DEF BindingInv, Outdated
    <3>3. ASSUME NEW t \in Sessions, Asks(t)'
          PROVE  /\ \A j \in Jobs : db'.job[j].approvedVersion <= req'[t].seen.post.version
                 /\ req'[t].seen.post.version = db'.post.version =>
                      /\ SamePost(req'[t].seen.post, db'.post)
                      /\ Grants(t)' => Same(req'[t].seen, db')
      <4>1. CASE t = r
        BY <2>1, <2>3, <3>1, <4>1 DEF JobsInv, SamePost
      <4>2. CASE t # r
        BY <2>1, <3>1, <3>3, <4>2 DEF BindingInv, Asks, Grants
      <4> QED
        BY <4>1, <4>2
    <3> QED
      BY <3>2, <3>3 DEF BindingInv
  <2> QED
    BY <2>1, <2>2, <2>4, <2>5 DEF ContentInv
<1>2. ASSUME NEW r \in Sessions, NEW o \in Unlocked, OpenRequest(r, o) PROVE ContentInv'
  BY <1>1, <1>2 DEF OpenRequest, Orders
<1>3. ASSUME NEW r \in Sessions, NEW o \in Renders, Claim(r, o) PROVE ContentInv'
  <2>1. o.name # "approve"
    BY DEF Renders, Rerenders, Revisions, Recompositions
  <2> QED
    BY <1>1, <1>3, <2>1 DEF Claim, Orders
<1>4. ASSUME NEW r \in Sessions, Load(r) PROVE ContentInv'
  <2> DEFINE p == req[r].seen.post
  <2> DEFINE s == [db EXCEPT !.post = p]
  <2>1. /\ req[r] \in [phase : {"open", "loaded"}, order : Orders, seen : View] /\ p \in Post
        /\ db' = db /\ worker' = worker /\ frozen' = frozen /\ sent' = sent /\ req[r].phase # "idle"
    BY <1>4, SeenType, ViewTypes DEF Load
  <2>2. /\ req'[r].order = req[r].order /\ req'[r].phase = "loaded" /\ req'[r].seen = s
        /\ \A t \in Sessions \ {r} : req'[t] = req[t]
    <3>1. [req[r] EXCEPT !.phase = "loaded", !.seen = s].order = req[r].order
      BY <2>1
    <3>2. req' = [req EXCEPT ![r] = [req[r] EXCEPT !.phase = "loaded", !.seen = s]]
      BY <1>b, <1>4 DEF Load
    <3> HIDE DEF s
    <3>3. LET x == [req[r] EXCEPT !.phase = "loaded", !.seen = s] IN x.phase = "loaded" /\ x.seen = s
      BY <2>1
    <3> QED
      BY <1>b, <3>1, <3>2, <3>3 DEF s
  <2>3. /\ p.text = p.tsel
        /\ \A t \in Slots : p.current[t] \in db.shelf[t] /\ Format[p.current[t]] = Kind[t]
    BY <2>1 DEF ContentInv, ReadsInv, Proper, Housed, Stocked, Grows
  <2> HIDE DEF p
  <2>4. s.post = p /\ s.job = db.job /\ s.slot = db.slot /\ s.shelf = db.shelf
    BY <1>b DEF View
  <2> HIDE DEF s
  <2>5. Proper(s) /\ Grows(s, db)
    BY <1>b, <2>3, <2>4 DEF Proper, Housed, Stocked, Grows
  <2>6. ReadsInv'
    BY <1>b, <2>1, <2>2, <2>5 DEF ContentInv, ReadsInv
  <2>7. SentInv'
    <3>1. \A x \in sent : x.job \in Jobs /\ db.job[x.job].attempts > 0 /\ db.job[x.job] \in Job
      BY <1>b, ViewTypes DEF ContentInv, SentInv, RowTypes
    <3>2. \A x \in sent : Started(req'[r].seen.job[x.job])
      BY <2>2, <2>4, <3>1 DEF Started
    <3>3. ASSUME NEW t \in Sessions, Grants(t)'
          PROVE  \A x \in sent : /\ x.job \in req'[t].order.jobs
                                 /\ ~Started(req'[t].seen.job[x.job])
                                 => Agreed(req'[t].seen, x.job, x)
      <4>1. CASE t = r
        BY <3>2, <4>1
      <4>2. CASE t # r
        BY <2>2, <3>3, <4>2 DEF ContentInv, SentInv, Grants
      <4> QED
        BY <4>1, <4>2
    <3> QED
      BY <2>1, <3>3 DEF ContentInv, SentInv
  <2>8. ASSUME db.post.status # "deleted" PROVE BindingInv'
    <3>1. BindingInv
      BY <2>8 DEF ContentInv
    <3>2. \A j \in Jobs : ~Outdated(j)' => Agreed(db', j, frozen'[j])
      BY <2>1, <3>1 DEF BindingInv, Outdated
    <3>3. ASSUME NEW t \in Sessions, Asks(t)'
          PROVE  /\ \A j \in Jobs : db'.job[j].approvedVersion <= req'[t].seen.post.version
                 /\ req'[t].seen.post.version = db'.post.version =>
                      /\ SamePost(req'[t].seen.post, db'.post)
                      /\ Grants(t)' => Same(req'[t].seen, db')
      <4>1. CASE t = r
        <5>1. Asks(r)
          BY <2>1, <2>2, <3>3, <4>1 DEF Asks
        <5>2. /\ \A j \in Jobs : db.job[j].approvedVersion <= p.version
              /\ p.version = db.post.version => SamePost(p, db.post)
          BY <3>1, <5>1 DEF BindingInv, p
        <5> QED
          BY <2>1, <2>2, <2>4, <4>1, <5>2 DEF Same, SameJobs
      <4>2. CASE t # r
        BY <2>1, <2>2, <3>1, <3>3, <4>2 DEF BindingInv, Asks, Grants
      <4> QED
        BY <4>1, <4>2
    <3> QED
      BY <3>2, <3>3 DEF BindingInv
  <2> QED
    BY <2>1, <2>6, <2>7, <2>8 DEF ContentInv
<1>5. ASSUME NEW r \in Sessions, Commit(r) PROVE ContentInv'
  <2> DEFINE o == req[r].order
  <2> DEFINE s == Seen(r)
  <2> DEFINE n == Effect(o, s)
  <2>1. /\ o \in Orders /\ s \in View /\ s.post = req[r].seen.post /\ n \in View
        /\ Proper(s) /\ Grows(s, db)
    BY <1>5, SeenType, SeenContent, EffectType DEF Commit, ContentInv
  <2>2. CASE o.name = "approve" /\ n # s
    BY <1>5, <1>a, <2>2, Binding
  <2>3. CASE ~(o.name = "approve" /\ n # s)
    <3>1. /\ db' = IF db.post.status = "deleted" THEN db ELSE Merge(s, n)
          /\ worker' = worker /\ req' = [req EXCEPT ![r] = Idle] /\ frozen' = frozen /\ sent' = sent
      BY <1>5, <2>3 DEF Commit
    <3>2. \A t \in Sessions : req'[t] = req[t] \/ req'[t] = Idle
      BY <1>b, <3>1
    <3>3. /\ Withdrawn(s, n)
          /\ Advanced(s, n) \/ Same(s, n)
          /\ s.post = db.post \/ (n.post.version = s.post.version /\ Same(s, n))
      <4>1. CASE o.name = "approve"
        BY <2>1, <2>3, <4>1, SameRefl DEF Withdrawn
      <4>2. CASE o.name # "approve"
        <5>1. /\ Withdrawn(s, n)
              /\ o.name \in {"reject", "cancel"} => n.post.version = s.post.version
          BY <2>1, <4>2, EffectShape
        <5>2. /\ Advanced(s, n) \/ Same(s, n)
              /\ o.name \in {"reject", "cancel"} => Same(s, n)
          BY <2>1, <4>2, EffectContent
        <5>3. s.post = db.post \/ o.name \in {"reject", "cancel"}
          BY <1>5, <2>1, <4>2 DEF Commit, Overtaken, MayOverlap
        <5> QED
          BY <5>1, <5>2, <5>3
      <4> QED
        BY <4>1, <4>2
    <3> HIDE DEF n, s
    <3>4. ASSUME db' = Merge(s, n) PROVE (Advanced(db, db') \/ Same(db, db')) /\ Withdrawn(db, db')
      <4>1. Withdrawn(db, db')
        BY <1>b, <2>1, <3>3, <3>4, MergedWithdrawal
      <4>2. CASE Same(s, n)
        BY <1>b, <2>1, <3>4, <4>1, <4>2, MergeSame
      <4>3. CASE Advanced(s, n) /\ ~Same(s, n)
        <5>1. Proper(db') /\ Grows(db, db')
          BY <1>b, <2>1, <3>4, <4>3, MergeProper DEF Advanced
        <5>2. db'.post.version = db.post.version + 1
          <6>1. s.post = db.post /\ n.post.version = s.post.version + 1
            BY <3>3, <4>3 DEF Advanced
          <6>2. db'.post.version = IF n.post.version = s.post.version THEN db.post.version ELSE n.post.version
            BY <1>b, <2>1, <3>4, Merged
          <6> QED
            BY <1>b, <6>1, <6>2
        <5> QED
          BY <4>1, <5>1, <5>2 DEF Advanced
      <4> QED
        BY <3>3, <4>1, <4>2, <4>3
    <3>5. ASSUME db' = db PROVE (Advanced(db, db') \/ Same(db, db')) /\ Withdrawn(db, db')
      BY <1>b, <3>5, SameRefl DEF Withdrawn
    <3> QED
      BY <1>d, <3>1, <3>2, <3>4, <3>5
  <2> QED
    BY <2>2, <2>3
<1>6. ASSUME NEW o \in Locking, Locked(o) PROVE ContentInv'
  <2>1. o \in Orders /\ o.name \notin {"approve", "reject"}
    BY DEF Orders, Locking
  <2>2. Withdrawn(db, Effect(o, db)) /\ (Advanced(db, Effect(o, db)) \/ Same(db, Effect(o, db)))
    BY <1>b, <2>1, EffectShape, EffectContent
  <2>3. /\ db' = Effect(o, db) /\ worker' = worker /\ req' = req /\ frozen' = frozen /\ sent' = sent
    BY <1>6 DEF Locked
  <2> QED
    BY <1>d, <2>2, <2>3
<1>7. CASE ListDue
  BY <1>7, <1>e DEF ListDue, Sleeping
<1>8. ASSUME NEW j \in Jobs, Checked(j) PROVE ContentInv'
  <2> DEFINE v == Held
  <2>0. v \in View /\ Grows(v, db)
    <3>1. v \in View
      BY HeldType
    <3>2. \A p, J : [db EXCEPT !.post = p, !.job = J].shelf = db.shelf
      BY <1>b DEF View
    <3>3. v.shelf = db.shelf
      BY <3>2 DEF Held
    <3> QED
      BY <3>1, <3>3 DEF Grows
  <2> HIDE DEF v
  <2>1. frozen' = frozen /\ sent' = sent /\ req' = req /\ worker'.phase # "sending"
    <3>1. frozen' = frozen /\ sent' = sent /\ req' = req /\ worker.phase = "list"
      BY <1>8 DEF Checked
    <3>2. \/ worker' = [worker EXCEPT !.due = @ \ {j}]
          \/ worker' = [worker EXCEPT !.phase = "claimed", !.due = @ \ {j},
                                      !.cached = {}, !.job = j, !.seen = Fresh]
          \/ worker' = [worker EXCEPT !.due = @ \ {j}, !.cached = worker.cached \cup {"post", j},
                                      !.seen = Refused(v, j, ~(gate # "stop" /\ PostGate(v))
                                                             \/ VersionGate(v, j), TRUE)]
      BY <1>8 DEF Checked, v
    <3> DEFINE u == Refused(v, j, ~(gate # "stop" /\ PostGate(v)) \/ VersionGate(v, j), TRUE)
    <3> DEFINE f == Fresh
    <3> HIDE DEF u, f
    <3>3. /\ [worker EXCEPT !.due = @ \ {j}].phase = worker.phase
          /\ [worker EXCEPT !.phase = "claimed", !.due = @ \ {j},
                            !.cached = {}, !.job = j, !.seen = f].phase = "claimed"
          /\ [worker EXCEPT !.due = @ \ {j}, !.cached = worker.cached \cup {"post", j},
                            !.seen = u].phase = worker.phase
      BY <1>b DEF WorkerTypes
    <3>4. worker'.phase = worker.phase \/ worker'.phase = "claimed"
      BY <3>2, <3>3 DEF u, f
    <3> QED
      BY <3>1, <3>4
  <2>2. CASE db' = db
    BY <1>e, <2>1, <2>2
  <2>3. CASE Write(v, TakenUp(v, j))
    <3> DEFINE w == TakenUp(v, j)
    <3>1. Handled(v, w, j) /\ w \in View /\ w.job[j].attempts = v.job[j].attempts + 1
      BY <2>0, TakenUpShape DEF Handled
    <3>2. Same(v, w)
      BY <2>0, TakenUpContent
    <3>3. w.job[j].attempts > 0
      BY <2>0, <3>1, NumberTypes, ViewTypes DEF Job
    <3> HIDE DEF w
    <3> QED
      BY <1>a, <2>0, <2>1, <2>3, <3>1, <3>2, <3>3, WriteContent DEF w
  <2>4. ASSUME NEW t \in BOOLEAN, NEW x \in BOOLEAN, Write(v, Refused(v, j, t, x)) PROVE ContentInv'
    <3> DEFINE w == Refused(v, j, t, x)
    <3>1. Handled(v, w, j) /\ w \in View /\ w.job[j].attempts = v.job[j].attempts
      BY <2>0, RefusedShape DEF Handled
    <3>2. Same(v, w)
      BY <2>0, RefusedContent
    <3> HIDE DEF w
    <3> QED
      BY <1>a, <2>0, <2>1, <2>4, <3>1, <3>2, WriteContent DEF w
  <2>5. db' = db \/ Write(v, TakenUp(v, j)) \/ \E t, x \in BOOLEAN : Write(v, Refused(v, j, t, x))
    BY <1>8 DEF Checked, v
  <2> QED
    BY <2>2, <2>3, <2>4, <2>5
<1>9. CASE FinalCheck
  <2> DEFINE j == worker.job
  <2>0. j \in Jobs /\ req' = req /\ frozen' = frozen /\ worker.phase = "claimed"
    BY <1>9, <1>b DEF FinalCheck, WorkerTypes
  <2>1. CASE \E t, x \in BOOLEAN : Write(db, Refused(db, j, t, x)) /\ worker' = [worker EXCEPT !.phase = "list"]
                                   /\ sent' = sent
    <3>1. PICK t \in BOOLEAN, x \in BOOLEAN :
            Write(db, Refused(db, j, t, x)) /\ worker' = [worker EXCEPT !.phase = "list"] /\ sent' = sent
      BY <2>1, Zenon
    <3> DEFINE w == Refused(db, j, t, x)
    <3>2. Handled(db, w, j) /\ w \in View /\ w.job[j].attempts = db.job[j].attempts
      BY <1>b, <2>0, RefusedShape DEF Handled
    <3>3. Same(db, w) /\ Grows(db, db) /\ worker'.phase # "sending"
      BY <1>b, <2>0, <3>1, RefusedContent DEF Grows, WorkerTypes
    <3> HIDE DEF w
    <3> QED
      BY <1>a, <1>b, <2>0, <3>1, <3>2, <3>3, WriteContent DEF w
  <2>2. CASE /\ PostGate(db) /\ VersionGate(db, j) /\ db' = db
             /\ sent' = sent \cup {[job |-> j, path |-> db.job[j].path, text |-> db.job[j].text,
                                    attempt |-> db.job[j].attempts]}
             /\ worker' = [worker EXCEPT !.phase = "sending", !.seen = db]
    <3> DEFINE y == [job |-> j, path |-> db.job[j].path, text |-> db.job[j].text,
                     attempt |-> db.job[j].attempts]
    <3>1. db.post.status # "deleted" /\ BindingInv /\ JobsInv /\ WorkerInv /\ ApprovalsInv
      BY <2>2 DEF PostGate, Released, ContentInv, ResendInv
    <3>2. ~Outdated(j) /\ db.job[j].approvedVersion = db.post.version
      BY <1>b, <2>2 DEF VersionGate, Outdated
    <3>3. Agreed(db, j, frozen[j])
      BY <2>0, <3>1, <3>2 DEF BindingInv
    <3>4. db.job[j].attempts > 0
      BY <1>b, <2>0, <3>1, NumberTypes DEF WorkerInv, Busy, Untried
    <3>5. worker'.seen = db
      BY <1>b, <2>2 DEF WorkerTypes
    <3>6. ReadsInv'
      BY <2>0, <2>2, <3>5 DEF ContentInv, ReadsInv, Grows
    <3>7. BindingInv'
      BY <2>0, <2>2, <3>1 DEF BindingInv, Outdated, Asks, Grants
    <3>8. ASSUME NEW r \in Sessions, Grants(r) PROVE Agreed(req[r].seen, j, y)
      <4>1. Asks(r) /\ req[r].seen.post.version \in Nat
        BY <3>8, SeenType, ViewTypes DEF Asks, Grants, Post
      <4>2. /\ req[r].seen.post.version <= db.post.version
            /\ db.post.version <= req[r].seen.post.version
        BY <2>0, <3>1, <3>2, <4>1 DEF ApprovalsInv, BindingInv, Asks
      <4>3. Same(req[r].seen, db)
        BY <1>b, <3>1, <3>8, <4>1, <4>2 DEF BindingInv
      <4>4. Agreed(db, j, y)
        BY <3>3 DEF Agreed
      <4> HIDE DEF y
      <4> QED
        BY <2>0, <4>3, <4>4, SameBack, AgreedSame
    <3>9. SentInv'
      <4>1. y.path = frozen[j].path /\ y.text = frozen[j].text /\ y.job = j
        BY <3>3 DEF Agreed
      <4>2. sent' = sent \cup {y}
        BY <2>2
      <4> HIDE DEF y, j
      <4>3. \A x \in sent' : /\ db'.job[x.job].attempts > 0
                             /\ x.path = frozen'[x.job].path /\ x.text = frozen'[x.job].text
        BY <2>0, <2>2, <3>4, <4>1, <4>2 DEF ContentInv, SentInv
      <4>4. \A r \in Sessions : Grants(r)' =>
               \A x \in sent' : /\ x.job \in req'[r].order.jobs
                                /\ ~Started(req'[r].seen.job[x.job])
                                => Agreed(req'[r].seen, x.job, x)
        BY <2>0, <3>8, <4>1, <4>2 DEF ContentInv, SentInv, Grants
      <4> QED
        BY <4>3, <4>4 DEF SentInv
    <3> QED
      BY <3>6, <3>7, <3>9 DEF ContentInv
  <2> QED
    BY <1>9, <2>1, <2>2 DEF FinalCheck
<1>10. CASE Answer
  <2> DEFINE j == worker.job
  <2> DEFINE v == worker.seen
  <2> DEFINE all == \A k \in Jobs \ {j} : db.job[k].status \in Finished
  <2>0. /\ j \in Jobs /\ v \in View /\ Grows(v, db) /\ req' = req /\ frozen' = frozen /\ sent' = sent
        /\ worker'.phase # "sending"
    BY <1>10, <1>b DEF Answer, WorkerTypes, ContentInv, ReadsInv
  <2>1. PICK x \in Outcomes, a \in BOOLEAN : Write(v, Answered(v, j, x, a))
    <3>1. all \in BOOLEAN
      OBVIOUS
    <3>2. \E x \in Outcomes : Write(v, Answered(v, j, x, all))
      BY <1>10 DEF Answer
    <3> HIDE DEF all
    <3> QED
      BY <3>1, <3>2, Zenon
  <2> DEFINE w == Answered(v, j, x, a)
  <2> HIDE DEF v, j
  <2>2. Handled(v, w, j) /\ w \in View /\ w.job[j].attempts = v.job[j].attempts
    <3>1. v \in View /\ j \in Jobs
      BY <2>0
    <3>2. Handled(v, w, j) /\ w.job[j].attempts = v.job[j].attempts
      BY ONLY <3>1, a \in BOOLEAN, AnsweredShape
    <3> QED
      BY <3>2 DEF Handled
  <2>3. Same(v, w)
    BY <2>0, AnsweredContent
  <2> HIDE DEF w
  <2> QED
    BY <1>a, <2>0, <2>1, <2>2, <2>3, WriteContent DEF w
<1>11. CASE EndList \/ Crash \/ SwitchGate \/ UNCHANGED reviewVars
  BY <1>11, <1>e DEF EndList, Crash, SwitchGate, reviewVars, Sleeping
<1>12. CASE TimePasses
  <2>0. \A x \in Job : LET y == [x EXCEPT !.past = TRUE]
                       IN y \in Job /\ Alike(x, y) /\ y.path = x.path /\ y.text = x.text
    BY DEF Job, Alike
  <2> DEFINE J == [j \in Jobs |-> [db.job[j] EXCEPT !.past = TRUE]]
  <2>1. /\ J \in [Jobs -> Job]
        /\ \A j \in Jobs : Alike(db.job[j], J[j]) /\ J[j].path = db.job[j].path /\ J[j].text = db.job[j].text
    BY <1>b, <2>0, ViewTypes
  <2>2. /\ db' = [db EXCEPT !.job = J] /\ worker' = worker /\ req' = req
        /\ frozen' = frozen /\ sent' = sent
    BY <1>12 DEF TimePasses
  <2> HIDE DEF J
  <2>3. Keeps(db, db')
    BY <1>b, <2>1, <2>2 DEF Keeps, View
  <2>4. Same(db, db')
    BY <1>b, <2>1, <2>2, SameWithJobs
  <2> QED
    BY <1>d, <2>2, <2>3, <2>4, KeepsWithdrawn
<1> QED
  BY <1>2, <1>3, <1>4, <1>5, <1>6, <1>7, <1>8, <1>9, <1>10, <1>11, <1>12 DEF ReviewNext

\* What goes to the publisher is the text and the file the job's last approval bound, and
\* a job that can go out shows the selected versions (freeze_publication_versions,
\* _reject_before_publish): with one output of each kind, and as long as no request is
\* overtaken, no second approval is under way and no rejection meets the worker at work.
THEOREM SentAsApproved ==
    ASSUME Overlapping = {}, Single
    PROVE  ReviewSpec => []ApprovalHolds
<1> DEFINE Inv == RowTypes /\ ResendInv /\ ContentInv
<1>1. ReviewInit => Inv
  BY InitTypes, ReviewBegins, ContentBegins, ReviewAssumption DEF ResendInv
<1>2. Inv /\ [ReviewNext]_reviewVars => Inv'
  BY StepTypes, ResendStep, ContentStep, ReviewAssumption
<1>3. Inv => ApprovalHolds
  <2> SUFFICES ASSUME Inv PROVE ApprovalBindsContent /\ ApprovalCurrent
    BY DEF ApprovalHolds
  <2>1. ApprovalBindsContent
    BY DEF ContentInv, SentInv, ApprovalBindsContent
  <2>2. ASSUME NEW j \in Jobs, PostGate(db), VersionGate(db, j)
        PROVE  /\ db.job[j].text = db.post.tsel
               /\ db.job[j].path \in {db.slot[s].sel : s \in {t \in Slots : Kind[t] = j}}
    <3>1. db.post.status # "deleted" /\ db.post.version \in Nat
      BY <2>2, NumberTypes DEF PostGate, Released, RowTypes
    <3>2. ~Outdated(j)
      BY <2>2, <3>1 DEF VersionGate, Outdated
    <3>3. Agreed(db, j, frozen[j])
      BY <3>1, <3>2 DEF ContentInv, BindingInv
    <3>4. Default[j] \in Slots /\ Kind[Default[j]] = j
      BY ReviewAssumption, DefaultSlot
    <3> QED
      BY <3>3, <3>4 DEF Agreed, Sel
  <2> QED
    BY <2>1, <2>2 DEF ApprovalCurrent
<1> QED
  BY <1>1, <1>2, <1>3, PTL DEF ReviewSpec
=============================================================================
