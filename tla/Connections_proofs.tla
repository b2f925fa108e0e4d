-------------------------- MODULE Connections_proofs --------------------------
(***************************************************************************)
(* What a connection is bound to: proofs about Connections, for any number *)
(* of accounts, administrators and logins.                                 *)
(*                                                                         *)
(* A request writes over a row it read before it asked the platform.  The  *)
(* proofs say which columns every writer agrees on: the account of a page  *)
(* never changes once it is known, a token is only taken away while nobody *)
(* waits for an answer about it, and a bot's webhook is the business of    *)
(* one request at a time.                                                  *)
(***************************************************************************)
EXTENDS Connections, TLAPS

-----------------------------------------------------------------------------
(* Types                                                                   *)

AllRows == Accounts \cup {Page}
Ops == {"idle", "login", "select", "activate", "connect", "leave", "check", "refresh"}
Request ==
    [op : Ops, row : AllRows, seen : RowType, ref : Nat, account : Accounts \cup {None}]
Login == [stage : {"none", "open", "chosen", "used"}, made : Nat]

Typed ==
    /\ channel \in Kinds
    /\ conn \in [AllRows -> RowType]
    /\ mirror \in Statuses
    /\ login \in [Logins -> Login]
    /\ request \in [Sessions -> Request]
    /\ webhook \in [Accounts -> 0 .. MaxRequests]
    /\ stop \in BOOLEAN /\ used \in 0 .. MaxRequests

\* A request belongs to its kind of channel, and has the account or the login
\* it needs.
Belongs(s) ==
    LET r == request[s] IN
    /\ r.op = "login" => /\ Instagram /\ r.row = Page /\ s \in Browsers
                         /\ r.ref \in Logins /\ r.account \in Accounts
    /\ r.op = "select" => /\ channel = "facebook" /\ r.row \in Accounts /\ s \in Browsers
                          /\ r.ref \in Logins /\ r.account \in Accounts
    /\ r.op = "activate" => channel = "whatsapp" /\ r.row \in Accounts
    /\ r.op \in {"connect", "leave"} =>
          channel = "telegram" /\ r.row \in Accounts /\ s \in Browsers
    /\ r.op = "connect" => r.ref \in 0 .. MaxRequests
    /\ r.op = "check" => r.row \in Rows
    /\ r.op = "refresh" => Instagram /\ r.row = Page

TypeInv == Typed /\ \A s \in Sessions : Belongs(s)

-----------------------------------------------------------------------------
(* The invariants                                                          *)

\* A login that is under way has not been used, and is under way once.
LoginInv ==
    /\ LoginOnce
    /\ \A l \in Logins : login[l].stage # "used" => login[l].made = 0
    /\ \A s \in Sessions :
          /\ request[s].op = "login" => login[request[s].ref].stage = "open"
          /\ request[s].op = "select" => login[request[s].ref].stage = "chosen"
    /\ \A s, t \in Sessions :
          /\ request[s].op \in {"login", "select"} /\ request[t].op = request[s].op
          /\ request[t].ref = request[s].ref
          => s = t

\* The page of the club has one account once it is known, and whoever asks
\* for something has asked for this account.
AccountInv ==
    Instagram =>
        LET p == conn[Page] IN
        /\ p.token # None => p.token = p.account
        /\ p.mode # "off" => p.vouched = p.account
        /\ p.guided => p.status = "unconfigured"
        /\ p.guided \/ p.status = "none" =>
              /\ p.mode = "off" /\ p.token = None
              /\ \A s \in Sessions : request[s].op \in {"idle", "login"}
        /\ \A s \in Sessions :
              request[s].op = "refresh" => request[s].seen.token \in {None, p.account}

\* Where an answer may make a connection count as connected, there is a token.
TokenInv ==
    /\ \A k \in AllRows :
          /\ Connected(k) => conn[k].token # None
          /\ conn[k].status = "disconnected" => conn[k].token = None
    /\ \A s \in Sessions :
          /\ request[s].op \in {"check", "activate"} /\ request[s].seen.status # "connected" =>
                conn[request[s].row].token # None
          /\ request[s].op = "refresh" =>
                conn[request[s].row].token # None /\ request[s].seen.token # None

\* A request on a bot has the webhook to itself.
OnBot(s, a) == request[s].op \in {"connect", "leave"} /\ request[s].row = a

HookInv ==
    channel = "telegram" =>
        /\ \A a \in Accounts : conn[a].live => conn[a].token # None
        /\ \A a \in Accounts : conn[a].token # None => conn[a].status # "none"
        /\ \A a, x \in Accounts : conn[a].live /\ conn[x].live => a = x
        /\ \A a \in Accounts : (\A s \in Sessions : ~OnBot(s, a)) =>
              webhook[a] = IF conn[a].live THEN conn[a].hook ELSE 0
        /\ \A s \in Sessions, a \in Accounts : OnBot(s, a) =>
              /\ request[s].op = "connect" =>
                    /\ webhook[a] = request[s].ref
                    /\ request[s].seen.status = "none" => conn[a].status = "none"
              /\ request[s].op = "leave" => webhook[a] = 0
              /\ \A t \in Sessions : OnBot(t, a) => s = t
        /\ \A s \in Sessions : request[s].op = "check" => conn[request[s].row].status # "none"
-----------------------------------------------------------------------------
(* What a step does to a row, and to a request                             *)

Identity(k) ==
    /\ conn'[k].token = conn[k].token /\ conn'[k].account = conn[k].account
    /\ conn'[k].guided = conn[k].guided
Choice(k) == conn'[k].mode = conn[k].mode /\ conn'[k].vouched = conn[k].vouched
Hook(k) == conn'[k].hook = conn[k].hook /\ (channel # "whatsapp" => conn'[k].live = conn[k].live)

\* A connection counts as connected after an answer to somebody who has seen
\* that it did not, and as failed only after somebody has asked about it.
Known(k) ==
    \/ conn[k].status \notin {"none", "unconfigured"} \/ conn[k].token # None
    \/ \E s \in Sessions : request[s].op \in {"check", "refresh"} /\ request[s].row = k

StatusMoves(k) ==
    \/ conn'[k].status = conn[k].status
    \/ conn'[k].status \in {"error", "setup_required"} /\ Known(k)
    \/ /\ conn'[k].status = "connected"
       /\ \E s \in Sessions : /\ request[s].op \in {"check", "activate"} /\ request[s].row = k
                              /\ request[s].seen.status # "connected"

Reported(k) == Identity(k) /\ Choice(k) /\ Hook(k) /\ StatusMoves(k)

\* All that happens to the rows in most steps.
Reports == \A k \in AllRows : Reported(k)

Renews(k) ==
    /\ Instagram /\ k = Page /\ Choice(k)
    /\ conn'[k].account = conn[k].account /\ conn'[k].guided = conn[k].guided
    /\ conn'[k].status \in {conn[k].status, "connected"}
    /\ \E s \in Sessions : request[s].op = "refresh" /\ conn'[k].token = request[s].seen.token

Joined(k) ==
    /\ conn'[k].status = "connected"
    /\ conn'[k].token \in Accounts /\ conn'[k].account = conn'[k].token
    /\ Instagram => /\ Choice(k) /\ ~conn'[k].guided
                    /\ conn[k].guided \/ conn'[k].account = conn[k].account

Switched(k) ==
    /\ channel # "telegram" /\ Identity(k)
    /\ conn'[k].status = conn[k].status /\ conn[k].status \notin {"none", "unconfigured"}
    /\ conn'[k].mode # "off" => conn'[k].vouched = conn[k].account

Left(k) ==
    /\ Undisturbed(k) /\ (Instagram => conn[k].status \notin {"none", "unconfigured"})
    /\ conn'[k].status = "disconnected" /\ conn'[k].token = None /\ conn'[k].mode = "off"
    /\ conn'[k].account = conn[k].account /\ conn'[k].guided = conn[k].guided

Opened(k) ==
    /\ Instagram /\ k = Page /\ Choice(k)
    /\ conn[k].status = "none" /\ conn'[k].status = "unconfigured" /\ conn'[k].guided
    /\ conn'[k].token = conn[k].token /\ conn'[k].account = conn[k].account

RowFollows(k) ==
    Reported(k) \/ Renews(k) \/ Joined(k) \/ Switched(k) \/ Left(k) \/ Opened(k)

\* A request that begins has seen the row as it is, and asks about a token.
Begun(s) ==
    LET r == request'[s] IN
    /\ r.seen.token = conn'[r.row].token /\ r.seen.status = conn'[r.row].status
    /\ r.op \in {"check", "activate"} => conn'[r.row].token # None
    /\ r.op = "refresh" => conn'[r.row].token # None \/ conn'[r.row].status = "connected"

RequestFollows(s) == request'[s] = request[s] \/ request'[s] = Idle \/ (Belongs(s)' /\ Begun(s))

Follows ==
    /\ channel' = channel
    /\ \A k \in AllRows : RowFollows(k)
    /\ \A s \in Sessions : RequestFollows(s)

-----------------------------------------------------------------------------
(* Rows and requests                                                       *)

LEMMA NoRowTyped == NoRow \in RowType /\ Idle \in Request /\ Idle.op = "idle"
BY ConnectionsAssumption DEF NoRow, RowType, Statuses, Modes, Idle, Request, Ops, AllRows

LEMMA RowTyped ==
    ASSUME TypeInv, NEW k \in AllRows
    PROVE  /\ conn[k] \in RowType
           /\ conn[k].token \in Accounts \cup {None} /\ conn[k].account \in Accounts \cup {None}
           /\ conn[k].status \in Statuses
<1>1. conn[k] \in RowType
  BY DEF TypeInv, Typed
<1> QED BY <1>1 DEF RowType

LEMMA RequestTyped ==
    ASSUME TypeInv, NEW s \in Sessions
    PROVE  /\ request[s] \in Request /\ Belongs(s) /\ request[s].row \in AllRows
           /\ request[s].seen \in RowType /\ request[s].ref \in Nat
           /\ request[s].seen.token \in Accounts \cup {None}
<1>1. request[s] \in Request /\ Belongs(s)
  BY DEF TypeInv, Typed
<1>2. request[s].seen \in RowType
  BY <1>1 DEF Request
<1> QED BY <1>1, <1>2 DEF Request, RowType

LEMMA RowsAre == Rows \subseteq AllRows /\ Page \in AllRows /\ Accounts \subseteq AllRows
BY DEF Rows, AllRows

LEMMA SessionsAre == Browsers \subseteq Sessions /\ Worker \in Sessions
BY DEF Sessions

\* Everything but the connections and the requests is typed after the step.
OthersTyped ==
    /\ mirror' \in Statuses /\ login' \in [Logins -> Login]
    /\ webhook' \in [Accounts -> 0 .. MaxRequests]
    /\ stop' \in BOOLEAN /\ used' \in 0 .. MaxRequests

RequestsFollow ==
    /\ request' \in [Sessions -> Request]
    /\ \A s \in Sessions : RequestFollows(s)

LEMMA BelongsKept ==
    ASSUME TypeInv, channel' = channel, RequestsFollow
    PROVE  \A s \in Sessions : Belongs(s)'
<1> SUFFICES ASSUME NEW s \in Sessions PROVE Belongs(s)'
  OBVIOUS
<1>1. CASE request'[s] = request[s]
  BY <1>1, RequestTyped DEF Belongs, Instagram, Rows
<1>2. CASE request'[s] = Idle
  BY <1>2, NoRowTyped DEF Belongs
<1> QED BY <1>1, <1>2 DEF RequestsFollow, RequestFollows

\* One row is written, or none.
LEMMA RowWritten ==
    ASSUME TypeInv, channel' = channel, OthersTyped, RequestsFollow,
           NEW k \in AllRows, NEW row \in RowType, conn' = [conn EXCEPT ![k] = row],
           RowFollows(k)
    PROVE  TypeInv' /\ Follows
<1>1. conn' \in [AllRows -> RowType] /\ \A j \in AllRows : j # k => conn'[j] = conn[j]
  BY DEF TypeInv, Typed
<1>2. \A j \in AllRows : j # k => Reported(j)
  BY <1>1 DEF Reported, Identity, Choice, Hook, StatusMoves
<1>3. Follows
  BY <1>2 DEF Follows, RowFollows, RequestsFollow
<1> QED BY <1>1, <1>3, BelongsKept DEF TypeInv, Typed, OthersTyped, RequestsFollow

LEMMA NoRowWritten ==
    ASSUME TypeInv, channel' = channel, OthersTyped, RequestsFollow, UNCHANGED conn
    PROVE  TypeInv' /\ Follows /\ Reports
<1>1. \A j \in AllRows : Reported(j)
  BY DEF Reported, Identity, Choice, Hook, StatusMoves
<1>2. Follows
  BY <1>1 DEF Follows, RowFollows, RequestsFollow
<1> QED BY <1>1, <1>2, BelongsKept DEF Reports, TypeInv, Typed, OthersTyped, RequestsFollow

LEMMA SameRequests == ASSUME TypeInv, UNCHANGED request PROVE RequestsFollow
BY DEF RequestsFollow, RequestFollows, TypeInv, Typed

LEMMA EndsStep ==
    ASSUME TypeInv, NEW s \in Sessions, request' = [request EXCEPT ![s] = Idle]
    PROVE  RequestsFollow
BY NoRowTyped DEF RequestsFollow, RequestFollows, TypeInv, Typed

\* A request that takes its place.
LEMMA NewRequest ==
    ASSUME TypeInv, NEW s \in Sessions, NEW r \in Request, request' = [request EXCEPT ![s] = r],
           Belongs(s)', Begun(s)
    PROVE  RequestsFollow
BY DEF RequestsFollow, RequestFollows, TypeInv, Typed

LEMMA QuickTyped == ASSUME TypeInv, Quick PROVE used' \in 0 .. MaxRequests /\ RequestsFollow
<1>1. used' \in 0 .. MaxRequests
  BY ConnectionsAssumption DEF Quick, TypeInv, Typed
<1> QED BY <1>1, SameRequests DEF Quick

LEMMA UsedTyped ==
    ASSUME TypeInv, NEW s, NEW op, NEW k, NEW l, NEW a, Begins(s, op, k, l, a)
    PROVE  used' \in 0 .. MaxRequests
BY ConnectionsAssumption DEF Begins, TypeInv, Typed

LEMMA BeginsStep ==
    ASSUME TypeInv, NEW s \in Sessions, NEW op \in Ops, NEW k \in AllRows, NEW l \in Nat,
           NEW a \in Accounts \cup {None}, Begins(s, op, k, l, a),
           conn'[k].token = conn[k].token, conn'[k].status = conn[k].status,
           op \in {"check", "activate"} => conn[k].token # None,
           op = "refresh" => conn[k].token # None,
           request'[s] = [op |-> op, row |-> k, seen |-> conn[k], ref |-> l, account |-> a]
              => Belongs(s)'
    PROVE  RequestsFollow
<1> DEFINE r == [op |-> op, row |-> k, seen |-> conn[k], ref |-> l, account |-> a]
<1>1. r \in Request
  BY RowTyped DEF Request
<1>2. request' = [request EXCEPT ![s] = r]
  BY DEF Begins
<1>3. request'[s] = r
  BY <1>2 DEF TypeInv, Typed
<1>4. Begun(s)
  BY <1>3 DEF Begun
<1> QED BY <1>1, <1>2, <1>3, <1>4, NewRequest
-----------------------------------------------------------------------------
(* Every action keeps the types and follows the summary                    *)

LEMMA TypeInit == Init => TypeInv
<1> SUFFICES ASSUME Init PROVE TypeInv
  OBVIOUS
<1>1. conn \in [AllRows -> RowType] /\ request \in [Sessions -> Request]
  BY NoRowTyped DEF Init, AllRows
<1>2. \A t \in Sessions : Belongs(t)
  BY NoRowTyped DEF Init, Belongs
<1>3. /\ channel \in Kinds /\ mirror \in Statuses /\ login \in [Logins -> Login]
      /\ webhook \in [Accounts -> 0 .. MaxRequests] /\ stop \in BOOLEAN /\ used \in 0 .. MaxRequests
  <2>1. 0 \in 0 .. MaxRequests
    BY ConnectionsAssumption
  <2>2. login \in [Logins -> Login]
    BY DEF Init, Login
  <2> QED BY <2>1, <2>2 DEF Init, Statuses
<1> QED BY <1>1, <1>2, <1>3 DEF TypeInv, Typed

\* A login's state is looked at, offered or used.
LEMMA StageTyped ==
    ASSUME TypeInv, NEW l \in Logins, NEW stage \in {"none", "open", "chosen", "used"},
           login' = [login EXCEPT ![l].stage = stage]
    PROVE  login' \in [Logins -> Login]
BY DEF TypeInv, Typed, Login

LEMMA UsedLoginTyped ==
    ASSUME TypeInv, NEW l \in Logins,
           login' = [login EXCEPT ![l] = [stage |-> "used", made |-> @.made + 1]]
    PROVE  login' \in [Logins -> Login]
BY DEF TypeInv, Typed, Login

LEMMA LoginStep ==
    ASSUME TypeInv, NEW l \in Logins, start_oauth(l) \/ reject_oauth(l) \/ prepare_facebook_selection(l)
    PROVE  TypeInv' /\ Follows
<1>1. /\ channel' = channel /\ UNCHANGED <<conn, mirror, webhook, stop>>
      /\ \E stage \in {"open", "chosen", "used"} : login' = [login EXCEPT ![l].stage = stage]
  BY DEF start_oauth, reject_oauth, prepare_facebook_selection
<1>2. login' \in [Logins -> Login]
  BY <1>1, StageTyped
<1>3. used' \in 0 .. MaxRequests /\ RequestsFollow
  BY QuickTyped, SameRequests DEF start_oauth, reject_oauth, prepare_facebook_selection, TypeInv, Typed
<1>4. OthersTyped
  BY <1>1, <1>2, <1>3 DEF OthersTyped, TypeInv, Typed
<1> QED BY <1>1, <1>3, <1>4, NoRowWritten

LEMMA SetupStep ==
    ASSUME TypeInv, instagram_connect
    PROVE  TypeInv' /\ Follows
<1> DEFINE row == [conn[Page] EXCEPT !.status = "unconfigured", !.guided = TRUE]
<1>1. conn' = [conn EXCEPT ![Page] = row]
  BY RowsAre DEF instagram_connect, TypeInv, Typed
<1>2. row \in RowType
  BY ZenonT(40), RowsAre, RowTyped DEF RowType, Statuses
<1>3. Opened(Page)
  BY <1>1, RowsAre, RowTyped DEF instagram_connect, Opened, Choice, RowType, TypeInv, Typed
<1>4. channel' = channel /\ OthersTyped /\ RequestsFollow
  BY QuickTyped DEF instagram_connect, OthersTyped, TypeInv, Typed
<1> HIDE DEF row
<1> QED BY <1>1, <1>2, <1>3, <1>4, RowsAre, RowWritten DEF RowFollows

LEMMA OAuthBeginsStep ==
    ASSUME TypeInv, NEW b \in Browsers, NEW l \in Logins, OAuthBegins(b, l)
    PROVE  TypeInv' /\ Follows
<1>1. PICK a \in Accounts : Begins(b, "login", Page, l, a)
  BY DEF OAuthBegins
<1>2. Instagram /\ UNCHANGED <<channel, conn, mirror, login, webhook, stop>> /\ l \in Nat
  BY ConnectionsAssumption DEF OAuthBegins
<1>3. request'[b] = [op |-> "login", row |-> Page, seen |-> conn[Page], ref |-> l, account |-> a]
        => Belongs(b)'
  BY <1>2 DEF Belongs, Instagram
<1>4. RequestsFollow
  BY <1>1, <1>2, <1>3, SessionsAre, RowsAre, BeginsStep DEF Ops
<1>5. OthersTyped
  BY <1>1, <1>2, UsedTyped DEF OthersTyped, TypeInv, Typed
<1> QED BY <1>2, <1>4, <1>5, NoRowWritten

\* What a login makes of the page.
LoggedIn(a) ==
    [conn[Page] EXCEPT !.status = "connected", !.token = a, !.account = a, !.off = FALSE,
                       !.checked = TRUE, !.leased = TRUE, !.life = "long", !.guided = FALSE]

LEMMA LoggedInRow ==
    ASSUME TypeInv, NEW a \in Accounts
    PROVE  /\ LoggedIn(a) \in RowType
           /\ LoggedIn(a).status = "connected" /\ LoggedIn(a).token = a /\ LoggedIn(a).account = a
           /\ ~LoggedIn(a).guided
           /\ LoggedIn(a).mode = conn[Page].mode /\ LoggedIn(a).vouched = conn[Page].vouched
<1>1. conn[Page] \in RowType
  BY RowsAre, RowTyped
<1> QED BY <1>1 DEF LoggedIn, RowType, Statuses

LEMMA OAuthStep ==
    ASSUME TypeInv, NEW b \in Browsers, complete_oauth(b)
    PROVE  TypeInv' /\ Follows
<1> DEFINE l == request[b].ref
           a == request[b].account
<1>1. b \in Sessions /\ l \in Logins /\ a \in Accounts /\ Instagram
  BY SessionsAre, RequestTyped DEF complete_oauth, Belongs
<1>2. /\ UNCHANGED <<channel, mirror, webhook, stop, used>>
      /\ request' = [request EXCEPT ![b] = Idle]
  BY DEF complete_oauth, Ends
<1>3. RequestsFollow
  BY <1>1, <1>2, EndsStep
<1>4. CASE login' = [login EXCEPT ![l].stage = "used"] /\ UNCHANGED conn
  BY <1>1, <1>2, <1>3, <1>4, StageTyped, NoRowWritten DEF OthersTyped, TypeInv, Typed
<1>5. CASE /\ RightAccount(b) /\ conn' = [conn EXCEPT ![Page] = LoggedIn(a)]
           /\ login' = [login EXCEPT ![l] = [stage |-> "used", made |-> @.made + 1]]
  <2>1. conn'[Page] = LoggedIn(a)
    BY <1>5, RowsAre DEF TypeInv, Typed
  <2>2. Joined(Page)
    BY <1>1, <1>5, <2>1, LoggedInRow DEF Joined, Choice, RightAccount
  <2>3. OthersTyped
    BY <1>1, <1>2, <1>5, UsedLoginTyped DEF OthersTyped, TypeInv, Typed
  <2> QED BY <1>1, <1>2, <1>3, <1>5, <2>2, <2>3, LoggedInRow, RowsAre, RowWritten DEF RowFollows
<1> QED BY <1>4, <1>5, RowsAre DEF complete_oauth, LoggedIn, TypeInv, Typed

\* What a login, an onboarding or a bot's token makes of a row.
LEMMA StoredRow ==
    ASSUME TypeInv, NEW k \in AllRows, NEW a \in Accounts
    PROVE  /\ Stored(conn[k], a) \in RowType
           /\ Stored(conn[k], a).status = "connected" /\ Stored(conn[k], a).token = a
           /\ Stored(conn[k], a).account = a /\ Stored(conn[k], a).live
           /\ Stored(conn[k], a).hook = conn[k].hook
BY ZenonT(40), RowTyped DEF Stored, RowType, Statuses, Modes

LEMMA SelectionBeginsStep ==
    ASSUME TypeInv, NEW b \in Browsers, NEW l \in Logins, SelectionBegins(b, l)
    PROVE  TypeInv' /\ Follows
<1>1. PICK a \in Accounts : Begins(b, "select", a, l, a)
  BY DEF SelectionBegins
<1>2. channel = "facebook" /\ UNCHANGED <<channel, conn, mirror, login, webhook, stop>> /\ l \in Nat
  BY ConnectionsAssumption DEF SelectionBegins
<1>3. request'[b] = [op |-> "select", row |-> a, seen |-> conn[a], ref |-> l, account |-> a]
        => Belongs(b)'
  BY <1>2 DEF Belongs
<1>4. RequestsFollow
  BY <1>1, <1>2, <1>3, SessionsAre, RowsAre, BeginsStep DEF Ops
<1>5. OthersTyped
  BY <1>1, <1>2, UsedTyped DEF OthersTyped, TypeInv, Typed
<1> QED BY <1>2, <1>4, <1>5, NoRowWritten

LEMMA SelectionStep ==
    ASSUME TypeInv, NEW b \in Browsers, complete_facebook_selection(b)
    PROVE  TypeInv' /\ Follows
<1> DEFINE l == request[b].ref
           a == request[b].account
           k == request[b].row
<1>1. b \in Sessions /\ l \in Logins /\ a \in Accounts /\ channel = "facebook" /\ k \in AllRows
  BY SessionsAre, RequestTyped DEF complete_facebook_selection, Belongs
<1>2. /\ UNCHANGED <<channel, mirror, webhook, stop, used>>
      /\ request' = [request EXCEPT ![b] = Idle]
  BY DEF complete_facebook_selection, Ends
<1>3. RequestsFollow
  BY <1>1, <1>2, EndsStep
<1>4. CASE UNCHANGED <<conn, login>>
  BY <1>1, <1>2, <1>3, <1>4, NoRowWritten DEF OthersTyped, TypeInv, Typed
<1>5. CASE /\ conn' = [conn EXCEPT ![k] = Stored(@, a)]
           /\ login' = [login EXCEPT ![l] = [stage |-> "used", made |-> @.made + 1]]
  <2>1. conn' = [conn EXCEPT ![k] = Stored(conn[k], a)] /\ conn'[k] = Stored(conn[k], a)
    BY <1>1, <1>5 DEF TypeInv, Typed
  <2>2. Joined(k)
    BY <1>1, <2>1, StoredRow DEF Joined, Instagram
  <2>3. OthersTyped
    BY <1>1, <1>2, <1>5, UsedLoginTyped DEF OthersTyped, TypeInv, Typed
  <2> QED BY <1>1, <1>2, <1>3, <2>1, <2>2, <2>3, StoredRow, RowWritten DEF RowFollows
<1> QED BY <1>4, <1>5 DEF complete_facebook_selection

LEMMA LoginNextStep ==
    ASSUME TypeInv, LoginNext
    PROVE  TypeInv' /\ Follows
BY SetupStep, LoginStep, OAuthBeginsStep, SelectionBeginsStep, OAuthStep, SelectionStep DEF LoginNext


-----------------------------------------------------------------------------
(* WhatsApp and Telegram                                                   *)

LEMMA OnboardingStep ==
    ASSUME TypeInv, NEW a \in Accounts, complete_whatsapp_onboarding(a)
    PROVE  TypeInv' /\ Follows
<1> DEFINE row == [Stored(conn[a], a) EXCEPT !.registered = TRUE]
<1>1. conn' = [conn EXCEPT ![a] = row] /\ conn'[a] = row
  BY RowsAre DEF complete_whatsapp_onboarding, TypeInv, Typed
<1>2. /\ row \in RowType /\ row.status = "connected" /\ row.token = a /\ row.account = a
  <2>1. Stored(conn[a], a) \in RowType /\ Stored(conn[a], a).status = "connected"
        /\ Stored(conn[a], a).token = a /\ Stored(conn[a], a).account = a
    BY RowsAre, StoredRow
  <2> QED BY <2>1 DEF RowType
<1> HIDE DEF row
<1>3. channel = "whatsapp" /\ channel' = channel /\ OthersTyped /\ RequestsFollow
  BY QuickTyped DEF complete_whatsapp_onboarding, OthersTyped, TypeInv, Typed
<1>4. Joined(a)
  BY <1>1, <1>2, <1>3 DEF Joined, Instagram
<1> QED BY <1>1, <1>2, <1>3, <1>4, RowsAre, RowWritten DEF RowFollows

LEMMA ActivationBeginsStep ==
    ASSUME TypeInv, NEW b \in Browsers, NEW a \in Accounts, ActivationBegins(b, a)
    PROVE  TypeInv' /\ Follows
<1>1. /\ channel = "whatsapp" /\ conn[a].token # None /\ Begins(b, "activate", a, 0, a)
      /\ UNCHANGED <<channel, conn, mirror, login, webhook, stop>>
  BY DEF ActivationBegins
<1>2. request'[b] = [op |-> "activate", row |-> a, seen |-> conn[a], ref |-> 0, account |-> a]
        => Belongs(b)'
  BY <1>1 DEF Belongs
<1>3. RequestsFollow
  BY <1>1, <1>2, SessionsAre, RowsAre, BeginsStep DEF Ops
<1>4. OthersTyped
  BY <1>1, UsedTyped DEF OthersTyped, TypeInv, Typed
<1> QED BY <1>1, <1>3, <1>4, NoRowWritten

\* What an answer writes as the status.
LEMMA OverTyped ==
    ASSUME TypeInv, NEW s \in Sessions, request[s].op \in {"check", "activate", "refresh"},
           NEW new \in {"connected", "error"}
    PROVE  LET k == request[s].row IN
           /\ Over(s, new) \in Statuses
           /\ Over(s, new) # conn[k].status => Over(s, new) = new /\ request[s].seen.status # new
<1>1. request[s].row \in AllRows
  BY RequestTyped
<1> QED BY <1>1, RowTyped DEF Over, Statuses

LEMMA ActivationStep ==
    ASSUME TypeInv, NEW b \in Browsers, activate_existing_whatsapp_phone(b)
    PROVE  TypeInv' /\ Follows
<1> DEFINE k == request[b].row
           live == request[b].seen.live => conn[k].live
           row == [conn[k] EXCEPT !.status = Over(b, "connected"), !.registered = TRUE,
                                  !.checked = TRUE, !.live = live]
<1>1. b \in Sessions /\ k \in AllRows /\ channel = "whatsapp" /\ request[b].op = "activate"
  BY SessionsAre, RequestTyped DEF activate_existing_whatsapp_phone, Belongs
<1>2. /\ UNCHANGED <<channel, mirror, login, webhook, stop, used>>
      /\ request' = [request EXCEPT ![b] = Idle]
  BY DEF activate_existing_whatsapp_phone, Ends
<1>3. RequestsFollow /\ OthersTyped
  BY <1>1, <1>2, EndsStep DEF OthersTyped, TypeInv, Typed
<1>4. CASE UNCHANGED conn
  BY <1>2, <1>3, <1>4, NoRowWritten
<1>5. CASE conn' = [conn EXCEPT ![k] = row]
  <2>1. Over(b, "connected") \in Statuses /\ live \in BOOLEAN
    BY <1>1, OverTyped
  <2>2. conn[k] \in RowType
    BY <1>1, RowTyped
  <2> HIDE DEF live
  <2>3. row \in RowType /\ row.status = Over(b, "connected") /\ row.token = conn[k].token
        /\ row.account = conn[k].account /\ row.guided = conn[k].guided /\ row.mode = conn[k].mode
        /\ row.vouched = conn[k].vouched /\ row.hook = conn[k].hook
    BY <2>1, <2>2 DEF RowType
  <2> HIDE DEF row
  <2>4. conn'[k] = row
    BY <1>1, <1>5 DEF TypeInv, Typed
  <2>5. StatusMoves(k)
    BY <1>1, <2>3, <2>4, OverTyped DEF StatusMoves
  <2>6. Reported(k)
    BY <1>1, <2>3, <2>4, <2>5 DEF Reported, Identity, Choice, Hook
  <2> QED BY <1>1, <1>2, <1>3, <1>5, <2>3, <2>6, RowWritten DEF RowFollows
<1>6. conn' = [conn EXCEPT ![k] = row] \/ UNCHANGED conn
  BY DEF activate_existing_whatsapp_phone
<1> QED BY <1>4, <1>5, <1>6

LEMMA TelegramBeginsStep ==
    ASSUME TypeInv, NEW b \in Browsers, NEW a \in Accounts, TelegramBegins(b, a)
    PROVE  TypeInv' /\ Follows
<1>1. /\ channel = "telegram" /\ Begins(b, "connect", a, used + 1, a)
      /\ webhook' = [webhook EXCEPT ![a] = used + 1]
      /\ UNCHANGED <<channel, conn, mirror, login, stop>>
  BY DEF TelegramBegins
<1>2. used + 1 \in 0 .. MaxRequests /\ used + 1 \in Nat
  BY <1>1, ConnectionsAssumption DEF Begins, TypeInv, Typed
<1>3. request'[b] = [op |-> "connect", row |-> a, seen |-> conn[a], ref |-> used + 1, account |-> a]
        => Belongs(b)'
  BY <1>1, <1>2 DEF Belongs
<1>4. RequestsFollow
  BY <1>1, <1>2, <1>3, SessionsAre, RowsAre, BeginsStep DEF Ops
<1>5. OthersTyped
  BY <1>1, <1>2, UsedTyped DEF OthersTyped, TypeInv, Typed
<1> QED BY <1>1, <1>4, <1>5, NoRowWritten

LEMMA TelegramStep ==
    ASSUME TypeInv, NEW b \in Browsers, telegram_connect(b)
    PROVE  TypeInv' /\ Follows
<1> DEFINE a == request[b].row
           row == [Stored(conn[a], a) EXCEPT !.off = FALSE, !.hook = request[b].ref]
<1>1. /\ b \in Sessions /\ a \in Accounts /\ a \in AllRows /\ channel = "telegram"
      /\ request[b].ref \in 0 .. MaxRequests
  BY SessionsAre, RowsAre, RequestTyped DEF telegram_connect, Belongs
<1>2. /\ UNCHANGED <<channel, mirror, login, stop, used>>
      /\ request' = [request EXCEPT ![b] = Idle]
  BY DEF telegram_connect, Ends
<1>3. RequestsFollow
  BY <1>1, <1>2, EndsStep
<1>4. OthersTyped
  <2>1. 0 \in 0 .. MaxRequests
    BY ConnectionsAssumption
  <2> QED BY <1>2, <2>1 DEF telegram_connect, DeleteWebhook, OthersTyped, TypeInv, Typed
<1>5. CASE UNCHANGED conn
  BY <1>2, <1>3, <1>4, <1>5, NoRowWritten
<1>6. CASE conn' = [conn EXCEPT ![a] = row]
  <2>1. Stored(conn[a], a) \in RowType /\ Stored(conn[a], a).status = "connected"
        /\ Stored(conn[a], a).token = a /\ Stored(conn[a], a).account = a
    BY <1>1, StoredRow
  <2>2. row \in RowType /\ row.status = "connected" /\ row.token = a /\ row.account = a
    BY <1>1, <2>1 DEF RowType
  <2> HIDE DEF row
  <2>3. conn'[a] = row
    BY <1>1, <1>6 DEF TypeInv, Typed
  <2>4. Joined(a)
    BY <1>1, <2>2, <2>3 DEF Joined, Instagram
  <2> QED BY <1>1, <1>2, <1>3, <1>4, <1>6, <2>2, <2>4, RowWritten DEF RowFollows
<1> QED BY <1>1, <1>5, <1>6 DEF telegram_connect, TypeInv, Typed

LEMMA DisconnectBeginsStep ==
    ASSUME TypeInv, NEW b \in Browsers, NEW a \in Accounts, DisconnectBegins(b, a)
    PROVE  TypeInv' /\ Follows
<1>1. /\ channel = "telegram" /\ Begins(b, "leave", a, 0, a)
      /\ UNCHANGED <<channel, conn, mirror, login, stop>>
  BY DEF DisconnectBegins
<1>2. request'[b] = [op |-> "leave", row |-> a, seen |-> conn[a], ref |-> 0, account |-> a]
        => Belongs(b)'
  BY <1>1 DEF Belongs
<1>3. RequestsFollow
  BY <1>1, <1>2, SessionsAre, RowsAre, BeginsStep DEF Ops
<1>4. webhook' \in [Accounts -> 0 .. MaxRequests]
  <2>1. 0 \in 0 .. MaxRequests
    BY ConnectionsAssumption
  <2> QED BY <2>1 DEF DisconnectBegins, TypeInv, Typed
<1>5. OthersTyped
  BY <1>1, <1>4, UsedTyped DEF OthersTyped, TypeInv, Typed
<1> QED BY <1>1, <1>3, <1>5, NoRowWritten

LEMMA DisconnectedRow ==
    ASSUME TypeInv, NEW k \in AllRows
    PROVE  LET row == Disconnected(conn[k]) IN
           /\ row \in RowType /\ row.status = "disconnected" /\ row.token = None /\ row.mode = "off"
           /\ row.account = conn[k].account /\ row.guided = conn[k].guided
<1>1. conn[k] \in RowType
  BY RowTyped
<1> QED BY <1>1 DEF Disconnected, RowType, Statuses, Modes

LEMMA TelegramLeaves ==
    ASSUME TypeInv, NEW b \in Browsers, disconnect_telegram(b)
    PROVE  TypeInv' /\ Follows
<1> DEFINE a == request[b].row
           row == [Disconnected(conn[a]) EXCEPT !.live = FALSE, !.hook = 0]
<1>1. b \in Sessions /\ a \in AllRows /\ channel = "telegram"
  BY SessionsAre, RequestTyped DEF disconnect_telegram, Belongs
<1>2. /\ UNCHANGED <<channel, mirror, login, webhook, stop, used>> /\ Undisturbed(a)
      /\ request' = [request EXCEPT ![b] = Idle]
  BY DEF disconnect_telegram, Ends
<1>3. RequestsFollow /\ OthersTyped
  BY <1>1, <1>2, EndsStep DEF OthersTyped, TypeInv, Typed
<1>4. conn' = [conn EXCEPT ![a] = row] /\ conn'[a] = row
  BY <1>1 DEF disconnect_telegram, TypeInv, Typed
<1>5. 0 \in 0 .. MaxRequests
  BY ConnectionsAssumption
<1>6. /\ row \in RowType /\ row.status = "disconnected" /\ row.token = None /\ row.mode = "off"
      /\ row.account = conn[a].account /\ row.guided = conn[a].guided
  <2> DEFINE left == Disconnected(conn[a])
  <2>1. /\ left \in RowType /\ left.status = "disconnected" /\ left.token = None /\ left.mode = "off"
        /\ left.account = conn[a].account /\ left.guided = conn[a].guided
    BY <1>1, DisconnectedRow
  <2> HIDE DEF left
  <2>2. row = [left EXCEPT !.live = FALSE, !.hook = 0]
    BY DEF left
  <2> QED BY <1>5, <2>1, <2>2 DEF RowType
<1> HIDE DEF row
<1>7. Left(a)
  BY <1>1, <1>2, <1>4, <1>6 DEF Left, Instagram
<1> QED BY <1>1, <1>2, <1>3, <1>4, <1>6, <1>7, RowWritten DEF RowFollows

LEMMA AccountNextStep ==
    ASSUME TypeInv, AccountNext
    PROVE  TypeInv' /\ Follows
BY OnboardingStep, ActivationBeginsStep, ActivationStep, TelegramBeginsStep, TelegramStep,
   DisconnectBeginsStep, TelegramLeaves DEF AccountNext


-----------------------------------------------------------------------------
(* Checks, renewals and time                                               *)

\* A row of which only the status, the marks of the checks and the token's age
\* are other than they were.
SameConnection(row, k) ==
    /\ row \in RowType
    /\ row.token = conn[k].token /\ row.account = conn[k].account /\ row.guided = conn[k].guided
    /\ row.mode = conn[k].mode /\ row.vouched = conn[k].vouched
    /\ row.hook = conn[k].hook /\ row.live = conn[k].live

LEMMA Marks ==
    ASSUME TypeInv, NEW k \in AllRows, NEW row, SameConnection(row, k),
           conn' = [conn EXCEPT ![k] = row],
           \/ row.status = conn[k].status
           \/ row.status \in {"error", "setup_required"} /\ Known(k)
           \/ /\ row.status = "connected"
              /\ \E s \in Sessions : /\ request[s].op = "check" /\ request[s].row = k
                                     /\ request[s].seen.status # "connected",
           channel' = channel, OthersTyped, RequestsFollow
    PROVE  TypeInv' /\ Follows /\ Reports
<1>1. conn'[k] = row
  BY DEF TypeInv, Typed
<1>2. Reported(k)
  BY <1>1 DEF SameConnection, Reported, Identity, Choice, Hook, StatusMoves
<1>3. \A j \in AllRows : j # k => Reported(j)
  BY DEF Reported, Identity, Choice, Hook, StatusMoves, TypeInv, Typed
<1> QED BY <1>2, <1>3, RowWritten DEF Reports, SameConnection, RowFollows

LEMMA FailsAtOnceStep ==
    ASSUME TypeInv, NEW k \in Rows, CheckFailsAtOnce(k)
    PROVE  TypeInv' /\ Follows /\ Reports
<1>1. k \in AllRows /\ Known(k) /\ channel' = channel /\ RequestsFollow /\ Instagram \in BOOLEAN
  BY RowsAre, QuickTyped DEF CheckFailsAtOnce, Known, Instagram
<1>2. OthersTyped
  BY QuickTyped DEF CheckFailsAtOnce, OthersTyped, TypeInv, Typed
<1>3. CASE conn' = [conn EXCEPT ![k].status = "error", ![k].checked = TRUE, ![k].leased = Instagram]
  <2> DEFINE row == [conn[k] EXCEPT !.status = "error", !.checked = TRUE, !.leased = Instagram]
  <2>1. conn' = [conn EXCEPT ![k] = row]
    BY <1>1, <1>3 DEF TypeInv, Typed
  <2>2. SameConnection(row, k) /\ row.status = "error"
    BY <1>1, RowTyped DEF SameConnection, RowType, Statuses
  <2> HIDE DEF row
  <2> QED BY <1>1, <1>2, <2>1, <2>2, Marks
<1>4. CASE conn' = [conn EXCEPT ![k].status = "setup_required", ![k].checked = TRUE]
  <2> DEFINE row == [conn[k] EXCEPT !.status = "setup_required", !.checked = TRUE]
  <2>1. conn' = [conn EXCEPT ![k] = row]
    BY <1>1, <1>4 DEF TypeInv, Typed
  <2>2. SameConnection(row, k) /\ row.status = "setup_required"
    BY <1>1, RowTyped DEF SameConnection, RowType, Statuses
  <2> HIDE DEF row
  <2> QED BY <1>1, <1>2, <2>1, <2>2, Marks
<1> QED BY <1>3, <1>4 DEF CheckFailsAtOnce

LEMMA CheckBeginsStep ==
    ASSUME TypeInv, NEW s \in Sessions, NEW k \in Rows, Begins(s, "check", k, 0, None),
           conn[k].token # None, channel' = channel, UNCHANGED <<mirror, login, webhook, stop>>,
           conn'[k].token = conn[k].token, conn'[k].status = conn[k].status
    PROVE  RequestsFollow /\ OthersTyped
<1>1. request'[s] = [op |-> "check", row |-> k, seen |-> conn[k], ref |-> 0, account |-> None]
        => Belongs(s)'
  BY DEF Belongs, Rows, Instagram
<1>2. RequestsFollow
  BY <1>1, RowsAre, BeginsStep DEF Ops
<1> QED BY <1>2, UsedTyped DEF OthersTyped, TypeInv, Typed

LEMMA CheckedStep ==
    ASSUME TypeInv, NEW s \in Sessions, request[s].op = "check", NEW new \in {"connected", "error"},
           Checked(s, new), channel' = channel, OthersTyped, RequestsFollow
    PROVE  TypeInv' /\ Follows /\ Reports
<1> DEFINE k == request[s].row
           row == [conn[k] EXCEPT !.status = Over(s, new), !.checked = TRUE, !.leased = Instagram]
<1>1. k \in AllRows /\ Over(s, new) \in Statuses /\ Known(k)
  BY RequestTyped, OverTyped DEF Known
<1>2. conn' = [conn EXCEPT ![k] = row]
  BY DEF Checked
<1>3. SameConnection(row, k) /\ row.status = Over(s, new)
  <2> DEFINE st == Over(s, new)
  <2>1. st \in Statuses /\ Instagram \in BOOLEAN /\ conn[k] \in RowType
    BY <1>1, RowTyped DEF Instagram
  <2> HIDE DEF st
  <2>2. row = [conn[k] EXCEPT !.status = st, !.checked = TRUE, !.leased = Instagram]
    BY DEF st
  <2>3. SameConnection(row, k) /\ row.status = st
    BY <2>1, <2>2 DEF SameConnection, RowType
  <2> QED BY <2>3 DEF st
<1>4. Over(s, new) # conn[k].status => Over(s, new) = new /\ request[s].seen.status # new
  BY OverTyped
<1> HIDE DEF row
<1> QED BY <1>1, <1>2, <1>3, <1>4, Marks

LEMMA CheckStep ==
    ASSUME TypeInv, NEW b \in Browsers, check_connection(b)
    PROVE  TypeInv' /\ Follows /\ Reports
<1>1. /\ b \in Sessions /\ request[b].op = "check" /\ channel' = channel
      /\ request' = [request EXCEPT ![b] = Idle] /\ UNCHANGED <<mirror, login, webhook, stop, used>>
  BY SessionsAre DEF check_connection, Ends
<1>2. RequestsFollow /\ OthersTyped
  BY <1>1, EndsStep DEF OthersTyped, TypeInv, Typed
<1> QED BY <1>1, <1>2, CheckedStep DEF check_connection

LEMMA RefreshBeginsStep ==
    ASSUME TypeInv, NEW b \in Browsers, RefreshBegins(b)
    PROVE  TypeInv' /\ Follows
<1>1. /\ Instagram /\ conn[Page].token # None /\ Begins(b, "refresh", Page, 0, None)
      /\ UNCHANGED <<channel, conn, mirror, login, webhook, stop>>
  BY DEF RefreshBegins
<1>2. request'[b] = [op |-> "refresh", row |-> Page, seen |-> conn[Page], ref |-> 0, account |-> None]
        => Belongs(b)'
  BY <1>1 DEF Belongs, Instagram
<1>3. RequestsFollow
  BY <1>1, <1>2, SessionsAre, RowsAre, BeginsStep DEF Ops
<1>4. OthersTyped
  BY <1>1, UsedTyped DEF OthersTyped, TypeInv, Typed
<1> QED BY <1>1, <1>3, <1>4, NoRowWritten

LEMMA RenewedStep ==
    ASSUME TypeInv, NEW s \in Sessions, request[s].op = "refresh", Renewed(s),
           channel' = channel, OthersTyped, RequestsFollow
    PROVE  TypeInv' /\ Follows
<1> DEFINE token == request[s].seen.token
           st == Over(s, "connected")
           row == [conn[Page] EXCEPT !.token = token, !.status = st, !.life = "long", !.checked = TRUE]
<1>1. /\ Instagram /\ request[s].row = Page /\ token \in Accounts \cup {None} /\ st \in Statuses
      /\ st \in {conn[Page].status, "connected"} /\ conn[Page] \in RowType
  <2>1. Instagram /\ request[s].row = Page /\ token \in Accounts \cup {None}
    BY RequestTyped DEF Belongs
  <2> QED BY <2>1, OverTyped, RowTyped, RowsAre
<1>2. conn' = [conn EXCEPT ![Page] = row]
  BY DEF Renewed
<1> HIDE DEF token, st
<1>3. /\ row \in RowType /\ row.token = token /\ row.status = st
      /\ row.account = conn[Page].account /\ row.guided = conn[Page].guided
      /\ row.mode = conn[Page].mode /\ row.vouched = conn[Page].vouched
  BY <1>1 DEF RowType
<1> HIDE DEF row
<1>4. conn'[Page] = row
  BY <1>2, RowsAre DEF TypeInv, Typed
<1>5. Renews(Page)
  BY <1>1, <1>3, <1>4 DEF Renews, Choice, token
<1> QED BY <1>2, <1>3, <1>5, RowsAre, RowWritten DEF RowFollows

LEMMA RefreshStep ==
    ASSUME TypeInv, NEW b \in Browsers, refresh_connection(b)
    PROVE  TypeInv' /\ Follows
<1>1. /\ b \in Sessions /\ request[b].op = "refresh" /\ channel' = channel
      /\ request' = [request EXCEPT ![b] = Idle] /\ UNCHANGED <<mirror, login, webhook, stop, used>>
  BY SessionsAre DEF refresh_connection, Ends
<1>2. RequestsFollow /\ OthersTyped
  BY <1>1, EndsStep DEF OthersTyped, TypeInv, Typed
<1> QED BY <1>1, <1>2, RenewedStep, NoRowWritten DEF refresh_connection

LEMMA CheckNextStep ==
    ASSUME TypeInv, CheckNext
    PROVE  TypeInv' /\ Follows
<1>1. ASSUME NEW b \in Browsers, NEW k \in Rows, CheckBegins(b, k)
      PROVE  TypeInv' /\ Follows
  <2>1. /\ Begins(b, "check", k, 0, None) /\ conn[k].token # None
        /\ UNCHANGED <<channel, conn, mirror, login, webhook, stop>>
    BY <1>1 DEF CheckBegins
  <2>2. RequestsFollow /\ OthersTyped
    BY <2>1, SessionsAre, CheckBeginsStep
  <2> QED BY <2>1, <2>2, NoRowWritten
<1> QED BY <1>1, FailsAtOnceStep, CheckStep, RefreshBeginsStep, RefreshStep DEF CheckNext

LEMMA ClaimInstagramStep ==
    ASSUME TypeInv, ClaimInstagram
    PROVE  TypeInv' /\ Follows
<1>1. Instagram /\ conn[Page].token # None /\ UNCHANGED <<channel, mirror, login, webhook, stop>>
      /\ Page \in Rows
  BY DEF ClaimInstagram, Due, Rows, Instagram
<1>2. CASE Begins(Worker, "check", Page, 0, None) /\ conn' = [conn EXCEPT ![Page].leased = TRUE]
  <2> DEFINE row == [conn[Page] EXCEPT !.leased = TRUE]
  <2>1. conn' = [conn EXCEPT ![Page] = row] /\ conn'[Page] = row
    BY <1>2, RowsAre DEF TypeInv, Typed
  <2>2. SameConnection(row, Page) /\ row.status = conn[Page].status
    BY RowsAre, RowTyped DEF SameConnection, RowType
  <2> HIDE DEF row
  <2>3. RequestsFollow /\ OthersTyped
    BY <1>1, <1>2, <2>1, <2>2, SessionsAre, CheckBeginsStep DEF SameConnection
  <2> QED BY <1>1, <2>1, <2>2, <2>3, RowsAre, Marks
<1>3. CASE /\ UNCHANGED <<request, used>>
           /\ conn' = [conn EXCEPT ![Page].leased = TRUE, ![Page].checked = TRUE, ![Page].status = "error"]
  <2> DEFINE row == [conn[Page] EXCEPT !.leased = TRUE, !.checked = TRUE, !.status = "error"]
  <2>1. conn' = [conn EXCEPT ![Page] = row]
    BY <1>3, RowsAre DEF TypeInv, Typed
  <2>2. SameConnection(row, Page) /\ row.status = "error"
    BY RowsAre, RowTyped DEF SameConnection, RowType, Statuses
  <2> HIDE DEF row
  <2>3. RequestsFollow /\ OthersTyped
    BY <1>1, <1>3, SameRequests DEF OthersTyped, TypeInv, Typed
  <2>4. Known(Page)
    BY <1>1 DEF Known
  <2> QED BY <1>1, <2>1, <2>2, <2>3, <2>4, RowsAre, Marks
<1> QED BY <1>2, <1>3 DEF ClaimInstagram


LEMMA ClaimChannelStep ==
    ASSUME TypeInv, NEW k \in Rows, ClaimChannel(k)
    PROVE  TypeInv' /\ Follows
<1> DEFINE row == [conn[k] EXCEPT !.checked = TRUE]
<1>1. /\ conn[k].token # None /\ k \in AllRows /\ Begins(Worker, "check", k, 0, None)
      /\ UNCHANGED <<channel, mirror, login, webhook, stop>>
  BY RowsAre DEF ClaimChannel, Due
<1>2. conn' = [conn EXCEPT ![k] = row] /\ conn'[k] = row
  BY <1>1 DEF ClaimChannel, TypeInv, Typed
<1>3. SameConnection(row, k) /\ row.status = conn[k].status
  BY <1>1, RowTyped DEF SameConnection, RowType
<1> HIDE DEF row
<1>4. RequestsFollow /\ OthersTyped
  BY <1>1, <1>2, <1>3, SessionsAre, CheckBeginsStep DEF SameConnection
<1> QED BY <1>1, <1>2, <1>3, <1>4, Marks

\* The worker's check, which may go on with a renewal.
LEMMA WorkerRequests ==
    ASSUME TypeInv, channel' = channel, conn' \in [AllRows -> RowType],
           request[Worker].op = "check",
           request' = [request EXCEPT ![Worker] =
              IF Instagram /\ conn'[Page].status = "connected" /\ TokenRefreshDue
              THEN [@ EXCEPT !.op = "refresh", !.seen = conn'[Page]] ELSE Idle]
    PROVE  RequestsFollow
<1> DEFINE r == [request[Worker] EXCEPT !.op = "refresh", !.seen = conn'[Page]]
<1>1. request[Worker] \in Request /\ conn'[Page] \in RowType
  BY SessionsAre, RowsAre, RequestTyped
<1>2. /\ r \in Request /\ r.op = "refresh" /\ r.seen = conn'[Page] /\ r.row = request[Worker].row
  BY <1>1 DEF Request, Ops
<1>3. request' = [request EXCEPT ![Worker] = Idle]
      \/ (Instagram /\ conn'[Page].status = "connected" /\ request' = [request EXCEPT ![Worker] = r])
  OBVIOUS
<1> HIDE DEF r
<1>4. CASE request' = [request EXCEPT ![Worker] = Idle]
  BY <1>4, SessionsAre, EndsStep
<1>5. CASE Instagram /\ conn'[Page].status = "connected" /\ request' = [request EXCEPT ![Worker] = r]
  <2>1. r.row = Page
    BY <1>2, <1>5, SessionsAre, RequestTyped DEF Belongs, Rows, Instagram
  <2>2. request'[Worker] = r
    BY <1>5, SessionsAre DEF TypeInv, Typed
  <2>3. Belongs(Worker)'
    BY <1>2, <1>5, <2>1, <2>2 DEF Belongs, Instagram
  <2>4. Begun(Worker)
    BY <1>2, <1>5, <2>1, <2>2 DEF Begun
  <2> QED BY <1>2, <1>5, <2>3, <2>4, SessionsAre, NewRequest
<1> QED BY <1>3, <1>4, <1>5

LEMMA WorkerChecksStep ==
    ASSUME TypeInv, WorkerChecks
    PROVE  TypeInv' /\ Follows /\ Reports
<1> DEFINE k == request[Worker].row
<1>1. /\ request[Worker].op = "check" /\ k \in AllRows /\ Worker \in Sessions
      /\ UNCHANGED <<channel, mirror, login, webhook, stop, used>>
  BY SessionsAre, RequestTyped DEF WorkerChecks
<1>2. OthersTyped
  BY <1>1 DEF OthersTyped, TypeInv, Typed
<1>3. conn' \in [AllRows -> RowType] => RequestsFollow
  BY <1>1, WorkerRequests DEF WorkerChecks
<1>4. ASSUME NEW new \in {"connected", "error"}, Checked(Worker, new)
      PROVE  TypeInv' /\ Follows /\ Reports
  <2> DEFINE st == Over(Worker, new)
             row == [conn[k] EXCEPT !.status = st, !.checked = TRUE, !.leased = Instagram]
  <2>1. st \in Statuses /\ Instagram \in BOOLEAN /\ conn[k] \in RowType
    BY <1>1, OverTyped, RowTyped DEF Instagram
  <2>2. conn' = [conn EXCEPT ![k] = row]
    BY <1>4 DEF Checked
  <2> HIDE DEF st
  <2>3. row \in RowType
    BY <2>1 DEF RowType
  <2> HIDE DEF row
  <2>4. conn' \in [AllRows -> RowType]
    BY <2>2, <2>3 DEF TypeInv, Typed
  <2> QED BY <1>1, <1>2, <1>3, <1>4, <2>4, CheckedStep
<1>5. CASE conn' = [conn EXCEPT ![k].status = "error"]
  <2> DEFINE row == [conn[k] EXCEPT !.status = "error"]
  <2>1. conn' = [conn EXCEPT ![k] = row]
    BY <1>1, <1>5 DEF TypeInv, Typed
  <2>2. SameConnection(row, k) /\ row.status = "error"
    BY <1>1, RowTyped DEF SameConnection, RowType, Statuses
  <2> HIDE DEF row
  <2>3. Known(k)
    BY <1>1 DEF Known
  <2>4. conn' \in [AllRows -> RowType]
    BY <2>1, <2>2 DEF SameConnection, TypeInv, Typed
  <2> QED BY <1>1, <1>2, <1>3, <2>1, <2>2, <2>3, <2>4, Marks
<1> QED BY <1>4, <1>5 DEF WorkerChecks

LEMMA WorkerRefreshesStep ==
    ASSUME TypeInv, WorkerRefreshes
    PROVE  TypeInv' /\ Follows
<1>1. /\ Worker \in Sessions /\ request[Worker].op = "refresh" /\ request[Worker].row = Page
      /\ UNCHANGED <<channel, mirror, login, webhook, stop, used>>
      /\ request' = [request EXCEPT ![Worker] = Idle]
  BY SessionsAre, RequestTyped DEF WorkerRefreshes, Ends, Belongs
<1>2. RequestsFollow /\ OthersTyped
  BY <1>1, EndsStep DEF OthersTyped, TypeInv, Typed
<1>3. CASE conn' = [conn EXCEPT ![Page].status = "error", ![Page].checked = TRUE, ![Page].leased = TRUE]
  <2> DEFINE row == [conn[Page] EXCEPT !.status = "error", !.checked = TRUE, !.leased = TRUE]
  <2>1. conn' = [conn EXCEPT ![Page] = row]
    BY <1>3, RowsAre DEF TypeInv, Typed
  <2>2. SameConnection(row, Page) /\ row.status = "error"
    BY RowsAre, RowTyped DEF SameConnection, RowType, Statuses
  <2> HIDE DEF row
  <2>3. Known(Page)
    BY <1>1 DEF Known
  <2> QED BY <1>1, <1>2, <2>1, <2>2, <2>3, RowsAre, Marks
<1> QED BY <1>1, <1>2, <1>3, RenewedStep DEF WorkerRefreshes

\* Steps that write neither a row nor a request.
LEMMA IdleStep ==
    ASSUME TypeInv, channel_cards \/ meta_emergency_stop
    PROVE  TypeInv' /\ Follows
<1>1. channel' = channel /\ UNCHANGED conn
  BY DEF channel_cards, meta_emergency_stop
<1>2. RequestsFollow /\ used' \in 0 .. MaxRequests
  BY QuickTyped, SameRequests DEF channel_cards, meta_emergency_stop, TypeInv, Typed
<1>3. OthersTyped
  BY <1>2, RowsAre, RowTyped DEF channel_cards, meta_emergency_stop, OthersTyped, TypeInv, Typed
<1> QED BY <1>1, <1>2, <1>3, NoRowWritten

LEMMA SetModeStep ==
    ASSUME TypeInv, NEW k \in AllRows, NEW m \in Modes, SetMode(k, m), channel # "telegram",
           conn[k].status \notin {"none", "unconfigured"}, Quick,
           UNCHANGED <<channel, mirror, login, webhook, stop>>
    PROVE  TypeInv' /\ Follows
<1> DEFINE live == Instagram \/ conn[k].live
           vouched == IF m = "off" THEN None ELSE conn[k].account
           row == [conn[k] EXCEPT !.mode = m, !.live = live, !.vouched = vouched]
<1>1. live \in BOOLEAN /\ vouched \in Accounts \cup {None} /\ conn[k] \in RowType
  BY RowTyped DEF Instagram
<1>2. conn' = [conn EXCEPT ![k] = row]
  BY DEF SetMode
<1>3. m # "off" => vouched = conn[k].account
  OBVIOUS
<1> HIDE DEF live, vouched
<1>4. /\ row \in RowType /\ row.mode = m /\ row.vouched = vouched
      /\ row.token = conn[k].token /\ row.account = conn[k].account /\ row.guided = conn[k].guided
      /\ row.status = conn[k].status
  BY <1>1 DEF RowType
<1> HIDE DEF row
<1>5. conn'[k] = row
  BY <1>2 DEF TypeInv, Typed
<1>6. Switched(k)
  BY <1>3, <1>4, <1>5 DEF Switched, Identity
<1>7. RequestsFollow /\ OthersTyped
  BY QuickTyped DEF OthersTyped, TypeInv, Typed
<1> QED BY <1>2, <1>4, <1>6, <1>7, RowWritten DEF RowFollows

LEMMA DisconnectStep ==
    ASSUME TypeInv, disconnect
    PROVE  TypeInv' /\ Follows
<1> DEFINE row == Disconnected(conn[Page])
<1>1. conn' = [conn EXCEPT ![Page] = row] /\ conn'[Page] = row
  BY RowsAre DEF disconnect, TypeInv, Typed
<1>2. /\ row \in RowType /\ row.status = "disconnected" /\ row.token = None /\ row.mode = "off"
      /\ row.account = conn[Page].account /\ row.guided = conn[Page].guided
  BY RowsAre, DisconnectedRow
<1> HIDE DEF row
<1>3. Left(Page)
  BY <1>1, <1>2 DEF Left, disconnect
<1>4. channel' = channel /\ OthersTyped /\ RequestsFollow
  BY QuickTyped DEF disconnect, OthersTyped, Statuses, TypeInv, Typed
<1> QED BY <1>1, <1>2, <1>3, <1>4, RowsAre, RowWritten DEF RowFollows

LEMMA DisconnectChannelStep ==
    ASSUME TypeInv, NEW k \in Rows, disconnect_channel(k)
    PROVE  TypeInv' /\ Follows
<1> DEFINE gone == Disconnected(conn[k])
           row == [gone EXCEPT !.live = FALSE]
<1>1. k \in AllRows /\ ~Instagram
  BY RowsAre DEF disconnect_channel, Instagram
<1>2. conn' = [conn EXCEPT ![k] = row] /\ conn'[k] = row
  BY <1>1 DEF disconnect_channel, TypeInv, Typed
<1>3. /\ gone \in RowType /\ gone.status = "disconnected" /\ gone.token = None /\ gone.mode = "off"
      /\ gone.account = conn[k].account /\ gone.guided = conn[k].guided
  BY <1>1, DisconnectedRow
<1> HIDE DEF gone
<1>4. /\ row \in RowType /\ row.status = "disconnected" /\ row.token = None /\ row.mode = "off"
      /\ row.account = conn[k].account /\ row.guided = conn[k].guided
  BY <1>3 DEF RowType
<1> HIDE DEF row
<1>5. Left(k)
  BY <1>1, <1>2, <1>4 DEF Left, disconnect_channel
<1>6. channel' = channel /\ OthersTyped /\ RequestsFollow
  BY QuickTyped DEF disconnect_channel, OthersTyped, TypeInv, Typed
<1> QED BY <1>1, <1>2, <1>4, <1>5, <1>6, RowWritten DEF RowFollows

LEMMA SettingsNextStep ==
    ASSUME TypeInv, SettingsNext
    PROVE  TypeInv' /\ Follows
<1>1. ASSUME NEW m \in Modes, meta_settings(m)
      PROVE  TypeInv' /\ Follows
  BY <1>1, RowsAre, SetModeStep DEF meta_settings, Instagram
<1>2. ASSUME NEW m \in Modes, NEW k \in Rows, save_channel_settings(k, m)
      PROVE  TypeInv' /\ Follows
  BY <1>2, RowsAre, SetModeStep DEF save_channel_settings
<1> QED BY <1>1, <1>2, IdleStep, DisconnectStep, DisconnectChannelStep DEF SettingsNext

LEMMA EnvironmentStep ==
    ASSUME TypeInv, Environment
    PROVE  TypeInv' /\ Follows /\ Reports
<1>1. ASSUME NEW k \in Rows, CheckInterval(k)
      PROVE  TypeInv' /\ Follows /\ Reports
  <2> DEFINE row == [conn[k] EXCEPT !.checked = FALSE, !.leased = FALSE]
  <2>1. k \in AllRows /\ conn' = [conn EXCEPT ![k] = row]
    BY <1>1, RowsAre DEF CheckInterval, TypeInv, Typed
  <2>2. SameConnection(row, k) /\ row.status = conn[k].status
    BY <2>1, RowTyped DEF SameConnection, RowType
  <2> HIDE DEF row
  <2>3. channel' = channel /\ OthersTyped /\ RequestsFollow
    BY <1>1, SameRequests DEF CheckInterval, OthersTyped, TypeInv, Typed
  <2> QED BY <2>1, <2>2, <2>3, Marks
<1>2. ASSUME NEW k \in Rows, TokenAges(k)
      PROVE  TypeInv' /\ Follows /\ Reports
  <2> DEFINE life == IF conn[k].life = "long" THEN "soon" ELSE "expired"
             row == [conn[k] EXCEPT !.life = life]
  <2>1. k \in AllRows /\ conn' = [conn EXCEPT ![k] = row]
    BY <1>2, RowsAre DEF TokenAges, TypeInv, Typed
  <2>2. life \in {"soon", "expired"}
    OBVIOUS
  <2> HIDE DEF life
  <2>3. SameConnection(row, k) /\ row.status = conn[k].status
    BY <2>1, <2>2, RowTyped DEF SameConnection, RowType
  <2> HIDE DEF row
  <2>4. channel' = channel /\ OthersTyped /\ RequestsFollow
    BY <1>2, SameRequests DEF TokenAges, OthersTyped, TypeInv, Typed
  <2> QED BY <2>1, <2>3, <2>4, Marks
<1>3. ASSUME NEW s \in Sessions, Crash(s)
      PROVE  TypeInv' /\ Follows /\ Reports
  <2>1. /\ UNCHANGED <<channel, conn, mirror, login, webhook, stop>>
        /\ request' = [request EXCEPT ![s] = Idle] /\ used' \in 0 .. MaxRequests
    BY <1>3, ConnectionsAssumption DEF Crash, TypeInv, Typed
  <2>2. RequestsFollow /\ OthersTyped
    BY <2>1, EndsStep DEF OthersTyped, TypeInv, Typed
  <2> QED BY <2>1, <2>2, NoRowWritten
<1> QED BY <1>1, <1>2, <1>3 DEF Environment

LEMMA Step ==
    ASSUME TypeInv, [Next]_vars
    PROVE  TypeInv' /\ Follows
<1>1. CASE UNCHANGED vars
  <2>1. channel' = channel /\ UNCHANGED conn /\ OthersTyped /\ RequestsFollow
    BY <1>1, SameRequests DEF vars, OthersTyped, TypeInv, Typed
  <2> QED BY <2>1, NoRowWritten
<1>2. CASE run_automatic_connection_check_cycle
  BY <1>2, ClaimInstagramStep, ClaimChannelStep, WorkerChecksStep, WorkerRefreshesStep
     DEF run_automatic_connection_check_cycle
<1> QED BY <1>1, <1>2, LoginNextStep, AccountNextStep, CheckNextStep, SettingsNextStep, EnvironmentStep
        DEF Next

LEMMA TypeAlways == Spec => []TypeInv
<1>1. TypeInv /\ [Next]_vars => TypeInv'
  BY Step
<1> QED BY <1>1, TypeInit, PTL DEF Spec

\* Every row, login and request keeps its type, whatever overtakes what.
THEOREM TypeCorrect == Spec => []TypeOK
<1>1. TypeInv => TypeOK
  BY RequestTyped DEF TypeInv, Typed, TypeOK, AllRows, Login
<1> QED BY <1>1, TypeAlways, PTL


-----------------------------------------------------------------------------
(* The account of the club's page                                          *)

\* What is under way for an Instagram page.
LEMMA PageRequests ==
    ASSUME TypeInv, TypeInv', Follows, Instagram, NEW s \in Sessions
    PROVE  /\ request[s].op \in {"idle", "login", "check", "refresh"}
           /\ request'[s].op \in {"idle", "login", "check", "refresh"}
           /\ request'[s].op \in {"check", "refresh"} => request'[s].row = Page
           /\ request[s].op \in {"check", "refresh"} => request[s].row = Page
<1>1. request[s].op \in Ops /\ Belongs(s)
  BY RequestTyped DEF Request
<1>2. request'[s].op \in Ops /\ Belongs(s)'
  <2>1. request'[s] \in Request
    BY DEF TypeInv, Typed
  <2> QED BY <2>1 DEF TypeInv, Request
<1>3. Instagram' /\ channel = "instagram" /\ channel' = "instagram"
  BY DEF Follows, Instagram
<1> QED BY <1>1, <1>2, <1>3 DEF Ops, Belongs, Rows, Instagram

LEMMA AccountStep ==
    ASSUME TypeInv, TypeInv', Follows, AccountInv
    PROVE  AccountInv'
<1> SUFFICES ASSUME Instagram PROVE AccountInv'
  BY DEF AccountInv, Instagram, Follows
<1> DEFINE p == conn[Page]
           q == conn'[Page]
<1>1. /\ p.token # None => p.token = p.account
      /\ p.mode # "off" => p.vouched = p.account
      /\ p.guided => p.status = "unconfigured"
      /\ p.guided \/ p.status = "none" =>
            /\ p.mode = "off" /\ p.token = None
            /\ \A s \in Sessions : request[s].op \in {"idle", "login"}
      /\ \A s \in Sessions :
            request[s].op = "refresh" => request[s].seen.token \in {None, p.account}
  BY DEF AccountInv
<1>2. RowFollows(Page)
  BY RowsAre DEF Follows
<1>3. /\ q.token # None => q.token = q.account
      /\ q.mode # "off" => q.vouched = q.account
      /\ q.guided => q.status = "unconfigured"
      /\ q.guided \/ q.status = "none" => q.mode = "off" /\ q.token = None
      /\ q.guided \/ q.status = "none" => p.guided \/ p.status = "none"
      /\ q.account = p.account \/ p.guided
  <2>1. CASE Reported(Page)
    <3>1. p.guided \/ p.status = "none" => q.status = p.status
      BY <1>1, <2>1 DEF Reported, StatusMoves, Known
    <3>2. q.status = "none" => p.status = "none"
      BY <2>1 DEF Reported, StatusMoves
    <3> QED BY <1>1, <2>1, <3>1, <3>2 DEF Reported, Identity, Choice
  <2>2. CASE Renews(Page)
    <3>1. ~p.guided /\ p.status # "none"
      BY <1>1, <2>2 DEF Renews
    <3> QED BY <1>1, <2>2, <3>1 DEF Renews, Choice
  <2>3. CASE Joined(Page)
    BY <1>1, <2>3 DEF Joined, Choice
  <2>4. CASE Switched(Page)
    BY <1>1, <2>4 DEF Switched, Identity
  <2>5. CASE Left(Page)
    BY <1>1, <2>5 DEF Left
  <2>6. CASE Opened(Page)
    BY <1>1, <2>6 DEF Opened, Choice
  <2> QED BY <1>2, <2>1, <2>2, <2>3, <2>4, <2>5, <2>6 DEF RowFollows
<1>4. ASSUME NEW s \in Sessions
      PROVE  /\ q.guided \/ q.status = "none" => request'[s].op \in {"idle", "login"}
             /\ request'[s].op = "refresh" => request'[s].seen.token \in {None, q.account}
  <2>1. CASE request'[s] = request[s]
    BY <1>1, <1>3, <2>1
  <2>2. CASE request'[s] = Idle
    BY <2>2, NoRowTyped
  <2>3. CASE Begun(s)
    BY <1>3, <2>3, PageRequests DEF Begun
  <2> QED BY <2>1, <2>2, <2>3 DEF Follows, RequestFollows
<1> HIDE DEF p
<1> QED BY <1>3, <1>4 DEF AccountInv

\* Once publishing is switched on for an account, only this account's token is
\* ever put under it: by no second login, no renewal and no check, whatever
\* happens between their questions and their answers.
THEOREM AccountStays == Spec => []SameAccount
<1>1. Init => AccountInv
  <2>1. Init => /\ conn[Page] = NoRow
                /\ \A s \in Sessions : request[s].op = "idle"
    BY RowsAre, NoRowTyped DEF Init, AllRows
  <2> QED BY <2>1 DEF AccountInv, NoRow
<1>2. TypeInv /\ AccountInv /\ [Next]_vars => AccountInv'
  BY Step, AccountStep
<1>3. AccountInv => SameAccount
  BY DEF AccountInv, SameAccount
<1> QED BY <1>1, <1>2, <1>3, TypeAlways, PTL DEF Spec

-----------------------------------------------------------------------------
(* Tokens                                                                  *)

LEMMA TokenStep ==
    ASSUME "refresh" \notin Perils, "check" \notin Perils, TypeInv, TypeInv', Follows, TokenInv
    PROVE  TokenInv'
<1>1. \A s \in Sessions :
          /\ request[s].op \in {"check", "activate"} /\ request[s].seen.status # "connected" =>
                conn[request[s].row].token # None
          /\ request[s].op = "refresh" =>
                conn[request[s].row].token # None /\ request[s].seen.token # None
  BY DEF TokenInv
<1>2. \A k \in AllRows : Left(k) => \A s \in Sessions : request[s].row = k =>
          /\ request[s].op # "refresh"
          /\ request[s].op \in {"check", "activate"} => request[s].seen.status = "connected"
  BY DEF Left, Undisturbed, Busy
<1>3. ASSUME NEW k \in AllRows
      PROVE  /\ conn'[k].status = "connected" => conn'[k].token # None
             /\ conn'[k].status = "disconnected" => conn'[k].token = None
             /\ conn[k].token # None => conn'[k].token # None \/ Left(k)
  <2>1. /\ conn[k].status = "connected" => conn[k].token # None
        /\ conn[k].status = "disconnected" => conn[k].token = None
    BY DEF TokenInv, Connected
  <2>2. CASE Reported(k)
    BY <1>1, <2>1, <2>2 DEF Reported, Identity, StatusMoves
  <2>3. CASE Renews(k)
    <3>1. PICK s \in Sessions : request[s].op = "refresh" /\ conn'[k].token = request[s].seen.token
      BY <2>3 DEF Renews
    <3>2. request[s].row = k
      BY <2>3, <3>1, RequestTyped DEF Renews, Belongs
    <3>3. conn'[k].token # None /\ conn[k].token # None
      BY <1>1, <3>1, <3>2
    <3> QED BY <2>1, <2>3, <3>3 DEF Renews
  <2>4. CASE Joined(k)
    BY <2>4, ConnectionsAssumption DEF Joined
  <2>5. CASE Switched(k)
    BY <2>1, <2>5 DEF Switched, Identity
  <2>6. CASE Left(k)
    BY <2>6 DEF Left
  <2>7. CASE Opened(k)
    BY <2>7 DEF Opened
  <2> QED BY <2>2, <2>3, <2>4, <2>5, <2>6, <2>7 DEF Follows, RowFollows
<1>4. ASSUME NEW s \in Sessions
      PROVE  /\ request'[s].op \in {"check", "activate"} /\ request'[s].seen.status # "connected" =>
                   conn'[request'[s].row].token # None
             /\ request'[s].op = "refresh" =>
                   conn'[request'[s].row].token # None /\ request'[s].seen.token # None
  <2>1. CASE request'[s] = request[s]
    BY <1>1, <1>2, <1>3, <2>1, RequestTyped
  <2>2. CASE request'[s] = Idle
    BY <2>2, NoRowTyped
  <2>3. CASE Begun(s)
    <3>1. request'[s].row \in AllRows
      BY DEF TypeInv, Typed, Request
    <3> QED BY <1>3, <2>3, <3>1 DEF Begun
  <2> QED BY <2>1, <2>2, <2>3 DEF Follows, RequestFollows
<1> QED BY <1>3, <1>4 DEF TokenInv, Connected

\* A connection that counts as connected has a token and a disconnected one
\* has none, on every kind of channel, as long as no renewal, and no check that
\* found the connection disturbed, is with the platform while it is
\* disconnected.
THEOREM TokensMatch ==
    ASSUME "refresh" \notin Perils, "check" \notin Perils
    PROVE  Spec => []TokenMatchesStatus
<1>1. Init => TokenInv
  <2>1. Init => /\ \A k \in AllRows : conn[k] = NoRow
                /\ \A s \in Sessions : request[s].op = "idle"
    BY NoRowTyped DEF Init, AllRows
  <2> QED BY <2>1 DEF TokenInv, NoRow, Connected
<1>2. TypeInv /\ TokenInv /\ [Next]_vars => TokenInv'
  BY Step, TokenStep
<1>3. TokenInv => TokenMatchesStatus
  BY RowsAre DEF TokenInv, TokenMatchesStatus
<1> QED BY <1>1, <1>2, <1>3, TypeAlways, PTL DEF Spec


-----------------------------------------------------------------------------
(* Logins                                                                  *)

\* Most steps leave the logins alone, and the requests about one.
LoginRequest(r) == r.op \in {"login", "select"}

Aside ==
    /\ UNCHANGED login
    /\ \A s \in Sessions : LoginRequest(request'[s]) => request'[s] = request[s]

LEMMA OneAside ==
    ASSUME TypeInv, UNCHANGED login, NEW s, NEW r, ~LoginRequest(r),
           request' = [request EXCEPT ![s] = r]
    PROVE  Aside
BY DEF Aside, TypeInv, Typed

LEMMA NoneAside == ASSUME UNCHANGED login, UNCHANGED request PROVE Aside
BY DEF Aside

LEMMA EndsAside ==
    ASSUME TypeInv, UNCHANGED login, NEW s, request' = [request EXCEPT ![s] = Idle]
    PROVE  Aside
BY OneAside, NoRowTyped DEF LoginRequest

LEMMA BeginsAside ==
    ASSUME TypeInv, UNCHANGED login, NEW s, NEW op, NEW k, NEW l, NEW a, Begins(s, op, k, l, a),
           op \notin {"login", "select"}
    PROVE  Aside
<1> DEFINE r == [op |-> op, row |-> k, seen |-> conn[k], ref |-> l, account |-> a]
<1>1. request' = [request EXCEPT ![s] = r]
  BY DEF Begins
<1>2. ~LoginRequest(r)
  BY DEF LoginRequest
<1> QED BY <1>1, <1>2, OneAside

LEMMA AccountAside == ASSUME TypeInv, AccountNext PROVE Aside
<1>1. ASSUME NEW a \in Accounts, complete_whatsapp_onboarding(a)
      PROVE  Aside
  BY <1>1, NoneAside DEF complete_whatsapp_onboarding, Quick
<1>2. ASSUME NEW b \in Browsers, \/ activate_existing_whatsapp_phone(b) \/ telegram_connect(b)
                                 \/ disconnect_telegram(b)
      PROVE  Aside
  BY <1>2, EndsAside DEF activate_existing_whatsapp_phone, telegram_connect, disconnect_telegram, Ends
<1>3. ASSUME NEW b \in Browsers, NEW a \in Accounts,
             ActivationBegins(b, a) \/ TelegramBegins(b, a) \/ DisconnectBegins(b, a)
      PROVE  Aside
  BY <1>3, BeginsAside DEF ActivationBegins, TelegramBegins, DisconnectBegins
<1> QED BY <1>1, <1>2, <1>3 DEF AccountNext

LEMMA CheckAside == ASSUME TypeInv, CheckNext PROVE Aside
<1>1. ASSUME NEW k \in Rows, CheckFailsAtOnce(k)
      PROVE  Aside
  BY <1>1, NoneAside DEF CheckFailsAtOnce, Quick
<1>2. ASSUME NEW b \in Browsers, check_connection(b) \/ refresh_connection(b)
      PROVE  Aside
  BY <1>2, EndsAside DEF check_connection, refresh_connection, Ends
<1>3. ASSUME NEW b \in Browsers, NEW k \in Rows, CheckBegins(b, k)
      PROVE  Aside
  BY <1>3, BeginsAside DEF CheckBegins
<1>4. ASSUME NEW b \in Browsers, RefreshBegins(b)
      PROVE  Aside
  BY <1>4, BeginsAside DEF RefreshBegins
<1> QED BY <1>1, <1>2, <1>3, <1>4 DEF CheckNext

LEMMA SettingsAside == ASSUME TypeInv, SettingsNext PROVE Aside
BY NoneAside DEF SettingsNext, channel_cards, disconnect, meta_emergency_stop, meta_settings,
   save_channel_settings, disconnect_channel, Quick

LEMMA WorkerAside == ASSUME TypeInv, run_automatic_connection_check_cycle PROVE Aside
<1>1. CASE ClaimInstagram
  BY <1>1, NoneAside, BeginsAside DEF ClaimInstagram
<1>2. ASSUME NEW k \in Rows, ClaimChannel(k)
      PROVE  Aside
  BY <1>2, BeginsAside DEF ClaimChannel
<1>3. CASE WorkerChecks
  <2> DEFINE r == [request[Worker] EXCEPT !.op = "refresh", !.seen = conn'[Page]]
  <2>1. \/ request' = [request EXCEPT ![Worker] = r]
        \/ request' = [request EXCEPT ![Worker] = Idle]
    BY <1>3 DEF WorkerChecks
  <2>2. r.op = "refresh"
    BY SessionsAre, RequestTyped DEF Request
  <2>3. ~LoginRequest(r) /\ UNCHANGED login
    BY <1>3, <2>2 DEF LoginRequest, WorkerChecks
  <2> HIDE DEF r
  <2> QED BY <2>1, <2>3, OneAside, EndsAside
<1>4. CASE WorkerRefreshes
  BY <1>4, EndsAside DEF WorkerRefreshes, Ends
<1> QED BY <1>1, <1>2, <1>3, <1>4 DEF run_automatic_connection_check_cycle

LEMMA EnvironmentAside == ASSUME TypeInv, Environment PROVE Aside
BY NoneAside, EndsAside DEF Environment, CheckInterval, TokenAges, Crash

LEMMA LoginSetupAside == ASSUME TypeInv, instagram_connect PROVE Aside
BY NoneAside DEF instagram_connect, Quick

\* A login whose use is not under way is opened, offered or turned down.
LEMMA StageStep ==
    ASSUME TypeInv, LoginInv, NEW l \in Logins, UNCHANGED request,
           NEW stage \in {"open", "chosen", "used"}, login' = [login EXCEPT ![l].stage = stage],
           \A s \in Sessions : LoginRequest(request[s]) /\ request[s].ref = l =>
              request[s].op = "select" /\ stage = "chosen",
           login[l].stage # "used"
    PROVE  LoginInv'
<1>1. login[l] \in Login /\ \A k \in Logins : login[k] \in Login
  BY DEF TypeInv, Typed
<1>2. login'[l].stage = stage /\ login'[l].made = login[l].made
      /\ \A k \in Logins : k # l => login'[k] = login[k]
  BY <1>1 DEF TypeInv, Typed, Login
<1>3. LoginOnce' /\ \A k \in Logins : login'[k].stage # "used" => login'[k].made = 0
  BY <1>2 DEF LoginInv, LoginOnce
<1>4. \A s \in Sessions :
          /\ request[s].op = "login" => login'[request[s].ref].stage = "open"
          /\ request[s].op = "select" => login'[request[s].ref].stage = "chosen"
  <2>1. \A s \in Sessions : LoginRequest(request[s]) => request[s].ref \in Logins
    BY RequestTyped DEF LoginRequest, Belongs
  <2> QED BY <1>2, <2>1 DEF LoginInv, LoginRequest
<1> QED BY <1>3, <1>4 DEF LoginInv

\* The use of a login begins: nobody else has begun it.
LEMMA UseBegins ==
    ASSUME TypeInv, LoginInv, NEW s \in Sessions, NEW op \in {"login", "select"}, NEW l \in Logins,
           NEW k, NEW a, Begins(s, op, k, l, a), UNCHANGED login,
           login[l].stage = IF op = "login" THEN "open" ELSE "chosen",
           \A t \in Sessions : ~(request[t].op = op /\ request[t].ref = l)
    PROVE  LoginInv'
<1> DEFINE r == [op |-> op, row |-> k, seen |-> conn[k], ref |-> l, account |-> a]
<1>1. request' = [request EXCEPT ![s] = r] /\ r.op = op /\ r.ref = l
  BY DEF Begins
<1> HIDE DEF r
<1>2. request'[s] = r /\ \A t \in Sessions : t # s => request'[t] = request[t]
  BY <1>1 DEF TypeInv, Typed
<1> QED BY <1>1, <1>2 DEF LoginInv, LoginOnce

\* The use of a login ends: it is used up, or nothing has happened.
LEMMA UseEnds ==
    ASSUME TypeInv, LoginInv, NEW s \in Sessions, LoginRequest(request[s]),
           request' = [request EXCEPT ![s] = Idle],
           LET l == request[s].ref IN
           \/ UNCHANGED login
           \/ login' = [login EXCEPT ![l].stage = "used"]
           \/ login' = [login EXCEPT ![l] = [stage |-> "used", made |-> @.made + 1]]
    PROVE  LoginInv'
<1> DEFINE l == request[s].ref
<1>1. l \in Logins /\ \A k \in Logins : login[k] \in Login
  BY RequestTyped DEF LoginRequest, Belongs, TypeInv, Typed
<1>2. /\ request'[s].op = "idle" /\ \A t \in Sessions : t # s => request'[t] = request[t]
  BY NoRowTyped DEF TypeInv, Typed
<1>3. login[l].made = 0 /\ login[l].stage # "used"
      /\ \A t \in Sessions : LoginRequest(request[t]) /\ request[t].ref = l => s = t
  BY <1>1 DEF LoginInv, LoginRequest
<1>4. /\ \A k \in Logins : k # l => login'[k] = login[k]
      /\ login'[l].made <= 1 /\ (login'[l].stage # "used" => login'[l] = login[l])
  BY <1>1, <1>3 DEF TypeInv, Typed, Login
<1>5. LoginOnce' /\ \A k \in Logins : login'[k].stage # "used" => login'[k].made = 0
  BY <1>1, <1>4 DEF LoginInv, LoginOnce
<1>6. \A t \in Sessions : LoginRequest(request'[t]) =>
          request'[t] = request[t] /\ request[t].ref \in Logins /\ request[t].ref # l
  BY <1>2, <1>3, RequestTyped DEF LoginRequest, Belongs
<1>7. \A t \in Sessions :
          /\ request'[t].op = "login" => login'[request'[t].ref].stage = "open"
          /\ request'[t].op = "select" => login'[request'[t].ref].stage = "chosen"
  BY <1>4, <1>6 DEF LoginInv, LoginRequest
<1>8. \A t, u \in Sessions :
          /\ request'[t].op \in {"login", "select"} /\ request'[u].op = request'[t].op
          /\ request'[u].ref = request'[t].ref
          => t = u
  BY <1>6 DEF LoginInv, LoginRequest
<1> QED BY <1>5, <1>7, <1>8 DEF LoginInv

LEMMA LoginsStep ==
    ASSUME "select" \notin Perils, TypeInv, LoginInv, [Next]_vars
    PROVE  LoginInv'
<1>1. CASE Aside
  BY <1>1 DEF Aside, LoginInv, LoginOnce, LoginRequest
<1>2. CASE UNCHANGED vars
  BY <1>1, <1>2, NoneAside DEF vars
<1>3. CASE AccountNext \/ CheckNext \/ SettingsNext \/ run_automatic_connection_check_cycle \/ Environment
  BY <1>1, <1>3, AccountAside, CheckAside, SettingsAside, WorkerAside, EnvironmentAside
<1>4. \A s \in Sessions : LoginRequest(request[s]) =>
          /\ s \in Browsers
          /\ request[s].op = "login" => Instagram /\ login[request[s].ref].stage = "open"
          /\ request[s].op = "select" =>
                channel = "facebook" /\ login[request[s].ref].stage = "chosen"
  BY RequestTyped DEF LoginInv, LoginRequest, Belongs
<1>5. ASSUME NEW l \in Logins, start_oauth(l)
      PROVE  LoginInv'
  <2>1. /\ login[l].stage = "none" /\ UNCHANGED request
        /\ login' = [login EXCEPT ![l].stage = "open"]
    BY <1>5 DEF start_oauth
  <2>2. \A s \in Sessions : ~(LoginRequest(request[s]) /\ request[s].ref = l)
    BY <1>4, <2>1 DEF LoginRequest
  <2> QED BY <2>1, <2>2, StageStep
<1>6. ASSUME NEW l \in Logins, reject_oauth(l)
      PROVE  LoginInv'
  <2>1. /\ login[l].stage = "open" /\ ~Held(l) /\ UNCHANGED request
        /\ login' = [login EXCEPT ![l].stage = "used"]
    BY <1>6 DEF reject_oauth, consume_oauth_state, Quick
  <2>2. \A s \in Sessions : ~(LoginRequest(request[s]) /\ request[s].ref = l)
    BY <1>4, <2>1 DEF Held, LoginRequest
  <2> QED BY <2>1, <2>2, StageStep
<1>7. ASSUME NEW l \in Logins, prepare_facebook_selection(l)
      PROVE  LoginInv'
  <2>1. /\ channel = "facebook" /\ login[l].stage \in {"open", "chosen"} /\ UNCHANGED request
        /\ login' = [login EXCEPT ![l].stage = "chosen"]
    BY <1>7 DEF prepare_facebook_selection, Quick
  <2>2. \A s \in Sessions : LoginRequest(request[s]) => request[s].op = "select"
    BY <1>4, <2>1 DEF LoginRequest, Instagram
  <2> QED BY <2>1, <2>2, StageStep
<1>8. ASSUME NEW b \in Browsers, NEW l \in Logins, OAuthBegins(b, l)
      PROVE  LoginInv'
  <2>1. PICK a \in Accounts : Begins(b, "login", Page, l, a)
    BY <1>8 DEF OAuthBegins
  <2>2. \A t \in Sessions : ~(request[t].op = "login" /\ request[t].ref = l)
    BY <1>4, <1>8 DEF OAuthBegins, consume_oauth_state, Held, LoginRequest
  <2>3. login[l].stage = "open" /\ UNCHANGED login
    BY <1>8 DEF OAuthBegins, consume_oauth_state
  <2> QED BY <2>1, <2>2, <2>3, SessionsAre, UseBegins
<1>9. ASSUME NEW b \in Browsers, NEW l \in Logins, SelectionBegins(b, l)
      PROVE  LoginInv'
  <2>1. PICK a \in Accounts : Begins(b, "select", a, l, a)
    BY <1>9 DEF SelectionBegins
  <2>2. \A t \in Sessions : ~(request[t].op = "select" /\ request[t].ref = l)
    BY <1>4, <1>9 DEF SelectionBegins, LoginRequest
  <2>3. login[l].stage = "chosen" /\ UNCHANGED login
    BY <1>9 DEF SelectionBegins
  <2> QED BY <2>1, <2>2, <2>3, SessionsAre, UseBegins
<1>10. ASSUME NEW b \in Browsers, complete_oauth(b) \/ complete_facebook_selection(b)
       PROVE  LoginInv'
  BY <1>10, SessionsAre, UseEnds
     DEF complete_oauth, complete_facebook_selection, Ends, LoginRequest
<1>11. CASE instagram_connect
  BY <1>1, <1>11, LoginSetupAside
<1>12. CASE LoginNext
  BY <1>5, <1>6, <1>7, <1>8, <1>9, <1>10, <1>11, <1>12 DEF LoginNext
<1> QED BY <1>2, <1>3, <1>12 DEF Next

\* A login connects at most one account, and the account that publishing was
\* switched on for stays, however many redirects and selections arrive at once
\* and whatever else is under way.  (A selection goes on with a state it read
\* before it locked it: two of one login at a time are what "select" admits.)
THEOREM LoginsBind ==
    ASSUME "select" \notin Perils
    PROVE  Spec => []LoginBinds
<1>1. Init => LoginInv
  <2>1. Init => /\ \A l \in Logins : login[l].made = 0
                /\ \A s \in Sessions : request[s].op = "idle"
    BY NoRowTyped DEF Init
  <2> QED BY <2>1 DEF LoginInv, LoginOnce
<1>2. TypeInv /\ LoginInv /\ [Next]_vars => LoginInv'
  BY LoginsStep
<1>3. LoginInv /\ SameAccount => LoginBinds
  BY DEF LoginInv, LoginBinds
<1> QED BY <1>1, <1>2, <1>3, AccountStays, TypeAlways, PTL DEF Spec


-----------------------------------------------------------------------------
(* Bots and their webhooks                                                 *)

BotRequest(r) == r.op \in {"connect", "leave"}

\* Most steps leave the webhooks alone, and the requests that set one.
BotsAside ==
    /\ UNCHANGED webhook /\ Reports
    /\ \A s \in Sessions : BotRequest(request'[s]) \/ BotRequest(request[s]) =>
          request'[s] = request[s]

BotStep ==
    \E b \in Browsers :
        \/ telegram_connect(b) \/ disconnect_telegram(b)
        \/ \E a \in Accounts : TelegramBegins(b, a) \/ DisconnectBegins(b, a)

LEMMA OthersRequest ==
    ASSUME TypeInv, NEW s \in Sessions, ~BotRequest(request[s]), NEW r, ~BotRequest(r),
           request' = [request EXCEPT ![s] = r], UNCHANGED webhook, Reports
    PROVE  BotsAside
BY DEF BotsAside, TypeInv, Typed

LEMMA NoRequest == ASSUME UNCHANGED <<request, webhook>>, Reports PROVE BotsAside
BY DEF BotsAside

LEMMA BotsStep ==
    ASSUME "telegram" \notin Perils, TypeInv, [Next]_vars, channel = "telegram"
    PROVE  BotsAside \/ BotStep
<1>1. ~Instagram /\ \A s \in Sessions :
          /\ request[s].op \notin {"login", "select", "activate", "refresh"}
          /\ ~BotRequest(Idle)
  BY RequestTyped, NoRowTyped DEF Instagram, Belongs, BotRequest
<1>2. UNCHANGED conn => Reports
  BY DEF Reports, Reported, Identity, Choice, Hook, StatusMoves
<1>3. CASE UNCHANGED vars
  BY <1>2, <1>3, NoRequest DEF vars
<1>4. ~LoginNext
  BY <1>1, SessionsAre DEF LoginNext, instagram_connect, start_oauth, reject_oauth,
     prepare_facebook_selection, OAuthBegins, SelectionBegins, complete_oauth,
     complete_facebook_selection
<1>5. AccountNext => BotStep
  BY <1>1, SessionsAre DEF AccountNext, BotStep, complete_whatsapp_onboarding,
     activate_existing_whatsapp_phone, ActivationBegins
<1>6. CASE CheckNext
  <2>1. ASSUME NEW k \in Rows, CheckFailsAtOnce(k)
        PROVE  BotsAside
    BY <2>1, FailsAtOnceStep, NoRequest DEF CheckFailsAtOnce, Quick
  <2>2. ASSUME NEW b \in Browsers, NEW k \in Rows, CheckBegins(b, k)
        PROVE  BotsAside
    <3> DEFINE r == [op |-> "check", row |-> k, seen |-> conn[k], ref |-> 0, account |-> None]
    <3>1. /\ request[b] = Idle /\ request' = [request EXCEPT ![b] = r]
          /\ UNCHANGED <<conn, webhook>>
      BY <2>2 DEF CheckBegins, Begins
    <3>2. ~BotRequest(r)
      BY DEF BotRequest
    <3> QED BY <1>1, <1>2, <3>1, <3>2, SessionsAre, OthersRequest
  <2>3. ASSUME NEW b \in Browsers, check_connection(b)
        PROVE  BotsAside
    <3>1. /\ request[b].op = "check" /\ request' = [request EXCEPT ![b] = Idle]
          /\ UNCHANGED webhook
      BY <2>3 DEF check_connection, Ends
    <3> QED BY <1>1, <2>3, <3>1, CheckStep, SessionsAre, OthersRequest DEF BotRequest
  <2>4. ASSUME NEW b \in Browsers, RefreshBegins(b) \/ refresh_connection(b)
        PROVE  FALSE
    BY <1>1, <2>4, SessionsAre DEF RefreshBegins, refresh_connection
  <2> QED BY <1>6, <2>1, <2>2, <2>3, <2>4 DEF CheckNext
<1>7. ~SettingsNext
  BY <1>1 DEF SettingsNext, channel_cards, disconnect, meta_emergency_stop, meta_settings,
     save_channel_settings, disconnect_channel
<1>8. CASE run_automatic_connection_check_cycle
  <2>1. WorkerChecks
    BY <1>1, <1>8, SessionsAre DEF run_automatic_connection_check_cycle, ClaimInstagram, ClaimChannel,
       WorkerRefreshes
  <2>2. /\ request[Worker].op = "check" /\ request' = [request EXCEPT ![Worker] = Idle]
        /\ UNCHANGED webhook
    BY <1>1, <2>1 DEF WorkerChecks
  <2> QED BY <1>1, <2>1, <2>2, WorkerChecksStep, SessionsAre, OthersRequest DEF BotRequest
<1>9. CASE Environment
  <2>1. ASSUME NEW k \in Rows, CheckInterval(k) \/ TokenAges(k)
        PROVE  BotsAside
    BY <1>9, <2>1, EnvironmentStep, NoRequest DEF CheckInterval, TokenAges
  <2>2. ASSUME NEW s \in Sessions, Crash(s)
        PROVE  BotsAside
    BY <1>1, <1>2, <2>2, OthersRequest DEF Crash, BotRequest
  <2> QED BY <1>9, <2>1, <2>2 DEF Environment
<1> QED BY <1>3, <1>4, <1>5, <1>6, <1>7, <1>8, <1>9 DEF Next


LEMMA HookAside ==
    ASSUME TypeInv, TypeInv', Follows, HookInv, channel = "telegram", BotsAside
    PROVE  HookInv'
<1>1. \A s \in Sessions, a \in Accounts : OnBot(s, a)' <=> OnBot(s, a)
  BY DEF BotsAside, BotRequest, OnBot
<1>2. \A s \in Sessions, a \in Accounts : OnBot(s, a) => request'[s] = request[s]
  BY DEF BotsAside, BotRequest, OnBot
<1>3. \A a \in Accounts : /\ conn'[a].live = conn[a].live /\ conn'[a].hook = conn[a].hook
                          /\ conn'[a].token = conn[a].token
  BY RowsAre DEF BotsAside, Reports, Reported, Hook, Identity
<1>4. \A a \in Accounts : conn'[a].status = "none" <=> conn[a].status = "none"
  <2> SUFFICES ASSUME NEW a \in Accounts PROVE conn'[a].status = "none" <=> conn[a].status = "none"
    OBVIOUS
  <2>1. StatusMoves(a)
    BY RowsAre DEF BotsAside, Reports, Reported
  <2>2. \A s \in Sessions : request[s].op = "check" /\ request[s].row = a => conn[a].status # "none"
    BY DEF HookInv
  <2>3. \A s \in Sessions : request[s].op \notin {"refresh", "activate"}
    BY RequestTyped DEF Belongs, Instagram
  <2>4. conn[a].token # None => conn[a].status # "none"
    BY DEF HookInv
  <2> QED BY <2>1, <2>2, <2>3, <2>4 DEF StatusMoves, Known
<1>5. ASSUME NEW s \in Sessions, request'[s].op = "check"
      PROVE  conn'[request'[s].row].status # "none"
  <2>1. request'[s].row \in Accounts
    BY <1>5 DEF TypeInv, Belongs, Rows, Instagram, Follows
  <2>2. CASE request'[s] = request[s]
    BY <1>4, <1>5, <2>1, <2>2 DEF HookInv
  <2>3. CASE request'[s] = Idle
    BY <1>5, <2>3, NoRowTyped
  <2>4. CASE Begun(s)
    BY <1>3, <1>4, <1>5, <2>1, <2>4 DEF Begun, HookInv
  <2> QED BY <2>2, <2>3, <2>4 DEF Follows, RequestFollows
<1>6. webhook' = webhook
  BY DEF BotsAside
<1>7. \A a \in Accounts : (\A s \in Sessions : ~OnBot(s, a)') =>
          webhook'[a] = IF conn'[a].live THEN conn'[a].hook ELSE 0
  BY <1>1, <1>3, <1>6 DEF HookInv
<1>8. \A s \in Sessions, a \in Accounts : OnBot(s, a)' =>
          /\ request'[s].op = "connect" =>
                /\ webhook'[a] = request'[s].ref
                /\ request'[s].seen.status = "none" => conn'[a].status = "none"
          /\ request'[s].op = "leave" => webhook'[a] = 0
          /\ \A t \in Sessions : OnBot(t, a)' => s = t
  BY <1>1, <1>2, <1>4, <1>6 DEF HookInv
<1> QED BY <1>3, <1>4, <1>5, <1>7, <1>8 DEF HookInv

\* A request on a bot begins: there is no other on it, and it has set the
\* webhook.
LEMMA HookBegins ==
    ASSUME TypeInv, HookInv, channel = "telegram", NEW b \in Browsers, NEW a \in Accounts,
           NEW op \in {"connect", "leave"}, NEW n, NEW w, Begins(b, op, a, n, a),
           \A s \in Browsers : ~BotRequest(request[s]) \/ request[s].row # a,
           webhook' = [webhook EXCEPT ![a] = w],
           op = "connect" => w = n, op = "leave" => w = 0,
           UNCHANGED <<channel, conn>>
    PROVE  HookInv'
<1> DEFINE r == [op |-> op, row |-> a, seen |-> conn[a], ref |-> n, account |-> a]
<1>1. /\ request' = [request EXCEPT ![b] = r] /\ request[b].op = "idle"
      /\ r.op = op /\ r.row = a /\ r.ref = n /\ r.seen = conn[a]
  BY NoRowTyped DEF Begins
<1> HIDE DEF r
<1>2. request'[b] = r /\ \A s \in Sessions : s # b => request'[s] = request[s]
  BY <1>1, SessionsAre DEF TypeInv, Typed
<1>3. webhook'[a] = w /\ \A x \in Accounts : x # a => webhook'[x] = webhook[x]
  BY DEF TypeInv, Typed
<1>4. \A s \in Sessions : ~OnBot(s, a)
  BY RequestTyped DEF OnBot, Belongs, BotRequest
<1>5. OnBot(b, a)' /\ \A s \in Sessions : OnBot(s, a)' => s = b
  BY <1>1, <1>2, <1>4 DEF OnBot
<1>6. \A s \in Sessions, x \in Accounts : x # a => (OnBot(s, x)' <=> OnBot(s, x))
  BY <1>1, <1>2 DEF OnBot
<1>7. \A x \in Accounts : (\A s \in Sessions : ~OnBot(s, x)') =>
          webhook'[x] = IF conn'[x].live THEN conn'[x].hook ELSE 0
  BY <1>3, <1>5, <1>6, SessionsAre DEF HookInv
<1>8. ASSUME NEW s \in Sessions, NEW x \in Accounts, OnBot(s, x)'
      PROVE  /\ request'[s].op = "connect" =>
                   /\ webhook'[x] = request'[s].ref
                   /\ request'[s].seen.status = "none" => conn'[x].status = "none"
             /\ request'[s].op = "leave" => webhook'[x] = 0
             /\ \A t \in Sessions : OnBot(t, x)' => s = t
  <2>1. CASE x = a
    BY <1>1, <1>2, <1>3, <1>5, <1>8, <2>1
  <2>2. CASE x # a
    <3>1. s # b /\ OnBot(s, x)
      BY <1>1, <1>2, <1>6, <1>8, <2>2 DEF OnBot
    <3> QED BY <1>2, <1>3, <1>6, <2>2, <3>1 DEF HookInv
  <2> QED BY <2>1, <2>2
<1>9. \A s \in Sessions : request'[s].op = "check" => conn'[request'[s].row].status # "none"
  BY <1>1, <1>2 DEF HookInv
<1> QED BY <1>7, <1>8, <1>9 DEF HookInv

\* A request on a bot ends: the row and the webhook agree again.
LEMMA HookEnds ==
    ASSUME TypeInv, HookInv, channel = "telegram", NEW b \in Sessions, NEW a \in Accounts, OnBot(b, a),
           request' = [request EXCEPT ![b] = Idle], UNCHANGED channel,
           \A x \in Accounts : x # a => conn'[x] = conn[x] /\ webhook'[x] = webhook[x],
           conn'[a].live => conn'[a].token # None /\ \A x \in Accounts : x # a => ~conn[x].live,
           conn'[a].token # None => conn'[a].status # "none",
           conn'[a].status = "none" => conn[a].status = "none",
           webhook'[a] = IF conn'[a].live THEN conn'[a].hook ELSE 0
    PROVE  HookInv'
<1>1. request'[b].op = "idle" /\ \A s \in Sessions : s # b => request'[s] = request[s]
  BY NoRowTyped DEF TypeInv, Typed
<1>2. \A s \in Sessions : OnBot(s, a) => s = b
  BY DEF HookInv
<1>3. \A s \in Sessions : ~OnBot(s, a)'
  BY <1>1, <1>2 DEF OnBot
<1>4. \A s \in Sessions, x \in Accounts : x # a => (OnBot(s, x)' <=> OnBot(s, x))
  BY <1>1 DEF OnBot
<1>5. \A x \in Accounts : (\A s \in Sessions : ~OnBot(s, x)') =>
          webhook'[x] = IF conn'[x].live THEN conn'[x].hook ELSE 0
  BY <1>4 DEF HookInv
<1>6. ASSUME NEW s \in Sessions, NEW x \in Accounts, OnBot(s, x)'
      PROVE  /\ request'[s].op = "connect" =>
                   /\ webhook'[x] = request'[s].ref
                   /\ request'[s].seen.status = "none" => conn'[x].status = "none"
             /\ request'[s].op = "leave" => webhook'[x] = 0
             /\ \A t \in Sessions : OnBot(t, x)' => s = t
  <2>1. x # a /\ s # b /\ OnBot(s, x)
    BY <1>1, <1>3, <1>4, <1>6 DEF OnBot
  <2> QED BY <1>1, <1>4, <2>1 DEF HookInv
<1>7. ASSUME NEW s \in Sessions, request'[s].op = "check"
      PROVE  conn'[request'[s].row].status # "none"
  <2>1. s # b /\ request'[s] = request[s] /\ request[s].row \in Accounts
    BY <1>1, <1>7, RequestTyped DEF Belongs, Rows, Instagram
  <2> QED BY <1>7, <2>1 DEF HookInv
<1>8. \A x, y \in Accounts : conn'[x].live /\ conn'[y].live => x = y
  BY DEF HookInv
<1>9. \A x \in Accounts : /\ conn'[x].live => conn'[x].token # None
                          /\ conn'[x].token # None => conn'[x].status # "none"
  BY DEF HookInv
<1> QED BY <1>5, <1>6, <1>7, <1>8, <1>9 DEF HookInv

LEMMA HookStep ==
    ASSUME "telegram" \notin Perils, TypeInv, TypeInv', Follows, HookInv, [Next]_vars
    PROVE  HookInv'
<1> SUFFICES ASSUME channel = "telegram" PROVE HookInv'
  BY DEF HookInv, Follows
<1>1. ASSUME NEW b \in Browsers, NEW a \in Accounts, TelegramBegins(b, a)
      PROVE  HookInv'
  <2>1. /\ Begins(b, "connect", a, used + 1, a) /\ webhook' = [webhook EXCEPT ![a] = used + 1]
        /\ UNCHANGED <<channel, conn>>
        /\ \A s \in Browsers : ~BotRequest(request[s]) \/ request[s].row # a
    BY <1>1 DEF TelegramBegins, BotRequest
  <2> QED BY <2>1, HookBegins
<1>2. ASSUME NEW b \in Browsers, NEW a \in Accounts, DisconnectBegins(b, a)
      PROVE  HookInv'
  <2>1. /\ Begins(b, "leave", a, 0, a) /\ UNCHANGED <<channel, conn>>
        /\ webhook' = [webhook EXCEPT ![a] = IF conn[a].token = None THEN webhook[a] ELSE 0]
        /\ \A s \in Browsers : ~BotRequest(request[s]) \/ request[s].row # a
    BY <1>2 DEF DisconnectBegins, BotRequest
  <2>2. conn[a].token = None => webhook[a] = 0
    <3>1. \A s \in Sessions : ~OnBot(s, a)
      BY <2>1, RequestTyped DEF OnBot, Belongs, BotRequest
    <3>2. conn[a].token = None => ~conn[a].live
      BY DEF HookInv
    <3> QED BY <3>1, <3>2 DEF HookInv
  <2>3. webhook' = [webhook EXCEPT ![a] = 0]
    BY <2>1, <2>2 DEF TypeInv, Typed
  <2> QED BY <2>1, <2>3, HookBegins
<1>3. ASSUME NEW b \in Browsers, telegram_connect(b)
      PROVE  HookInv'
  <2> DEFINE a == request[b].row
  <2>1. /\ b \in Sessions /\ a \in Accounts /\ OnBot(b, a) /\ request[b].op = "connect"
        /\ request' = [request EXCEPT ![b] = Idle] /\ UNCHANGED channel
    BY <1>3, SessionsAre, RequestTyped DEF telegram_connect, Ends, Belongs, OnBot
  <2>2. webhook[a] = request[b].ref
        /\ (request[b].seen.status = "none" => conn[a].status = "none")
    BY <2>1 DEF HookInv
  <2>3. CASE Refused(b)
    <3>1. webhook' = [webhook EXCEPT ![a] = 0] /\ UNCHANGED conn
      BY <1>3, <2>3 DEF telegram_connect, DeleteWebhook
    <3>2. ~conn[a].live
      BY <2>1, <2>2, <2>3 DEF Refused, HookInv
    <3>3. webhook'[a] = 0 /\ \A x \in Accounts : x # a => webhook'[x] = webhook[x]
      BY <2>1, <3>1 DEF TypeInv, Typed
    <3>4. conn[a].token # None => conn[a].status # "none"
      BY <2>1 DEF HookInv
    <3> HIDE DEF a
    <3> QED BY <2>1, <3>1, <3>2, <3>3, <3>4, HookEnds
  <2>4. CASE ~Refused(b)
    <3> DEFINE stored == Stored(conn[a], a)
               row == [stored EXCEPT !.off = FALSE, !.hook = request[b].ref]
    <3>1. conn' = [conn EXCEPT ![a] = row] /\ UNCHANGED webhook
      BY <1>3, <2>4 DEF telegram_connect
    <3>2. stored \in RowType /\ stored.live /\ stored.token = a /\ stored.status = "connected"
      BY <2>1, RowsAre, StoredRow
    <3> HIDE DEF stored
    <3>3. row.live /\ row.token = a /\ row.status = "connected" /\ row.hook = request[b].ref
      BY <3>2 DEF RowType
    <3> HIDE DEF row
    <3>4. conn'[a] = row /\ \A x \in Accounts : x # a => conn'[x] = conn[x]
      BY <2>1, <3>1, RowsAre DEF TypeInv, Typed
    <3>5. \A x \in Accounts : x # a => ~conn[x].live
      BY <2>4 DEF Refused
    <3>6. a # None
      BY <2>1, ConnectionsAssumption
    <3> HIDE DEF a
    <3>7. conn'[a].live /\ conn'[a].token # None /\ conn'[a].status # "none"
      <4>1. conn'[a].live
        BY <3>3, <3>4, Zenon
      <4>2. conn'[a].token # None /\ conn'[a].status # "none"
        BY <3>3, <3>4, <3>6
      <4> QED BY <4>1, <4>2
    <3>8. webhook'[a] = IF conn'[a].live THEN conn'[a].hook ELSE 0
      <4>1. webhook'[a] = conn'[a].hook
        BY <2>2, <3>1, <3>3, <3>4
      <4> QED BY <4>1, <3>7
    <3>9. \A x \in Accounts : x # a => conn'[x] = conn[x] /\ webhook'[x] = webhook[x]
      BY <3>1, <3>4
    <3>10. (conn'[a].live => conn'[a].token # None /\ \A x \in Accounts : x # a => ~conn[x].live)
           /\ (conn'[a].token # None => conn'[a].status # "none")
           /\ (conn'[a].status = "none" => conn[a].status = "none")
      BY <3>5, <3>7
    <3> QED BY <2>1, <3>8, <3>9, <3>10, HookEnds
  <2> QED BY <2>3, <2>4
<1>4. ASSUME NEW b \in Browsers, disconnect_telegram(b)
      PROVE  HookInv'
  <2> DEFINE a == request[b].row
             gone == Disconnected(conn[a])
             row == [gone EXCEPT !.live = FALSE, !.hook = 0]
  <2>1. /\ b \in Sessions /\ a \in Accounts /\ OnBot(b, a) /\ request[b].op = "leave"
        /\ request' = [request EXCEPT ![b] = Idle] /\ UNCHANGED <<channel, webhook>>
        /\ conn' = [conn EXCEPT ![a] = row]
    BY <1>4, SessionsAre, RequestTyped DEF disconnect_telegram, Ends, Belongs, OnBot
  <2>2. webhook[a] = 0
    BY <2>1 DEF HookInv
  <2>3. gone \in RowType /\ gone.token = None /\ gone.status = "disconnected"
    BY <2>1, RowsAre, DisconnectedRow
  <2> HIDE DEF gone
  <2>4. ~row.live /\ row.token = None /\ row.status = "disconnected"
    BY <2>3 DEF RowType
  <2> HIDE DEF row
  <2>5. conn'[a] = row /\ \A x \in Accounts : x # a => conn'[x] = conn[x]
    BY <2>1, RowsAre DEF TypeInv, Typed
  <2> HIDE DEF a
  <2> QED BY <2>1, <2>2, <2>4, <2>5, HookEnds
<1>5. BotStep => HookInv'
  BY <1>1, <1>2, <1>3, <1>4 DEF BotStep
<1> QED BY <1>5, BotsStep, HookAside

\* Unless a request on the bot is under way, its webhook is the one the row
\* knows, and there is none for a bot that is not connected: as long as
\* Telegram's answers are definite, no process dies between the webhook and the
\* row, and one request at a time is about the bot ("telegram" admits others).
THEOREM HooksMatch ==
    ASSUME "telegram" \notin Perils
    PROVE  Spec => []HookMatches
<1>1. Init => HookInv
  <2>1. Init => /\ \A a \in Accounts : conn[a] = NoRow /\ webhook[a] = 0
                /\ \A s \in Sessions : request[s].op = "idle"
    BY RowsAre, NoRowTyped DEF Init, AllRows
  <2> QED BY <2>1 DEF HookInv, NoRow, OnBot
<1>2. TypeInv /\ HookInv /\ [Next]_vars => HookInv'
  BY Step, HookStep
<1>3. HookInv => HookMatches
  BY NoRowTyped DEF HookInv, HookMatches, OnBot
<1> QED BY <1>1, <1>2, <1>3, TypeAlways, PTL DEF Spec

=============================================================================
