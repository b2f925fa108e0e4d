---------------------------- MODULE Connections ----------------------------
(* A club's connections to its social-media accounts: the login with Meta, the
   choice of a Facebook page, WhatsApp onboarding, the Telegram bot, the checks
   by administrators and by the worker, the renewal of tokens, settings and
   disconnecting (app/meta/oauth.py, app/meta/connection_health.py,
   app/channels).  Every request that asks the platform keeps the copy of the
   row it read: the answer is written over whatever happened meanwhile, but
   only the columns whose value differs from that copy.
   The rows of the four kinds of channel share nothing, so a behaviour is about
   one kind: Instagram has one row, its page with its connection; of the others
   there is one row for each account. *)
EXTENDS Naturals, FiniteSets

CONSTANTS
    Accounts, None,         \* accounts on the platform (pages, numbers, bots)
    Page,                   \* the club's Instagram page
    Browsers, Worker,       \* administrators' requests and the connection check
    Logins,                 \* login states that can be issued (numbers)
    Kinds,                  \* the kinds of channel looked at
    MaxRequests,            \* bound: requests, checks by the worker and crashes
    Perils                  \* what may happen besides; see Undisturbed

ASSUME ConnectionsAssumption ==
    /\ None \notin Accounts /\ Page \notin Accounts /\ Worker \notin Browsers
    /\ MaxRequests \in Nat /\ Logins \subseteq Nat
    /\ Kinds \subseteq {"instagram", "facebook", "whatsapp", "telegram"}
    /\ Perils \subseteq {"refresh", "check", "select", "telegram"}

VARIABLES
    channel,    \* the kind of channel this behaviour is about
    conn,       \* the rows of the connections (of Instagram: with the page's)
    mirror,     \* the Instagram connection's status in social_channel_connections
    login,      \* the login states and (ghost) the connections made with each
    request,    \* the request each browser and the worker are carrying out
    webhook,    \* at Telegram: the identifier each bot's webhook names, 0 for none
    stop,       \* the emergency stop
    used        \* bound

vars == <<channel, conn, mirror, login, request, webhook, stop, used>>

Rows == IF channel = "instagram" THEN {Page} ELSE Accounts
Sessions == Browsers \cup {Worker}
NoRow ==
    [status |-> "none", token |-> None, account |-> None, mode |-> "off", live |-> FALSE,
     off |-> FALSE, checked |-> FALSE, leased |-> FALSE, life |-> "long",
     guided |-> FALSE, vouched |-> None, registered |-> FALSE, hook |-> 0]
Idle == [op |-> "idle", row |-> Page, seen |-> NoRow, ref |-> 0, account |-> None]

Busy(op, k) == \E s \in Sessions : request[s].op = op /\ request[s].row = k
Begins(s, op, k, l, a) ==
    /\ request[s] = Idle
    /\ s \in Browsers => used < MaxRequests
    /\ used' = IF s \in Browsers THEN used + 1 ELSE used
    /\ request' = [request EXCEPT ![s] = [op |-> op, row |-> k, seen |-> conn[k], ref |-> l, account |-> a]]
Ends(s) == request' = [request EXCEPT ![s] = Idle] /\ UNCHANGED used
Quick == used < MaxRequests /\ used' = used + 1 /\ UNCHANGED request

\* mutant
WholeRow(s, new) == new
(* The status a request writes over the one it has read. *)
Over(s, new) == IF new = request[s].seen.status THEN conn[request[s].row].status ELSE new
(* What the runs without perils leave out: a disconnect or a new login while a
   renewal, or a check that found the connection disturbed, is with Meta. *)
Undisturbed(k) ==
    /\ "refresh" \in Perils \/ ~Busy("refresh", k)
    /\ "check" \in Perils \/ \A s \in Sessions :
          ~(request[s].op \in {"check", "activate"} /\ request[s].row = k /\ request[s].seen.status # "connected")

Instagram == channel = "instagram"
Connected(k) == conn[k].status = "connected"
-----------------------------------------------------------------------------
(* Instagram: the login *)

(* The guided setup creates a placeholder page; a name is given by the login. *)
instagram_connect ==
    /\ Instagram /\ conn[Page].status = "none" /\ Quick
    /\ conn' = [conn EXCEPT ![Page].status = "unconfigured", ![Page].guided = TRUE]
    /\ UNCHANGED <<channel, mirror, login, webhook, stop>>

start_oauth(l) ==
    /\ channel \in {"instagram", "facebook"} /\ login[l].stage = "none"
    /\ Instagram => conn[Page].status # "none"
    /\ login' = [login EXCEPT ![l].stage = "open"]
    /\ UNCHANGED <<channel, conn, mirror, request, webhook, stop, used>>

(* The state's row is locked before it is looked at, and the lock is held until
   the login has been stored. *)
Held(l) == \E b \in Browsers : request[b].op = "login" /\ request[b].ref = l
\* mutant
Unlocked(l) == login[l].stage = "open"
consume_oauth_state(l) == login[l].stage = "open" /\ ~Held(l)

reject_oauth(l) ==
    /\ Instagram /\ consume_oauth_state(l) /\ Quick
    /\ login' = [login EXCEPT ![l].stage = "used"]
    /\ UNCHANGED <<channel, conn, mirror, webhook, stop>>

OAuthBegins(b, l) ==
    /\ Instagram /\ consume_oauth_state(l)
    /\ \E a \in Accounts : Begins(b, "login", Page, l, a)
    /\ UNCHANGED <<channel, conn, mirror, login, webhook, stop>>

(* Only the placeholder of a guided setup takes any account; the page is read
   after Meta has answered. *)
RightAccount(b) == conn[Page].guided \/ conn[Page].account = request[b].account

complete_oauth(b) ==
    /\ request[b].op = "login" /\ Undisturbed(Page)
    /\ LET l == request[b].ref  a == request[b].account IN
       \/ /\ RightAccount(b)
          /\ conn' = [conn EXCEPT ![Page] =
                [@ EXCEPT !.status = "connected", !.token = a, !.account = a, !.off = FALSE,
                          !.checked = TRUE, !.leased = TRUE, !.life = "long", !.guided = FALSE]]
          /\ login' = [login EXCEPT ![l] = [stage |-> "used", made |-> @.made + 1]]
       \/ login' = [login EXCEPT ![l].stage = "used"] /\ UNCHANGED conn
    /\ Ends(b)
    /\ UNCHANGED <<channel, mirror, webhook, stop>>
-----------------------------------------------------------------------------
(* Facebook: the login offers the pages, one of which is then chosen *)

prepare_facebook_selection(l) ==
    /\ channel = "facebook" /\ login[l].stage \in {"open", "chosen"} /\ Quick
    /\ login' = [login EXCEPT ![l].stage = "chosen"]
    /\ UNCHANGED <<channel, conn, mirror, webhook, stop>>

(* The route has read the state before it locks it, and the lock does not
   refresh that copy. *)
SelectionBegins(b, l) ==
    /\ channel = "facebook" /\ login[l].stage = "chosen"
    /\ "select" \in Perils \/ \A c \in Browsers : ~(request[c].op = "select" /\ request[c].ref = l)
    /\ \E a \in Accounts : Begins(b, "select", a, l, a)
    /\ UNCHANGED <<channel, conn, mirror, login, webhook, stop>>

(* A row that had been disconnected keeps its disconnected_at. *)
Stored(r, a) ==
    [r EXCEPT !.status = "connected", !.token = a, !.account = a, !.live = TRUE, !.mode = "off",
              !.checked = TRUE, !.life = "long"]

complete_facebook_selection(b) ==
    /\ request[b].op = "select" /\ Undisturbed(request[b].row)
    /\ \/ /\ conn' = [conn EXCEPT ![request[b].row] = Stored(@, request[b].account)]
          /\ login' = [login EXCEPT ![request[b].ref] = [stage |-> "used", made |-> @.made + 1]]
       \/ UNCHANGED <<conn, login>>
    /\ Ends(b)
    /\ UNCHANGED <<channel, mirror, webhook, stop>>
-----------------------------------------------------------------------------
(* WhatsApp *)

complete_whatsapp_onboarding(a) ==
    /\ channel = "whatsapp" /\ Undisturbed(a) /\ Quick
    /\ conn' = [conn EXCEPT ![a] = [Stored(@, a) EXCEPT !.registered = TRUE]]
    /\ UNCHANGED <<channel, mirror, login, webhook, stop>>

(* Older connections have not been registered. *)
ActivationBegins(b, a) ==
    /\ channel = "whatsapp" /\ conn[a].token # None
    /\ Begins(b, "activate", a, 0, a)
    /\ UNCHANGED <<channel, conn, mirror, login, webhook, stop>>

activate_existing_whatsapp_phone(b) ==
    /\ request[b].op = "activate"
    /\ \/ conn' = [conn EXCEPT ![request[b].row] =
             [@ EXCEPT !.status = Over(b, "connected"), !.registered = TRUE, !.checked = TRUE,
                       !.live = request[b].seen.live => conn[request[b].row].live]]
       \/ UNCHANGED conn
    /\ Ends(b)
    /\ UNCHANGED <<channel, mirror, login, webhook, stop>>
-----------------------------------------------------------------------------
(* Telegram: the bot's webhook is replaced before the row is written *)

OtherBot(a) == \E x \in Accounts \ {a} : conn[x].live /\ conn[x].status # "disconnected"

TelegramBegins(b, a) ==
    /\ channel = "telegram" /\ ~OtherBot(a)
    /\ "telegram" \in Perils \/ \A s \in Browsers : request[s].op = "idle" \/ request[s].row # a
    /\ Begins(b, "connect", a, used + 1, a)
    /\ webhook' = [webhook EXCEPT ![a] = used + 1]
    /\ UNCHANGED <<channel, conn, mirror, login, stop>>

(* uq_social_channel_telegram_active_club: a second active bot, or a row
   inserted meanwhile, makes the commit fail. *)
Refused(b) ==
    LET a == request[b].row IN
    \/ \E x \in Accounts \ {a} : conn[x].live
    \/ request[b].seen.status = "none" /\ conn[a].status # "none"

\* mutant
WebhookLeft(a) == UNCHANGED webhook
DeleteWebhook(a) == webhook' = [webhook EXCEPT ![a] = 0]

telegram_connect(b) ==
    /\ request[b].op = "connect"
    /\ LET a == request[b].row IN
       \/ /\ Refused(b)
          /\ DeleteWebhook(a)
          /\ UNCHANGED conn
       \/ /\ ~Refused(b)
          /\ conn' = [conn EXCEPT ![a] =
                [Stored(@, a) EXCEPT !.off = FALSE, !.hook = request[b].ref]]
          /\ UNCHANGED webhook
       \/ "telegram" \in Perils /\ UNCHANGED <<conn, webhook>>    \* not confirmed
    /\ Ends(b)
    /\ UNCHANGED <<channel, mirror, login, stop>>

DisconnectBegins(b, a) ==
    /\ channel = "telegram" /\ conn[a].status # "none"
    /\ "telegram" \in Perils \/ \A s \in Browsers : request[s].op \notin {"connect", "leave"} \/ request[s].row # a
    /\ Begins(b, "leave", a, 0, a)
    /\ \/ webhook' = [webhook EXCEPT ![a] = IF conn[a].token = None THEN @ ELSE 0]
       \/ "telegram" \in Perils /\ UNCHANGED webhook
    /\ UNCHANGED <<channel, conn, mirror, login, stop>>
-----------------------------------------------------------------------------
(* Checks and renewals *)

(* Without a token the check fails before it asks the platform; a WhatsApp
   number that has not been registered is sent back to the setup. *)
CheckFailsAtOnce(k) ==
    /\ conn[k].status \notin {"none", "unconfigured"} /\ Quick
    /\ \/ conn[k].token = None /\ conn' = [conn EXCEPT ![k].status = "error", ![k].checked = TRUE, ![k].leased = Instagram]
       \/ /\ channel = "whatsapp" /\ conn[k].token # None /\ ~conn[k].registered
          /\ conn' = [conn EXCEPT ![k].status = "setup_required", ![k].checked = TRUE]
    /\ UNCHANGED <<channel, mirror, login, webhook, stop>>

CheckBegins(b, k) ==
    /\ conn[k].token # None
    /\ channel = "whatsapp" => conn[k].registered
    /\ Begins(b, "check", k, 0, None)
    /\ UNCHANGED <<channel, conn, mirror, login, webhook, stop>>

Checked(s, new) ==
    conn' = [conn EXCEPT ![request[s].row] =
        [@ EXCEPT !.status = Over(s, new), !.checked = TRUE, !.leased = Instagram]]
Answers(s) ==      \* the platform still knows the token; Telegram: and has the webhook
    /\ conn[request[s].row].life # "expired"
    /\ channel = "telegram" => webhook[request[s].row] = request[s].seen.hook

check_connection(b) ==
    /\ request[b].op = "check"
    /\ (Answers(b) /\ Checked(b, "connected")) \/ Checked(b, "error")
    /\ Ends(b)
    /\ UNCHANGED <<channel, mirror, login, webhook, stop>>

RefreshBegins(b) ==
    /\ Instagram /\ conn[Page].token # None
    /\ Begins(b, "refresh", Page, 0, None)
    /\ UNCHANGED <<channel, conn, mirror, login, webhook, stop>>

Renewed(s) ==
    /\ conn[Page].life # "expired"
    /\ conn' = [conn EXCEPT ![Page] =
          [@ EXCEPT !.token = request[s].seen.token, !.status = Over(s, "connected"), !.life = "long", !.checked = TRUE]]

refresh_connection(b) ==
    /\ request[b].op = "refresh"
    /\ Renewed(b) \/ UNCHANGED conn
    /\ Ends(b)
    /\ UNCHANGED <<channel, mirror, login, webhook, stop>>
-----------------------------------------------------------------------------
(* The worker's connection check *)

\* mutant
DueWhileValid(k) ==
    conn[k].live /\ conn[k].token # None /\ ~conn[k].off /\ ~conn[k].checked /\ conn[k].life # "expired"
Due(k) == conn[k].live /\ conn[k].token # None /\ ~conn[k].off /\ ~conn[k].checked

(* _claim_due_connections: the page's last_check_at is a lease of five minutes;
   a connection that is known to have expired is not sent to Meta. *)
ClaimInstagram ==
    /\ Instagram /\ Due(Page) /\ ~conn[Page].leased
    /\ \/ conn[Page].life # "expired" /\ Begins(Worker, "check", Page, 0, None)
          /\ conn' = [conn EXCEPT ![Page].leased = TRUE]
       \/ conn[Page].life = "expired" /\ request[Worker] = Idle /\ UNCHANGED <<request, used>>
          /\ conn' = [conn EXCEPT ![Page].leased = TRUE, ![Page].checked = TRUE, ![Page].status = "error"]
    /\ UNCHANGED <<channel, mirror, login, webhook, stop>>

(* _claim_due_channel_connections: the row's own last_check_at is the claim. *)
ClaimChannel(k) ==
    /\ channel \in {"facebook", "whatsapp"} /\ Due(k)
    /\ Begins(Worker, "check", k, 0, None)
    /\ conn' = [conn EXCEPT ![k].checked = TRUE]
    /\ UNCHANGED <<channel, mirror, login, webhook, stop>>

TokenRefreshDue == Connected(Page) /\ conn[Page].life = "soon" /\ ~stop

WorkerChecks ==
    /\ request[Worker].op = "check"
    /\ \/ Answers(Worker) /\ Checked(Worker, "connected")
       \/ Instagram /\ Checked(Worker, "error")
       \/ ~Instagram /\ conn' = [conn EXCEPT ![request[Worker].row].status = "error"]     \* read again
    /\ request' = [request EXCEPT ![Worker] =
          IF Instagram /\ conn'[Page].status = "connected" /\ TokenRefreshDue
          THEN [@ EXCEPT !.op = "refresh", !.seen = conn'[Page]] ELSE Idle]
    /\ UNCHANGED <<channel, mirror, login, webhook, stop, used>>

WorkerRefreshes ==
    /\ request[Worker].op = "refresh"
    /\ Renewed(Worker) \/ conn' = [conn EXCEPT ![Page].status = "error", ![Page].checked = TRUE, ![Page].leased = TRUE]
    /\ Ends(Worker)
    /\ UNCHANGED <<channel, mirror, login, webhook, stop>>
-----------------------------------------------------------------------------
(* Settings and disconnecting *)

channel_cards ==        \* viewing the channels copies the Instagram connection
    /\ Instagram /\ mirror # conn[Page].status
    /\ mirror' = conn[Page].status
    /\ UNCHANGED <<channel, conn, login, request, webhook, stop, used>>

Modes == {"off", "manual", "automatic"}
SetMode(k, m) ==
    conn' = [conn EXCEPT ![k] =
        [@ EXCEPT !.mode = m, !.live = Instagram \/ conn[k].live, !.vouched = IF m = "off" THEN None ELSE conn[k].account]]

(* Two forms for Instagram: that of its page looks at the connection, that of
   the channels at the copy made when they were last viewed. *)
meta_settings(m) ==
    /\ Instagram /\ conn[Page].status \notin {"none", "unconfigured"}
    /\ m # "off" => Connected(Page)
    /\ Quick /\ SetMode(Page, m)
    /\ UNCHANGED <<channel, mirror, login, webhook, stop>>

save_channel_settings(k, m) ==
    /\ channel # "telegram" /\ conn[k].status \notin {"none", "unconfigured"}
    /\ m # "off" => IF Instagram THEN mirror = "connected" ELSE Connected(k)
    /\ (channel = "whatsapp" /\ m # "off") => conn[k].registered
    /\ Quick /\ SetMode(k, m)
    /\ UNCHANGED <<channel, mirror, login, webhook, stop>>

Disconnected(r) ==
    [r EXCEPT !.status = "disconnected", !.token = None, !.off = TRUE, !.mode = "off", !.vouched = None]

disconnect ==           \* of Instagram, from the page or from the channels
    /\ Instagram /\ conn[Page].status \notin {"none", "unconfigured"} /\ Undisturbed(Page) /\ Quick
    /\ conn' = [conn EXCEPT ![Page] = Disconnected(@)]
    /\ mirror' \in {mirror, "disconnected"}
    /\ UNCHANGED <<channel, login, webhook, stop>>

disconnect_channel(k) ==
    /\ channel \in {"facebook", "whatsapp"} /\ conn[k].status # "none" /\ Undisturbed(k) /\ Quick
    /\ conn' = [conn EXCEPT ![k] = [Disconnected(@) EXCEPT !.live = FALSE]]
    /\ UNCHANGED <<channel, mirror, login, webhook, stop>>

disconnect_telegram(b) ==
    /\ request[b].op = "leave" /\ Undisturbed(request[b].row)
    /\ conn' = [conn EXCEPT ![request[b].row] = [Disconnected(@) EXCEPT !.live = FALSE, !.hook = 0]]
    /\ Ends(b)
    /\ UNCHANGED <<channel, mirror, login, webhook, stop>>

meta_emergency_stop ==
    /\ Instagram /\ Quick /\ stop' = ~stop
    /\ UNCHANGED <<channel, conn, mirror, login, webhook>>
-----------------------------------------------------------------------------
(* Time and crashes *)

(* The interval between checks (and with it the lease) has passed. *)
CheckInterval(k) ==
    /\ conn[k].checked \/ conn[k].leased
    /\ conn' = [conn EXCEPT ![k].checked = FALSE, ![k].leased = FALSE]
    /\ UNCHANGED <<channel, mirror, login, request, webhook, stop, used>>

(* Fourteen days before it expires a token may be renewed. *)
TokenAges(k) ==
    /\ Instagram /\ conn[k].token # None /\ conn[k].life # "expired"
    /\ conn' = [conn EXCEPT ![k].life = IF @ = "long" THEN "soon" ELSE "expired"]
    /\ UNCHANGED <<channel, mirror, login, request, webhook, stop, used>>

(* A crash rolls back, and with it the state's use; the webhook stays. *)
Crash(s) ==
    /\ request[s] # Idle /\ used < MaxRequests
    /\ request[s].op \in {"connect", "leave"} => "telegram" \in Perils
    /\ used' = used + 1
    /\ request' = [request EXCEPT ![s] = Idle]
    /\ UNCHANGED <<channel, conn, mirror, login, webhook, stop>>

Init ==
    /\ channel \in Kinds
    /\ conn = [k \in Accounts \cup {Page} |-> NoRow]
    /\ mirror = "none"
    /\ login = [l \in Logins |-> [stage |-> "none", made |-> 0]]
    /\ request = [s \in Sessions |-> Idle]
    /\ webhook = [a \in Accounts |-> 0]
    /\ stop = FALSE /\ used = 0

LoginNext ==
    \/ instagram_connect
    \/ \E l \in Logins :
          \/ start_oauth(l) \/ reject_oauth(l) \/ prepare_facebook_selection(l)
          \/ \E b \in Browsers : OAuthBegins(b, l) \/ SelectionBegins(b, l)
    \/ \E b \in Browsers : complete_oauth(b) \/ complete_facebook_selection(b)
AccountNext ==
    \/ \E a \in Accounts : complete_whatsapp_onboarding(a)
    \/ \E b \in Browsers :
          \/ activate_existing_whatsapp_phone(b) \/ telegram_connect(b) \/ disconnect_telegram(b)
          \/ \E a \in Accounts : ActivationBegins(b, a) \/ TelegramBegins(b, a) \/ DisconnectBegins(b, a)
CheckNext ==
    \/ \E k \in Rows : CheckFailsAtOnce(k) \/ \E b \in Browsers : CheckBegins(b, k)
    \/ \E b \in Browsers : check_connection(b) \/ RefreshBegins(b) \/ refresh_connection(b)
SettingsNext ==
    \/ channel_cards \/ disconnect \/ meta_emergency_stop
    \/ \E m \in Modes : meta_settings(m) \/ \E k \in Rows : save_channel_settings(k, m)
    \/ \E k \in Rows : disconnect_channel(k)
run_automatic_connection_check_cycle ==
    ClaimInstagram \/ (\E k \in Rows : ClaimChannel(k)) \/ WorkerChecks \/ WorkerRefreshes
Environment ==
    \/ \E k \in Rows : CheckInterval(k) \/ TokenAges(k)
    \/ \E s \in Sessions : Crash(s)

Next == LoginNext \/ AccountNext \/ CheckNext \/ SettingsNext \/ run_automatic_connection_check_cycle \/ Environment

Spec == Init /\ [][Next]_vars
FairSpec ==
    /\ Spec
    /\ WF_vars(run_automatic_connection_check_cycle)
    /\ WF_vars(\E k \in Rows : CheckInterval(k))
-----------------------------------------------------------------------------
Statuses == {"none", "unconfigured", "setup_required", "connected", "error", "disconnected"}
RowType ==
    [status : Statuses, token : Accounts \cup {None}, account : Accounts \cup {None}, mode : Modes,
     live : BOOLEAN, off : BOOLEAN, checked : BOOLEAN, leased : BOOLEAN, life : {"long", "soon", "expired"},
     guided : BOOLEAN, vouched : Accounts \cup {None}, registered : BOOLEAN, hook : 0 .. MaxRequests]

(* Every row, login and request has its type. *)
TypeOK ==
    /\ channel \in Kinds
    /\ conn \in [Accounts \cup {Page} -> RowType]
    /\ mirror \in Statuses
    /\ login \in [Logins -> [stage : {"none", "open", "chosen", "used"}, made : Nat]]
    /\ \A s \in Sessions : request[s].seen \in RowType /\ request[s].ref \in Nat
    /\ webhook \in [Accounts -> 0 .. MaxRequests]
    /\ stop \in BOOLEAN /\ used \in 0 .. MaxRequests

(* A login state connects at most one account, however often and however close
   to each other Meta's redirect or the selection of a page is sent. *)
LoginOnce == \A l \in Logins : login[l].made <= 1

(* Publishing that an administrator has switched on stays with the account it
   was switched on for: no second login of the setup, and no renewal, puts
   another account's token under it. *)
SameAccount ==
    Instagram /\ conn[Page].mode # "off" /\ conn[Page].token # None =>
        conn[Page].token = conn[Page].vouched /\ conn[Page].account = conn[Page].vouched

(* A login connects once, and never a live page to another account. *)
LoginBinds == LoginOnce /\ SameAccount

(* A connection that counts as connected (and is offered for publishing) has
   a token, and one that was disconnected has none: no check and no renewal
   brings it back when the platform's answer comes after the disconnect. *)
TokenMatchesStatus ==
    \A k \in Rows :
        /\ Connected(k) => conn[k].token # None
        /\ conn[k].status = "disconnected" => conn[k].token = None

(* Unless a request on the bot is under way, Telegram delivers to the webhook
   the row knows, and to none when the bot is not connected. *)
HookMatches ==
    channel = "telegram" => \A a \in Accounts :
        (\A s \in Sessions : request[s] = Idle \/ request[s].row # a) =>
            webhook[a] = IF conn[a].live THEN conn[a].hook ELSE 0

(* A page that publishes with an expired session does not go on counting as
   connected: the worker's check gets round to it even when it is restarted. *)
ExpiryNoticed ==
    (Instagram /\ conn[Page].mode # "off" /\ Connected(Page) /\ conn[Page].life = "expired") ~>
        (~Connected(Page) \/ conn[Page].mode = "off" \/ conn[Page].life # "expired")
=============================================================================
