---------------------------- MODULE WalletSession ----------------------------
(***************************************************************************)
(* The wallet page (wallet_connect.js): one page that connects a wallet    *)
(* through a browser extension, a typed public key or a mobile wallet app, *)
(* keeps the session in localStorage and restores it on load.              *)
(*                                                                         *)
(* JavaScript runs one handler at a time up to its next await, so an       *)
(* action is one handler up to its await or to its end; what it waits for  *)
(* is a flight, and Answer is the rest of the handler.  Nothing ties an    *)
(* answer to what the user has done since.  Leaving or reloading the page  *)
(* ends every flight.                                                      *)
(*                                                                         *)
(* External: browser extensions, the wallet app, the authentication        *)
(* server; each of them answers or fails.                                  *)
(***************************************************************************)
EXTENDS Integers, FiniteSets

CONSTANTS
    Keys,           \* valid public keys
    None,
    Garbage,        \* a stored string that is no valid session
    Extensions,     \* desktop wallets of the registry
    Freighter,      \* the one of them with a silent restore
    Pages,          \* [mobile, storage, detected, markup, provider]
    MaxAttempts,    \* bound: flights started
    MaxLoads        \* bound: page loads

VALID_SOURCES == {"freighter", "manual", "mobile"}
Session == [key : Keys, source : VALID_SOURCES]

\* What a page finds: a phone or a desktop browser; localStorage that works, that
\* refuses to write, or that is not there; the injected extensions; the optional
\* markup; a Freighter provider, which the Freighter extension brings along.
Page == [mobile : BOOLEAN, storage : {"ok", "full", "none"}, detected : SUBSET Extensions,
         markup : BOOLEAN, provider : BOOLEAN]

ASSUME WalletAssumption ==
    /\ MaxAttempts \in Nat /\ MaxLoads \in Nat
    /\ None \notin Keys /\ None # Garbage
    /\ None \notin Session /\ Garbage \notin Session
    /\ Pages \subseteq Page
    /\ \A e \in Pages : Freighter \in e.detected => e.provider

VARIABLES
    page,           \* the page's surroundings, fixed
    where,          \* "up", or "away" in the wallet app
    url,            \* the return parameter: "none", "signed", "unsigned"
    stored,         \* localStorage under WALLET_SESSION_KEY
    connected,      \* the controller's flag
    screen,         \* one of Screens
    flights,        \* what is awaited
    announced,      \* what listeners of the wallet events were last told
    \* history: flights started, loads, the user did something since the load,
    \* signed out since, with a flight still out, a load has since then posted a
    \* signed return, connectWallet called over a session, signed returns, sessions
    \* they made
    attempts, loads, asked, out, late, posted, over, returns, returned

\* The screen: the button's label, which is disabled while it is connecting, the
\* key shown, and the dialogs.
Screens ==
    [button : {"Connect", "Reconnect", "Connecting", "Reconnecting", "Disconnect"},
     shown : Keys \cup {None}, picker : {"closed", "open", "chosen"},
     chooser : BOOLEAN, form : BOOLEAN]

Flight ==
    [n : 1..MaxAttempts, kind : {"restore", "connect", "return", "challenge"}, source : VALID_SOURCES]

sessionVars == <<stored, connected, screen, announced>>
userVars == <<asked, out, late, posted, over>>
countVars == <<loads, returns, returned>>
vars == <<page, where, url, sessionVars, flights, attempts, userVars, countVars>>

\* What an adapter's `connect`, the provider, the prompt or a session token gives:
\* a public key, something that is none, or a rejection.
Responses == Keys \cup {Garbage, None}
IsValidPublicKey(response) == response \in Keys

Busy == screen.button \in {"Connecting", "Reconnecting"}
Dialog == screen.picker # "closed" \/ screen.chooser \/ screen.form

-----------------------------------------------------------------------------
(* Storage *)

\* readSession also removes what it cannot use.
ReadSession == IF stored = Garbage THEN None ELSE stored

\* Mutant: what storage refuses is taken for stored.
WriteSessionAnyway(key, source) == [key |-> key, source |-> source]

WriteSession(key, source) ==
    IF page.storage = "ok" THEN [key |-> key, source |-> source] ELSE stored

\* Mutant: the saved session stays.
ClearSessionNot == stored

ClearSession == None

-----------------------------------------------------------------------------
(* The screen *)

ShowConnecting    == [screen EXCEPT !.button = "Connecting", !.shown = None]
ShowReconnecting  == [screen EXCEPT !.button = "Reconnecting", !.shown = None]
ShowConnected(key) ==
    [button |-> "Disconnect", shown |-> key, picker |-> "closed", chooser |-> FALSE, form |-> FALSE]
ShowDisconnected(reconnect) ==
    [button |-> IF reconnect THEN "Reconnect" ELSE "Connect", shown |-> None,
     picker |-> "closed", chooser |-> FALSE, form |-> FALSE]

\* The dialogs open over a busy button.
OpenWalletPicker  == [ShowConnecting EXCEPT !.picker = "open"]
OpenDesktopChooser == [ShowConnecting EXCEPT !.chooser = TRUE]
OpenManualForm    == [ShowConnecting EXCEPT !.form = TRUE]

Complete(key, source) ==
    /\ stored' = WriteSession(key, source)
    /\ connected' = TRUE
    /\ screen' = ShowConnected(key)
    /\ announced' = key

\* Mutant: the flag goes down and the screen stays.
FailQuietly ==
    /\ connected' = FALSE
    /\ UNCHANGED <<stored, screen, announced>>

\* Nobody is told that an earlier connection is gone.
Fail ==
    /\ stored' = ReadSession
    /\ connected' = FALSE
    /\ screen' = ShowDisconnected(ReadSession # None)
    /\ UNCHANGED announced

\* A failed restore offers to reconnect, whatever is stored by now.
RestoreFails ==
    /\ connected' = FALSE
    /\ screen' = ShowDisconnected(TRUE)
    /\ UNCHANGED <<stored, announced>>

TakeOff(kind, source) ==
    /\ attempts < MaxAttempts
    /\ attempts' = attempts + 1
    /\ flights' = flights \cup {[n |-> attempts', kind |-> kind, source |-> source]}

-----------------------------------------------------------------------------
(* initialize, on every load *)

\* Mutant: every saved session is restored.
RestorableAll(s) == s # None

\* Only a Freighter session is restored without asking.
Restorable(s) == s # None /\ s.source = "freighter"

Blank == ShowDisconnected(FALSE)

\* A fresh controller; a return from the wallet app comes before a saved session.
Load(u) ==
    /\ loads < MaxLoads
    /\ loads' = loads + 1
    /\ where' = "up" /\ url' = u
    /\ connected' = FALSE /\ announced' = None
    /\ asked' = FALSE /\ over' = FALSE /\ UNCHANGED <<out, late>>
    /\ posted' = (posted \/ u = "signed")
    /\ IF u # "none" THEN
            /\ attempts < MaxAttempts
            /\ attempts' = attempts + 1
            /\ flights' = {[n |-> attempts', kind |-> "return", source |-> "mobile"]}
            /\ screen' = [Blank EXCEPT !.button = "Reconnecting"]
            /\ UNCHANGED stored
       ELSE IF Restorable(ReadSession) THEN
            /\ attempts < MaxAttempts
            /\ attempts' = attempts + 1
            /\ flights' = {[n |-> attempts', kind |-> "restore", source |-> "freighter"]}
            /\ screen' = [Blank EXCEPT !.button = "Reconnecting"]
            /\ stored' = ReadSession
       ELSE
            /\ flights' = {}
            /\ screen' = ShowDisconnected(ReadSession # None)
            /\ stored' = ReadSession
            /\ UNCHANGED attempts
    /\ UNCHANGED page

Reload == where = "up" /\ Load(url) /\ UNCHANGED <<returns, returned>>

\* The wallet app opens the callback URL, with a signed challenge or without, or
\* the user comes back some other way.
Return(u) ==
    /\ where = "away"
    /\ Load(u)
    /\ returns' = returns + (IF u = "signed" THEN 1 ELSE 0)
    /\ UNCHANGED returned

-----------------------------------------------------------------------------
(* connect, disconnect, handleAction *)

FlightSource(w) == IF w = Freighter THEN "freighter" ELSE "manual"

ConnectMobile ==
    /\ screen' = OpenWalletPicker
    /\ UNCHANGED <<flights, attempts>>

\* The Freighter provider if there is one, and a prompt if not.
ConnectViaProvider ==
    /\ TakeOff("connect", IF page.provider THEN "freighter" ELSE "manual")
    /\ screen' = ShowConnecting

\* One extension is used at once, among several the user chooses, and without any
\* the user types a key; a page without the markup takes the first, or falls back.
ConnectDesktop ==
    LET several == Cardinality(page.detected) > 1
    IN  \/ /\ several /\ page.markup
           /\ screen' = OpenDesktopChooser
           /\ UNCHANGED <<flights, attempts>>
        \/ /\ page.detected = {} /\ page.markup
           /\ screen' = OpenManualForm
           /\ UNCHANGED <<flights, attempts>>
        \/ /\ ~several \/ ~page.markup
           /\ \E w \in page.detected : TakeOff("connect", FlightSource(w))
           /\ screen' = ShowConnecting
        \/ /\ page.detected = {} /\ ~page.markup
           /\ ConnectViaProvider

Connect ==
    /\ asked' = TRUE /\ out' = FALSE /\ late' = FALSE /\ posted' = FALSE
    /\ IF page.mobile /\ page.markup THEN ConnectMobile ELSE ConnectDesktop
    /\ UNCHANGED <<page, where, url, stored, connected, announced, countVars>>

Disconnect ==
    /\ connected' = FALSE
    /\ stored' = ClearSession
    /\ screen' = ShowDisconnected(FALSE)
    /\ announced' = None
    /\ asked' = TRUE /\ out' = TRUE /\ late' = (flights # {}) /\ posted' = FALSE
    /\ UNCHANGED <<page, where, url, flights, attempts, over, countVars>>

\* The button, while it is enabled.
HandleAction ==
    /\ where = "up" /\ ~Busy
    /\ \/ connected /\ Disconnect
       \/ ~connected /\ Connect /\ UNCHANGED over

\* window.connectWallet and window.disconnectWallet, which look at neither the
\* button nor the flag.
ConnectWallet ==
    /\ where = "up"
    /\ Connect
    /\ over' = (over \/ connected)

DisconnectWallet == where = "up" /\ Disconnect

-----------------------------------------------------------------------------
(* Dialogs *)

PickWallet ==
    /\ where = "up" /\ screen.picker = "open"
    /\ screen' = [screen EXCEPT !.picker = "chosen"]
    /\ UNCHANGED <<page, where, url, stored, connected, announced, flights, attempts, userVars, countVars>>

\* An account that is no public key is refused at once; the picker stays open
\* while the challenge is fetched, and can be confirmed again.
ConfirmPick ==
    /\ where = "up" /\ screen.picker = "chosen"
    /\ TakeOff("challenge", "mobile")
    /\ UNCHANGED <<page, where, url, sessionVars, userVars, countVars>>

\* The chooser stays open, too, and nothing remembers the choice.
ChooseExtension(w) ==
    /\ where = "up" /\ screen.chooser
    /\ w \in page.detected
    /\ TakeOff("connect", FlightSource(w))
    /\ UNCHANGED <<page, where, url, sessionVars, userVars, countVars>>

SubmitForm(key) ==
    /\ where = "up" /\ screen.form
    /\ Complete(key, "manual")
    /\ UNCHANGED <<page, where, url, flights, attempts, userVars, countVars>>

\* Mutant: the dialog closes and the button stays as it is.
CancelLeavesButton ==
    [ShowDisconnected(FALSE) EXCEPT !.button = screen.button]

CancelledScreen == ShowDisconnected(ReadSession # None)

\* Cancel of picker, chooser or form: flights are not recalled, `connected` stays.
CancelDialog ==
    /\ where = "up" /\ Dialog
    /\ screen' = CancelledScreen
    /\ stored' = ReadSession
    /\ UNCHANGED <<page, where, url, connected, announced, flights, attempts, userVars, countVars>>

-----------------------------------------------------------------------------
(* Answers *)

Landed(f) == flights' = flights \ {f}

\* finishDesktopWallet and connectViaProvider, after their await.
AnswerConnect(f, response) ==
    /\ f.kind = "connect"
    /\ Landed(f)
    /\ IF IsValidPublicKey(response) THEN Complete(response, f.source) ELSE Fail
    /\ UNCHANGED <<page, where, url, attempts, userVars, countVars>>

\* The key Freighter gives need not be the one that was saved.
AnswerRestore(f, response) ==
    /\ f.kind = "restore"
    /\ Landed(f)
    /\ IF page.provider /\ IsValidPublicKey(response) THEN Complete(response, "freighter")
       ELSE RestoreFails
    /\ UNCHANGED <<page, where, url, attempts, userVars, countVars>>

\* Mutant: the signed challenge stays in the address bar.
CleanedUrlNot == url

CleanedUrl == "none"

\* The server accepts the signed challenge with a token, which names an account or
\* not, or rejects it; a return without a signature never reaches the server.
AnswerReturn(f, response) ==
    /\ f.kind = "return"
    /\ url = "unsigned" => response = None
    /\ Landed(f)
    /\ url' = IF response = None THEN url ELSE CleanedUrl
    /\ IF IsValidPublicKey(response)
       THEN Complete(response, "mobile") /\ returned' = returned + 1
       ELSE Fail /\ UNCHANGED returned
    /\ UNCHANGED <<page, where, attempts, userVars, loads, returns>>

\* With the challenge the browser goes to the wallet app, unless it refuses to or
\* the fetch failed.
AnswerChallenge(f) ==
    /\ f.kind = "challenge"
    /\ \/ Landed(f) /\ UNCHANGED where
       \/ flights' = {} /\ where' = "away"
    /\ UNCHANGED <<page, url, sessionVars, attempts, userVars, countVars>>

Answer(n) ==
    /\ where = "up"
    /\ \E f \in flights :
        /\ f.n = n
        /\ \/ \E response \in Responses :
                AnswerConnect(f, response) \/ AnswerRestore(f, response) \/ AnswerReturn(f, response)
           \/ AnswerChallenge(f)

-----------------------------------------------------------------------------
\* Before the first load: a browser that may hold a session from before.
Init ==
    /\ page \in Pages
    /\ stored \in IF page.storage = "none" THEN {None} ELSE {None, Garbage} \cup Session
    /\ where = "away" /\ url = "none"
    /\ connected = FALSE /\ announced = None
    /\ screen = Blank
    /\ flights = {} /\ attempts = 0
    /\ loads = 0 /\ returns = 0 /\ returned = 0
    /\ asked = FALSE /\ out = FALSE /\ late = FALSE /\ posted = FALSE /\ over = FALSE

User ==
    \/ Reload
    \/ \E u \in {"none", "signed", "unsigned"} : Return(u)
    \/ HandleAction \/ ConnectWallet \/ DisconnectWallet
    \/ PickWallet \/ ConfirmPick \/ CancelDialog
    \/ \E w \in Extensions : ChooseExtension(w)
    \/ \E key \in Keys : SubmitForm(key)

Next == User \/ \E n \in 1..MaxAttempts : Answer(n)

\* Wallets and the server answer in the end, with a result or an error; the user
\* need not do anything.
Fairness == \A n \in 1..MaxAttempts : WF_vars(Answer(n))

Spec == Init /\ [][Next]_vars /\ Fairness

-----------------------------------------------------------------------------
(* Properties *)

TypeOK ==
    /\ page \in Pages
    /\ where \in {"up", "away"} /\ url \in {"none", "signed", "unsigned"}
    /\ stored \in Session \cup {None, Garbage}
    /\ page.storage = "none" => stored = None
    /\ connected \in BOOLEAN /\ announced \in Keys \cup {None}
    /\ screen \in Screens
    /\ flights \subseteq Flight
    /\ \A f \in flights : f.n <= attempts
    /\ attempts \in 0..MaxAttempts /\ loads \in 0..MaxLoads
    /\ returns \in Nat /\ returned \in Nat
    /\ asked \in BOOLEAN /\ out \in BOOLEAN /\ late \in BOOLEAN
    /\ posted \in BOOLEAN /\ over \in BOOLEAN

\* The key on the screen is the connected one, the one listeners were told and,
\* where storage works, the stored one, whatever answers come late or fail.  And
\* unless connectWallet was called over an existing session, an enabled button
\* says Disconnect exactly when a click disconnects.
\* (completeConnection, failConnection, disconnect, handleAction, createDomUi)
ScreenTellsTruth ==
    /\ screen.shown # None =>
        /\ connected /\ screen.button = "Disconnect" /\ announced = screen.shown
        /\ page.storage = "ok" => stored # None /\ stored # Garbage /\ stored.key = screen.shown
    /\ (where = "up" /\ ~over /\ ~Busy) => (screen.button = "Disconnect" <=> connected)

\* Once the user has disconnected with nothing awaited, no reload brings a session
\* back until the user connects again, with one exception: a load that finds a
\* signed return in the URL posts it and signs the user in again.  That may be the
\* return of an attempt that failed before the sign-out, which nothing but a
\* success removes from the URL.  So what is connected or stored after a sign-out
\* is a mobile session, and a load has posted a signed return since.
\* (disconnect, clearSession, initialize, handleMobileReturn, finishMobileReturn)
SignedOut ==
    (out /\ ~late) =>
        /\ (connected \/ screen.shown # None \/ stored # None) => posted
        /\ stored # None => stored.source = "mobile"

\* A signed challenge makes at most one session, although a reload while its
\* verification is out posts it again.  (handleMobileReturn, finishMobileReturn)
OneSessionPerReturn == returned <= returns

\* Loading a page never turns a typed or mobile session into one that the next
\* load restores silently: that takes something the user does.
\* (initialize, restoreFreighterAddress)
NoSilentUpgrade ==
    [][(stored \in Session /\ stored.source # "freighter" /\ ~asked)
        => (stored' \notin Session \/ stored'.source # "freighter" \/ asked')]_vars

\* A disabled button with no dialog to leave does not stay so: the page is
\* waiting for an answer, and every answer enables the button or leaves the page.
\* (connect, finishDesktopWallet, failConnection, finishMobileReturn)
Waiting == where = "up" /\ Busy /\ ~Dialog
BusyEnds == Waiting ~> ~Waiting
=============================================================================
