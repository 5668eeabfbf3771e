------------------------- MODULE WalletSessionProofs -------------------------
(***************************************************************************)
(* Theorems about the wallet page, for any keys, extensions, surroundings  *)
(* and bounds that satisfy WalletAssumption.                               *)
(***************************************************************************)
EXTENDS WalletSession, TLAPS

\* Dialogs stand over a disabled button; what the screen shows is true; the
\* button and the flag go together as long as nobody connects over a session.
ScreenInv ==
    /\ Dialog => Busy
    /\ screen.shown # None =>
        /\ connected /\ screen.button = "Disconnect" /\ announced = screen.shown
        /\ page.storage = "ok" => stored # None /\ stored # Garbage /\ stored.key = screen.shown
    /\ ~over => (screen.button = "Disconnect" <=> connected)

\* Signed out with nothing awaited, nothing but a signed return could bring a
\* session back, and that one is a mobile session.
OutInv ==
    (out /\ ~late) =>
        /\ ~posted => ~connected /\ screen.shown = None /\ stored = None
        /\ ~posted => flights = {} \/ url = "unsigned"
        /\ stored # None => stored.source = "mobile"
        /\ \A f \in flights : f.kind = "return"
        /\ ~Dialog

\* A return not yet verified is still owed a session, by one flight at most.
ReturnInv ==
    /\ returned <= returns
    /\ url = "signed" => returned < returns
    /\ \A f \in flights : f.kind = "return" => url # "none"
    /\ \A f, g \in flights : (f.kind = "return" /\ g.kind = "return") => g = f

PageInv == TypeOK /\ ScreenInv /\ OutInv /\ ReturnInv

-----------------------------------------------------------------------------
(* The screens *)

LEMMA ScreenTypes ==
  ASSUME screen \in Screens
  PROVE  /\ ShowConnecting \in Screens /\ ShowReconnecting \in Screens
         /\ OpenWalletPicker \in Screens /\ OpenDesktopChooser \in Screens /\ OpenManualForm \in Screens
         /\ \A k \in Keys : ShowConnected(k) \in Screens
         /\ \A r \in BOOLEAN : ShowDisconnected(r) \in Screens
         /\ [Blank EXCEPT !.button = "Reconnecting"] \in Screens
  BY DEF Screens, ShowConnecting, ShowReconnecting, OpenWalletPicker, OpenDesktopChooser,
         OpenManualForm, ShowConnected, ShowDisconnected, Blank

LEMMA ScreenFields ==
  ASSUME screen \in Screens
  PROVE  /\ ShowConnecting.button = "Connecting" /\ ShowConnecting.shown = None
         /\ OpenWalletPicker.button = "Connecting" /\ OpenWalletPicker.shown = None
         /\ OpenDesktopChooser.button = "Connecting" /\ OpenDesktopChooser.shown = None
         /\ OpenManualForm.button = "Connecting" /\ OpenManualForm.shown = None
         /\ [Blank EXCEPT !.button = "Reconnecting"].button = "Reconnecting"
         /\ [Blank EXCEPT !.button = "Reconnecting"].shown = None
  BY DEF Screens, ShowConnecting, OpenWalletPicker, OpenDesktopChooser, OpenManualForm,
         ShowDisconnected, Blank

\* Every handler leaves one of these three screens behind, or only moves a dialog.
Disconnected(s) ==
    /\ s.shown = None /\ s.button \in {"Connect", "Reconnect"}
    /\ s.picker = "closed" /\ s.chooser = FALSE /\ s.form = FALSE

LEMMA DisconnectedFields == \A r \in BOOLEAN : Disconnected(ShowDisconnected(r))
  BY DEF Disconnected, ShowDisconnected

-----------------------------------------------------------------------------
(* Types *)

LEMMA WriteType ==
  ASSUME TypeOK, NEW k \in Keys, NEW src \in VALID_SOURCES
  PROVE  /\ WriteSession(k, src) \in Session \cup {None, Garbage}
         /\ page.storage = "none" => WriteSession(k, src) = None
         /\ page.storage = "ok" =>
              /\ WriteSession(k, src) # None /\ WriteSession(k, src) # Garbage
              /\ WriteSession(k, src).key = k
<1>1. [key |-> k, source |-> src] \in Session
  BY DEF Session
<1>2. [key |-> k, source |-> src] # None /\ [key |-> k, source |-> src] # Garbage
  BY <1>1, WalletAssumption
<1>. QED
  BY <1>1, <1>2 DEF WriteSession, TypeOK

LEMMA ReadType ==
  ASSUME TypeOK
  PROVE  /\ ReadSession \in Session \cup {None}
         /\ page.storage = "none" => ReadSession = None
         /\ stored \in Session \/ stored = None => ReadSession = stored
         /\ (ReadSession # None) \in BOOLEAN
  BY WalletAssumption DEF ReadSession, TypeOK

LEMMA CompleteStep ==
  ASSUME TypeOK, NEW k \in Keys, NEW src \in VALID_SOURCES, Complete(k, src), UNCHANGED page
  PROVE  /\ stored' \in Session \cup {None, Garbage} /\ (page'.storage = "none" => stored' = None)
         /\ connected' = TRUE /\ announced' = k /\ screen' \in Screens
         /\ screen'.shown = k /\ screen'.button = "Disconnect" /\ ~Dialog'
         /\ page'.storage = "ok" => stored' # None /\ stored' # Garbage /\ stored'.key = k
<1>1. screen' \in Screens
  BY ScreenTypes DEF Complete, TypeOK, Screens
<1>2. screen'.shown = k /\ screen'.button = "Disconnect" /\ ~Dialog'
  BY DEF Complete, ShowConnected, Dialog
<1>. QED
  BY <1>1, <1>2, WriteType DEF Complete

LEMMA FailStep ==
  ASSUME TypeOK, Fail \/ RestoreFails, UNCHANGED page
  PROVE  /\ stored' \in Session \cup {None, Garbage} /\ (page'.storage = "none" => stored' = None)
         /\ connected' = FALSE /\ announced' = announced /\ screen' \in Screens
         /\ Disconnected(screen')
<1>1. CASE Fail
  BY <1>1, ScreenTypes, DisconnectedFields, ReadType DEF Fail, TypeOK, Screens
<1>2. CASE RestoreFails
  BY <1>2, ScreenTypes, DisconnectedFields DEF RestoreFails, TypeOK, Screens
<1>. QED
  BY <1>1, <1>2

LEMMA TakeOffStep ==
  ASSUME TypeOK, NEW kind \in {"connect", "challenge"}, NEW src \in VALID_SOURCES, TakeOff(kind, src)
  PROVE  /\ flights' \subseteq Flight /\ attempts' \in 0..MaxAttempts
         /\ \A f \in flights' : f.n <= attempts'
         /\ \A f \in flights' : f.kind = "return" => f \in flights
<1>. DEFINE new == [n |-> attempts + 1, kind |-> kind, source |-> src]
<1>1. attempts \in Nat /\ MaxAttempts \in Nat /\ attempts + 1 <= MaxAttempts
  BY WalletAssumption DEF TypeOK, TakeOff
<1>2. attempts' = attempts + 1 /\ flights' = flights \cup {new}
  BY DEF TakeOff
<1>3. new \in Flight /\ new.n = attempts' /\ new.kind # "return"
  BY <1>1, <1>2 DEF Flight
<1>4. \A f \in flights : f \in Flight /\ f.n <= attempts
  BY DEF TypeOK, Flight
<1>5. \A f \in flights : f.n \in Int
  BY <1>4, WalletAssumption DEF Flight
<1>6. \A f \in flights : f.n <= attempts'
  BY <1>1, <1>2, <1>4, <1>5
<1>7. attempts' \in 0..MaxAttempts
  BY <1>1, <1>2
<1>8. attempts' <= attempts'
  BY <1>1, <1>2
<1>. QED
  BY <1>2, <1>3, <1>4, <1>6, <1>7, <1>8

-----------------------------------------------------------------------------
(* Loading *)

\* The flights a load starts with: none, or the one it has just begun.
LEMMA LoadFlights ==
  ASSUME TypeOK, NEW u \in {"none", "signed", "unsigned"}, Load(u)
  PROVE  /\ attempts' \in 0..MaxAttempts
         /\ flights' \subseteq Flight /\ \A f \in flights' : f.n <= attempts'
         /\ \A f \in flights' : f.kind = "return" => url' # "none"
         /\ \A f, g \in flights' : g = f
<1>1. attempts \in 0..MaxAttempts /\ MaxAttempts \in Nat
  BY WalletAssumption DEF TypeOK
<1>2. CASE flights' = {} /\ UNCHANGED attempts
  BY <1>1, <1>2
<1>3. ASSUME NEW kind \in {"return", "restore"}, NEW src \in VALID_SOURCES,
             attempts < MaxAttempts, attempts' = attempts + 1,
             flights' = {[n |-> attempts', kind |-> kind, source |-> src]},
             kind = "return" => u # "none"
      PROVE  /\ attempts' \in 0..MaxAttempts
             /\ flights' \subseteq Flight /\ \A f \in flights' : f.n <= attempts'
             /\ \A f \in flights' : f.kind = "return" => url' # "none"
             /\ \A f, g \in flights' : g = f
  <2>1. attempts' \in 1..MaxAttempts /\ attempts' \in 0..MaxAttempts /\ attempts' <= attempts'
    BY <1>1, <1>3
  <2>2. url' = u
    BY DEF Load
  <2>3. [n |-> attempts', kind |-> kind, source |-> src] \in Flight
    BY <2>1 DEF Flight
  <2>. QED
    BY <1>3, <2>1, <2>2, <2>3
<1>4. "mobile" \in VALID_SOURCES /\ "freighter" \in VALID_SOURCES
  BY DEF VALID_SOURCES
<1>. QED
  BY <1>2, <1>3, <1>4 DEF Load

LEMMA LoadStep ==
  ASSUME PageInv, NEW u \in {"none", "signed", "unsigned"}, Load(u),
         returned' = returned, returns' \in Nat, returns' >= returns,
         u = "signed" => returned < returns'
  PROVE  PageInv'
<1>1. /\ TypeOK /\ page' = page /\ url' = u /\ where' = "up" /\ connected' = FALSE
      /\ announced' = None /\ over' = FALSE /\ asked' = FALSE /\ late' = late
      /\ out' = out /\ posted' = (posted \/ u = "signed") /\ loads' = loads + 1 /\ loads < MaxLoads
  BY DEF PageInv, Load
<1>2. /\ stored' \in Session \cup {None, Garbage} /\ (page.storage = "none" => stored' = None)
      /\ stored' = stored \/ stored' = None
  BY <1>1, ReadType DEF Load, TypeOK, ReadSession
<1>3. \/ screen' = [Blank EXCEPT !.button = "Reconnecting"]
      \/ screen' = ShowDisconnected(TRUE) \/ screen' = ShowDisconnected(FALSE)
  BY <1>1, ReadType DEF Load
<1>4. screen' \in Screens /\ screen'.shown = None /\ screen'.button # "Disconnect" /\ ~Dialog'
  <2>1. [Blank EXCEPT !.button = "Reconnecting"].picker = "closed"
        /\ [Blank EXCEPT !.button = "Reconnecting"].chooser = FALSE
        /\ [Blank EXCEPT !.button = "Reconnecting"].form = FALSE
    BY DEF Blank, ShowDisconnected
  <2>2. screen \in Screens
    BY <1>1 DEF TypeOK, Screens
  <2>3. CASE screen' = [Blank EXCEPT !.button = "Reconnecting"]
    BY <2>1, <2>2, <2>3, ScreenTypes, ScreenFields DEF Dialog
  <2>4. ASSUME NEW r \in BOOLEAN, screen' = ShowDisconnected(r)
        PROVE  screen' \in Screens /\ screen'.shown = None /\ screen'.button # "Disconnect" /\ ~Dialog'
    BY <2>2, <2>4, ScreenTypes, DisconnectedFields DEF Dialog, Disconnected
  <2>. QED
    BY <1>3, <2>3, <2>4
<1>5. loads' \in 0..MaxLoads
  BY <1>1, WalletAssumption DEF TypeOK
<1>6. TypeOK'
  <2>1. /\ returned \in Nat /\ returns' \in Nat /\ out \in BOOLEAN /\ late \in BOOLEAN
        /\ posted' \in BOOLEAN
    BY <1>1 DEF TypeOK
  <2>2. attempts' \in 0..MaxAttempts /\ flights' \subseteq Flight /\ \A f \in flights' : f.n <= attempts'
    BY <1>1, LoadFlights
  <2>3. page' \in Pages /\ (page'.storage = "none" => stored' = None)
    BY <1>1, <1>2 DEF TypeOK
  <2>. QED
    BY <1>1, <1>2, <1>4, <1>5, <2>1, <2>2, <2>3 DEF TypeOK, Screens, Flight
<1>7. ScreenInv'
  BY <1>1, <1>4 DEF ScreenInv
<1>8. OutInv'
  <2>1. SUFFICES ASSUME out, ~late PROVE OutInv'
    BY <1>1 DEF OutInv
  <2>2. stored # None => stored.source = "mobile"
    BY <2>1 DEF PageInv, OutInv
  <2>3. stored' # None => stored'.source = "mobile"
    BY <1>2, <2>2
  <2>4. ~Restorable(ReadSession)
    BY <2>2, WalletAssumption DEF ReadSession, Restorable
  <2>5. /\ \A f \in flights' : f.kind = "return"
        /\ u = "none" => flights' = {}
    BY <2>4 DEF Load
  <2>6. ~posted' => u # "signed" /\ stored = None
    BY <1>1, <2>1 DEF PageInv, OutInv
  <2>. QED
    BY <1>1, <1>2, <1>4, <2>3, <2>5, <2>6 DEF OutInv
<1>9. ReturnInv'
  <2>1. returned <= returns'
    <3>1. returned <= returns /\ returned \in Nat /\ returns \in Nat
      BY DEF PageInv, ReturnInv, TypeOK
    <3>. QED
      BY <3>1
  <2>. QED
    BY <1>1, <2>1, LoadFlights DEF ReturnInv
<1>. QED
  BY <1>6, <1>7, <1>8, <1>9 DEF PageInv

LEMMA ReloadStep == ASSUME PageInv, Reload PROVE PageInv'
<1>1. url \in {"none", "signed", "unsigned"} /\ returns \in Nat /\ returned \in Nat
  BY DEF PageInv, TypeOK
<1>2. Load(url) /\ returned' = returned /\ returns' = returns
  BY DEF Reload
<1>3. url = "signed" => returned < returns'
  BY <1>2 DEF PageInv, ReturnInv
<1>4. returns' >= returns
  BY <1>1, <1>2
<1>. QED
  BY <1>1, <1>2, <1>3, <1>4, LoadStep

LEMMA ReturnStep ==
  ASSUME PageInv, NEW u \in {"none", "signed", "unsigned"}, Return(u) PROVE PageInv'
<1>1. returns \in Nat /\ returned \in Nat /\ returned <= returns
  BY DEF PageInv, TypeOK, ReturnInv
<1>2. Load(u) /\ returned' = returned /\ returns' = returns + (IF u = "signed" THEN 1 ELSE 0)
  BY DEF Return
<1>3. returns' \in Nat /\ returns' >= returns /\ (u = "signed" => returned < returns')
  BY <1>1, <1>2
<1>. QED
  BY <1>2, <1>3, LoadStep

-----------------------------------------------------------------------------
(* Connecting, disconnecting, dialogs *)

LEMMA ConnectStep ==
  ASSUME PageInv, Connect, over' = over \/ over' = (over \/ connected),
         ~over' => ~connected
  PROVE  PageInv'
<1>1. /\ TypeOK /\ UNCHANGED <<page, where, url, stored, connected, announced, loads, returns, returned>>
      /\ asked' = TRUE /\ out' = FALSE /\ late' = FALSE /\ posted' = FALSE /\ over' \in BOOLEAN
  BY DEF PageInv, Connect, countVars, TypeOK
<1>2. screen \in Screens
  BY <1>1 DEF TypeOK
<1>3. screen' \in {ShowConnecting, OpenWalletPicker, OpenDesktopChooser, OpenManualForm}
  BY DEF Connect, ConnectMobile, ConnectDesktop, ConnectViaProvider
<1>4. screen' \in Screens /\ screen'.shown = None /\ screen'.button = "Connecting"
  BY <1>2, <1>3, ScreenTypes, ScreenFields
<1>5. /\ flights' \subseteq Flight /\ attempts' \in 0..MaxAttempts
      /\ \A f \in flights' : f.n <= attempts'
      /\ \A f \in flights' : f.kind = "return" => f \in flights
  <2>1. CASE UNCHANGED <<flights, attempts>>
    BY <1>1, <2>1 DEF TypeOK
  <2>2. ASSUME NEW src \in VALID_SOURCES, TakeOff("connect", src)
        PROVE  /\ flights' \subseteq Flight /\ attempts' \in 0..MaxAttempts
               /\ \A f \in flights' : f.n <= attempts'
               /\ \A f \in flights' : f.kind = "return" => f \in flights
    BY <1>1, <2>2, TakeOffStep
  <2>3. /\ \A w : FlightSource(w) \in VALID_SOURCES
        /\ (IF page.provider THEN "freighter" ELSE "manual") \in VALID_SOURCES
    BY DEF FlightSource, VALID_SOURCES
  <2>. QED
    BY <2>1, <2>2, <2>3 DEF Connect, ConnectMobile, ConnectDesktop, ConnectViaProvider
<1>6. TypeOK'
  BY <1>1, <1>4, <1>5 DEF TypeOK
<1>7. ScreenInv'
  BY <1>1, <1>4 DEF ScreenInv, Busy
<1>8. OutInv' /\ ReturnInv'
  BY <1>1, <1>5 DEF PageInv, OutInv, ReturnInv
<1>. QED
  BY <1>6, <1>7, <1>8 DEF PageInv

LEMMA DisconnectStep == ASSUME PageInv, Disconnect PROVE PageInv'
<1>1. /\ TypeOK /\ UNCHANGED <<page, where, url, flights, attempts, over, loads, returns, returned>>
      /\ connected' = FALSE /\ stored' = None /\ announced' = None
      /\ asked' = TRUE /\ out' = TRUE /\ late' = (flights # {}) /\ posted' = FALSE
  BY DEF PageInv, Disconnect, countVars, ClearSession
<1>2. screen' \in Screens /\ Disconnected(screen')
  BY <1>1, ScreenTypes, DisconnectedFields DEF Disconnect, TypeOK
<1>3. TypeOK'
  BY <1>1, <1>2 DEF TypeOK
<1>4. ScreenInv' /\ OutInv' /\ ReturnInv'
  BY <1>1, <1>2 DEF PageInv, ScreenInv, OutInv, ReturnInv, Disconnected, Dialog
<1>. QED
  BY <1>3, <1>4 DEF PageInv

LEMMA ActionStep == ASSUME PageInv, HandleAction PROVE PageInv'
<1>1. CASE connected /\ Disconnect
  BY <1>1, DisconnectStep
<1>2. CASE ~connected /\ Connect /\ UNCHANGED over
  BY <1>2, ConnectStep
<1>. QED
  BY <1>1, <1>2 DEF HandleAction

LEMMA PublicStep == ASSUME PageInv, ConnectWallet \/ DisconnectWallet PROVE PageInv'
<1>1. CASE ConnectWallet
  BY <1>1, ConnectStep DEF ConnectWallet
<1>2. CASE DisconnectWallet
  BY <1>2, DisconnectStep DEF DisconnectWallet
<1>. QED
  BY <1>1, <1>2

\* A step that only moves a dialog along, or starts a flight from one.
LEMMA DialogStep ==
  ASSUME PageInv, Dialog, Dialog',
         UNCHANGED <<page, where, url, stored, connected, announced, userVars, countVars>>,
         screen' \in Screens, screen'.button = screen.button, screen'.shown = screen.shown,
         flights' \subseteq Flight, attempts' \in 0..MaxAttempts,
         \A f \in flights' : f.n <= attempts',
         \A f \in flights' : f.kind = "return" => f \in flights
  PROVE  PageInv'
<1>1. TypeOK'
  BY DEF PageInv, TypeOK, userVars, countVars
<1>2. ScreenInv'
  BY DEF PageInv, ScreenInv, Busy, userVars
<1>3. ~(out /\ ~late)
  BY DEF PageInv, OutInv
<1>4. OutInv' /\ ReturnInv'
  BY <1>3 DEF PageInv, OutInv, ReturnInv, userVars, countVars
<1>. QED
  BY <1>1, <1>2, <1>4 DEF PageInv

LEMMA PickStep ==
  ASSUME PageInv, PickWallet \/ ConfirmPick \/ (\E w \in Extensions : ChooseExtension(w))
  PROVE  PageInv'
<1>1. TypeOK /\ screen \in Screens
  BY DEF PageInv, TypeOK
<1>2. CASE PickWallet
  <2>1. screen' = [screen EXCEPT !.picker = "chosen"] /\ screen.picker = "open"
    BY <1>2 DEF PickWallet
  <2>2. screen' \in Screens /\ screen'.picker = "chosen" /\ screen'.button = screen.button /\ screen'.shown = screen.shown
    BY <1>1, <2>1 DEF Screens
  <2>3. UNCHANGED <<page, where, url, stored, connected, announced, flights, attempts, userVars, countVars>>
    BY <1>2 DEF PickWallet
  <2>4. Dialog /\ Dialog'
    BY <2>1, <2>2 DEF Dialog
  <2>5. flights \subseteq Flight /\ attempts \in 0..MaxAttempts /\ \A f \in flights : f.n <= attempts
    BY <1>1 DEF TypeOK
  <2>6. /\ flights' \subseteq Flight /\ attempts' \in 0..MaxAttempts /\ \A f \in flights' : f.n <= attempts'
        /\ \A f \in flights' : f.kind = "return" => f \in flights
    BY <2>3, <2>5
  <2>. QED
    BY <2>2, <2>3, <2>4, <2>6, DialogStep
<1>3. ASSUME NEW kind \in {"connect", "challenge"}, NEW src \in VALID_SOURCES, TakeOff(kind, src),
             Dialog, UNCHANGED <<page, where, url, sessionVars, userVars, countVars>>
      PROVE  PageInv'
  <2>1. UNCHANGED <<stored, connected, announced, screen>>
    BY <1>3 DEF sessionVars
  <2>2. Dialog' /\ screen' \in Screens
    BY <1>1, <1>3, <2>1 DEF Dialog
  <2>. QED
    BY <1>1, <1>3, <2>1, <2>2, TakeOffStep, DialogStep
<1>4. CASE ConfirmPick
  BY <1>3, <1>4 DEF ConfirmPick, Dialog, VALID_SOURCES
<1>5. ASSUME NEW w \in Extensions, ChooseExtension(w) PROVE PageInv'
  <2>1. FlightSource(w) \in VALID_SOURCES
    BY DEF FlightSource, VALID_SOURCES
  <2>2. Dialog
    BY <1>1, <1>5 DEF ChooseExtension, Dialog, Screens
  <2>. QED
    BY <1>3, <1>5, <2>1, <2>2 DEF ChooseExtension
<1>. QED
  BY <1>2, <1>4, <1>5

LEMMA CancelStep == ASSUME PageInv, CancelDialog PROVE PageInv'
<1>1. /\ TypeOK /\ UNCHANGED <<page, where, url, connected, announced, flights, attempts>>
      /\ UNCHANGED <<asked, out, late, posted, over, loads, returns, returned>>
      /\ stored' = ReadSession /\ screen' = ShowDisconnected(ReadSession # None)
  BY DEF PageInv, CancelDialog, CancelledScreen, userVars, countVars
<1>2. screen' \in Screens /\ Disconnected(screen')
  BY <1>1, ReadType, ScreenTypes, DisconnectedFields DEF TypeOK
<1>3. ~(out /\ ~late) /\ screen.button # "Disconnect"
  BY DEF PageInv, OutInv, ScreenInv, Busy, CancelDialog
<1>4. TypeOK'
  BY <1>1, <1>2, ReadType DEF TypeOK
<1>5. ScreenInv' /\ OutInv' /\ ReturnInv'
  BY <1>1, <1>2, <1>3 DEF PageInv, ScreenInv, OutInv, ReturnInv, Disconnected, Dialog
<1>. QED
  BY <1>4, <1>5 DEF PageInv

-----------------------------------------------------------------------------
(* Ends of connection attempts *)

\* A step that connects or fails, with at most one flight less.
LEMMA EndStep ==
  ASSUME PageInv,
         \/ \E k \in Keys, src \in VALID_SOURCES : Complete(k, src)
         \/ Fail \/ RestoreFails,
         UNCHANGED <<page, where, attempts, asked, out, late, posted, over, loads, returns>>,
         OutInv', flights' \subseteq flights, returned' \in Nat,
         url' \in {"none", "signed", "unsigned"},
         returned' <= returns, url' = "signed" => returned' < returns,
         url' # url => \A f \in flights' : f.kind # "return"
  PROVE  PageInv'
<1>1. TypeOK
  BY DEF PageInv
<1>2. /\ stored' \in Session \cup {None, Garbage} /\ (page'.storage = "none" => stored' = None)
      /\ connected' \in BOOLEAN /\ announced' \in Keys \cup {None} /\ screen' \in Screens
      /\ ScreenInv'
  <2>1. ASSUME NEW k \in Keys, NEW src \in VALID_SOURCES, Complete(k, src)
        PROVE  /\ stored' \in Session \cup {None, Garbage} /\ (page'.storage = "none" => stored' = None)
               /\ connected' \in BOOLEAN /\ announced' \in Keys \cup {None} /\ screen' \in Screens
               /\ ScreenInv'
    BY <1>1, <2>1, CompleteStep DEF ScreenInv
  <2>2. CASE Fail \/ RestoreFails
    BY <1>1, <2>2, FailStep DEF TypeOK, ScreenInv, Disconnected, Dialog
  <2>. QED
    BY <2>1, <2>2
<1>3. flights' \subseteq Flight /\ \A f \in flights' : f.n <= attempts'
  BY <1>1 DEF TypeOK
<1>4. TypeOK'
  BY <1>1, <1>2, <1>3 DEF TypeOK
<1>5. ReturnInv'
  BY DEF PageInv, ReturnInv
<1>. QED
  BY <1>2, <1>4, <1>5 DEF PageInv

LEMMA SubmitStep == ASSUME PageInv, NEW k \in Keys, SubmitForm(k) PROVE PageInv'
<1>1. Dialog
  BY DEF SubmitForm, Dialog, PageInv, TypeOK, Screens
<1>2. ~(out /\ ~late) /\ returned \in Nat /\ url \in {"none", "signed", "unsigned"}
  BY <1>1 DEF PageInv, OutInv, TypeOK
<1>3. /\ UNCHANGED <<page, where, url, flights, attempts, asked, out, late, posted, over, loads, returns, returned>>
      /\ Complete(k, "manual") /\ "manual" \in VALID_SOURCES
  BY DEF SubmitForm, userVars, countVars, VALID_SOURCES
<1>4. returned <= returns /\ (url = "signed" => returned < returns)
  BY DEF PageInv, ReturnInv
<1>5. OutInv'
  BY <1>2, <1>3 DEF OutInv
<1>. QED
  BY <1>2, <1>3, <1>4, <1>5, EndStep

\* Signed out, the answer is that of a return: without a signature it fails, and
\* with one it makes a mobile session.
LEMMA AnswerStep ==
  ASSUME PageInv, NEW f \in flights, NEW response \in Responses,
         AnswerConnect(f, response) \/ AnswerRestore(f, response) \/ AnswerReturn(f, response)
  PROVE  PageInv'
<1>1. /\ TypeOK /\ f \in Flight /\ returned \in Nat /\ returns \in Nat /\ url \in {"none", "signed", "unsigned"}
      /\ returned <= returns /\ (url = "signed" => returned < returns)
  BY DEF PageInv, TypeOK, ReturnInv
<1>2. /\ UNCHANGED <<page, where, attempts, asked, out, late, posted, over, loads, returns>>
      /\ flights' = flights \ {f}
  BY DEF AnswerConnect, AnswerRestore, AnswerReturn, userVars, countVars, Landed
<1>3. f.source \in VALID_SOURCES /\ "freighter" \in VALID_SOURCES /\ "mobile" \in VALID_SOURCES
  BY <1>1 DEF Flight, VALID_SOURCES
<1>4. \/ \E k \in Keys, src \in VALID_SOURCES : Complete(k, src)
      \/ Fail \/ RestoreFails
  BY <1>3 DEF AnswerConnect, AnswerRestore, AnswerReturn, IsValidPublicKey
<1>5. CASE AnswerConnect(f, response) \/ AnswerRestore(f, response)
  <2>1. url' = url /\ returned' = returned
    BY <1>5 DEF AnswerConnect, AnswerRestore, countVars
  <2>2. ~(out /\ ~late)
    BY <1>5 DEF PageInv, OutInv, AnswerConnect, AnswerRestore
  <2>3. OutInv'
    BY <1>2, <2>2 DEF OutInv
  <2>. QED
    BY <1>1, <1>2, <1>4, <2>1, <2>3, EndStep
<1>6. CASE AnswerReturn(f, response)
  <2>1. f.kind = "return" /\ url # "none"
    BY <1>6 DEF AnswerReturn, PageInv, ReturnInv
  <2>2. \A g \in flights' : g.kind # "return"
    BY <1>2, <2>1 DEF PageInv, ReturnInv
  <2>3. response # None => url = "signed"
    BY <1>1, <1>6, <2>1 DEF AnswerReturn
  <2>4. IsValidPublicKey(response) => response # None
    BY WalletAssumption DEF IsValidPublicKey
  <2>5. \/ url' = url /\ returned' = returned
        \/ url' = "none" /\ returned' = returned
        \/ url' = "none" /\ returned' = returned + 1 /\ url = "signed"
    BY <1>6, <2>3, <2>4 DEF AnswerReturn, CleanedUrl
  <2>6. /\ returned' \in Nat /\ returned' <= returns /\ (url' = "signed" => returned' < returns)
        /\ url' \in {"none", "signed", "unsigned"}
    BY <1>1, <2>5
  <2>7. OutInv'
    <3>1. SUFFICES ASSUME out, ~late PROVE OutInv'
      BY <1>2 DEF OutInv
    <3>2. /\ ~posted => ~connected /\ screen.shown = None /\ stored = None /\ url = "unsigned"
          /\ stored # None => stored.source = "mobile"
          /\ \A g \in flights : g.kind = "return"
      BY <3>1 DEF PageInv, OutInv
    <3>3. /\ flights' \subseteq flights /\ posted' = posted /\ out' = out /\ late' = late
          /\ ~Dialog'
      BY <1>2, <1>6 DEF AnswerReturn, Complete, Fail, ShowConnected, ShowDisconnected, Dialog
    <3>4. CASE Fail
      <4>1. ~connected' /\ screen'.shown = None /\ (stored' = stored \/ stored' = None)
        BY <3>4 DEF Fail, ShowDisconnected, ReadSession
      <4>2. ~posted => url' = "unsigned"
        BY <1>1, <1>6, <3>2 DEF AnswerReturn
      <4>. QED
        BY <3>2, <3>3, <4>1, <4>2 DEF OutInv
    <3>5. CASE IsValidPublicKey(response) /\ Complete(response, "mobile")
      <4>1. posted
        BY <2>3, <2>4, <3>2, <3>5
      <4>2. stored' = stored \/ stored' = [key |-> response, source |-> "mobile"]
        BY <3>5 DEF Complete, WriteSession
      <4>. QED
        BY <3>2, <3>3, <4>1, <4>2 DEF OutInv
    <3>. QED
      BY <1>6, <3>4, <3>5 DEF AnswerReturn
  <2>. QED
    BY <1>2, <1>4, <2>2, <2>6, <2>7, EndStep
<1>. QED
  BY <1>5, <1>6

LEMMA ChallengeStep == ASSUME PageInv, NEW f \in flights, AnswerChallenge(f) PROVE PageInv'
<1>1. /\ UNCHANGED <<page, url, stored, connected, screen, announced, attempts>>
      /\ UNCHANGED <<asked, out, late, posted, over, loads, returns, returned>>
      /\ flights' \subseteq flights /\ where' \in {"up", "away"}
  BY DEF AnswerChallenge, sessionVars, userVars, countVars, Landed, PageInv, TypeOK
<1>2. TypeOK'
  BY <1>1 DEF PageInv, TypeOK
<1>3. ScreenInv' /\ OutInv' /\ ReturnInv'
  BY <1>1 DEF PageInv, ScreenInv, OutInv, ReturnInv, Dialog, Busy
<1>. QED
  BY <1>2, <1>3 DEF PageInv

-----------------------------------------------------------------------------
LEMMA InitPage == Init => PageInv
<1>1. SUFFICES ASSUME Init PROVE PageInv
  OBVIOUS
<1>2. Disconnected(Blank) /\ Blank \in Screens
  BY DEF Blank, Disconnected, ShowDisconnected, Screens
<1>3. 0 \in 0..MaxAttempts /\ 0 \in 0..MaxLoads
  BY WalletAssumption
<1>4. TypeOK
  BY <1>1, <1>2, <1>3 DEF Init, TypeOK
<1>5. ScreenInv /\ OutInv /\ ReturnInv
  BY <1>1, <1>2 DEF Init, ScreenInv, OutInv, ReturnInv, Disconnected, Dialog
<1>. QED
  BY <1>4, <1>5 DEF PageInv

LEMMA StepPage == PageInv /\ [Next]_vars => PageInv'
<1>1. SUFFICES ASSUME PageInv, [Next]_vars PROVE PageInv'
  OBVIOUS
<1>2. CASE UNCHANGED vars
  BY <1>1, <1>2 DEF vars, sessionVars, userVars, countVars, PageInv, TypeOK, ScreenInv, OutInv, ReturnInv, Dialog, Busy
<1>3. CASE User
  BY <1>1, <1>3, ReloadStep, ReturnStep, ActionStep, PublicStep, PickStep, CancelStep, SubmitStep DEF User
<1>4. ASSUME NEW n \in 1..MaxAttempts, Answer(n) PROVE PageInv'
  BY <1>1, <1>4, AnswerStep, ChallengeStep DEF Answer
<1>. QED
  BY <1>1, <1>2, <1>3, <1>4 DEF Next

\* (every handler of createWalletSession and createDomUi)
THEOREM WalletTypeCorrect == Spec => []TypeOK
<1>1. PageInv => TypeOK
  BY DEF PageInv
<1>. QED
  BY <1>1, InitPage, StepPage, PTL DEF Spec

\* The key on the screen is connected, announced and, where possible, stored.
\* (completeConnection, failConnection, disconnect)
THEOREM WalletScreenTellsTruth == Spec => []ScreenTellsTruth
<1>1. PageInv => ScreenTellsTruth
  BY DEF PageInv, ScreenInv, ScreenTellsTruth
<1>. QED
  BY <1>1, InitPage, StepPage, PTL DEF Spec

\* After a disconnect with nothing awaited and until the user connects again, a
\* session comes from nothing but a signed return that a load has posted since,
\* the return of an attempt that failed before included, and is a mobile one; for
\* any keys, pages and extensions, and whatever reloads and answers come.
\* (disconnect, initialize, handleMobileReturn, finishMobileReturn)
THEOREM WalletSignedOut == Spec => []SignedOut
<1>1. PageInv => SignedOut
  BY DEF PageInv, OutInv, SignedOut
<1>. QED
  BY <1>1, InitPage, StepPage, PTL DEF Spec

\* No signed challenge makes two sessions.  (handleMobileReturn)
THEOREM WalletOneSessionPerReturn == Spec => []OneSessionPerReturn
<1>1. PageInv => OneSessionPerReturn
  BY DEF PageInv, ReturnInv, OneSessionPerReturn
<1>. QED
  BY <1>1, InitPage, StepPage, PTL DEF Spec

-----------------------------------------------------------------------------
(* No silent upgrade *)

\* Until the user does something, at most one answer is awaited: that of a return
\* or that of a restore, and a restore only of a Freighter session.
QuietInv ==
    ~asked =>
        /\ ~Dialog
        /\ \A f, g \in flights : f = g
        /\ \A f \in flights :
            \/ f.kind = "return"
            \/ f.kind = "restore" /\ (stored \in Session => stored.source = "freighter")

LEMMA LoadQuiet ==
  ASSUME NEW u, Load(u)
  PROVE  /\ QuietInv'
         /\ stored' = stored \/ stored' = None
<1>1. /\ ~asked'
      /\ \/ flights' = {}
         \/ flights' = {[n |-> attempts', kind |-> "return", source |-> "mobile"]}
         \/ flights' = {[n |-> attempts', kind |-> "restore", source |-> "freighter"]}
              /\ stored' = ReadSession /\ ReadSession.source = "freighter"
  BY DEF Load, Restorable
<1>2. ~Dialog'
  BY DEF Load, Dialog, Blank, ShowDisconnected
<1>3. stored' = stored \/ stored' = None
  BY DEF Load, ReadSession
<1>. QED
  BY <1>1, <1>2, <1>3 DEF QuietInv

LEMMA UserQuiet ==
  ASSUME QuietInv, User
  PROVE  /\ QuietInv'
         /\ asked' \/ stored' = stored \/ stored' = None
<1>1. ASSUME NEW u, Load(u) PROVE QuietInv' /\ (stored' = stored \/ stored' = None)
  BY <1>1, LoadQuiet
<1>2. CASE HandleAction \/ ConnectWallet \/ DisconnectWallet
  BY <1>2 DEF HandleAction, ConnectWallet, DisconnectWallet, Connect, Disconnect, QuietInv
<1>3. CASE PickWallet \/ ConfirmPick \/ CancelDialog \/ (\E w \in Extensions : ChooseExtension(w))
           \/ (\E key \in Keys : SubmitForm(key))
  <2>1. Dialog \/ screen.chooser \/ screen.form
    BY <1>3 DEF PickWallet, ConfirmPick, CancelDialog, ChooseExtension, SubmitForm, Dialog
  <2>2. asked /\ asked' = asked
    BY <1>3, <2>1 DEF PickWallet, ConfirmPick, CancelDialog, ChooseExtension, SubmitForm, userVars,
                      Dialog, QuietInv
  <2>. QED
    BY <2>2 DEF QuietInv
<1>. QED
  BY <1>1, <1>2, <1>3 DEF User, Reload, Return

LEMMA AnswerQuiet ==
  ASSUME PageInv, QuietInv, NEW n \in 1..MaxAttempts, Answer(n)
  PROVE  /\ QuietInv'
         /\ \/ asked
            \/ stored' \notin Session \/ stored' = stored
            \/ stored'.source = "mobile"
            \/ stored \in Session => stored.source = "freighter"
<1>1. asked' = asked
  BY DEF Answer, AnswerConnect, AnswerRestore, AnswerReturn, AnswerChallenge, userVars
<1>2. CASE asked
  BY <1>1, <1>2 DEF QuietInv
<1>3. CASE ~asked
  <2>1. PICK f \in flights :
           \/ \E response \in Responses :
                 AnswerConnect(f, response) \/ AnswerRestore(f, response) \/ AnswerReturn(f, response)
           \/ AnswerChallenge(f)
    BY DEF Answer
  <2>2. f.kind \in {"return", "restore"} /\ flights = {f}
    BY <1>3 DEF QuietInv
  <2>3. PICK response \in Responses : AnswerRestore(f, response) \/ AnswerReturn(f, response)
    BY <2>1, <2>2 DEF AnswerConnect, AnswerChallenge
  <2>4. flights' = {}
    BY <2>2, <2>3 DEF AnswerRestore, AnswerReturn, Landed
  <2>5. /\ \/ Fail \/ RestoreFails
           \/ IsValidPublicKey(response) /\ \E src \in {"freighter", "mobile"} :
                /\ Complete(response, src)
                /\ src = "freighter" => f.kind = "restore"
    BY <2>3 DEF AnswerRestore, AnswerReturn
  <2>6. ~Dialog'
    BY <2>5 DEF Fail, RestoreFails, Complete, ShowDisconnected, ShowConnected, Dialog
  <2>7. f.kind = "restore" => (stored \in Session => stored.source = "freighter")
    BY <1>3 DEF QuietInv
  <2>8. CASE Fail \/ RestoreFails
    <3>1. stored' = stored \/ stored' = None
      BY <2>8 DEF Fail, RestoreFails, ReadSession
    <3>. QED
      BY <1>1, <2>4, <2>6, <3>1, WalletAssumption DEF QuietInv
  <2>9. CASE ~(Fail \/ RestoreFails)
    <3>1. PICK src \in {"freighter", "mobile"} :
            Complete(response, src) /\ (src = "freighter" => f.kind = "restore")
      BY <2>5, <2>9
    <3>2. stored' = stored \/ stored' = [key |-> response, source |-> src]
      BY <3>1 DEF Complete, WriteSession
    <3>. QED
      BY <1>1, <2>4, <2>6, <2>7, <3>1, <3>2 DEF QuietInv
  <2>. QED
    BY <2>8, <2>9
<1>. QED
  BY <1>2, <1>3

LEMMA StepQuiet ==
  ASSUME PageInv, QuietInv, [Next]_vars
  PROVE  /\ QuietInv'
         /\ (stored \in Session /\ stored.source # "freighter" /\ ~asked)
              => (stored' \notin Session \/ stored'.source # "freighter" \/ asked')
<1>1. CASE UNCHANGED vars
  BY <1>1 DEF vars, sessionVars, userVars, QuietInv, Dialog
<1>2. CASE User
  BY <1>2, UserQuiet, WalletAssumption
<1>3. ASSUME NEW n \in 1..MaxAttempts, Answer(n)
      PROVE  /\ QuietInv'
             /\ (stored \in Session /\ stored.source # "freighter" /\ ~asked)
                  => (stored' \notin Session \/ stored'.source # "freighter" \/ asked')
  BY <1>3, AnswerQuiet
<1>. QED
  BY <1>1, <1>2, <1>3 DEF Next

\* Loading a page never makes a typed or mobile session one that is restored
\* silently, for any pages and keys.  (initialize, restoreFreighterAddress)
THEOREM WalletNoSilentUpgrade == Spec => NoSilentUpgrade
<1>1. Init => QuietInv
  BY DEF Init, QuietInv, Dialog, Blank, ShowDisconnected
<1>2. PageInv /\ QuietInv /\ [Next]_vars =>
        [(stored \in Session /\ stored.source # "freighter" /\ ~asked)
           => (stored' \notin Session \/ stored'.source # "freighter" \/ asked')]_vars
  BY StepQuiet
<1>3. PageInv /\ QuietInv /\ [Next]_vars => QuietInv'
  BY StepQuiet
<1>. QED
  BY <1>1, <1>2, <1>3, InitPage, StepPage, PTL DEF Spec, NoSilentUpgrade
=============================================================================
