------------------------------- MODULE EspLink -------------------------------
(***************************************************************************)
(* The link between the server and its RFID reader modules: the WebSocket  *)
(* connections of Esp32WsService, its map of registered modules, its one   *)
(* pending request per module, the HTTP handlers of JrdController (one at  *)
(* a time, behind SerializeRequestsInterceptor), and the other end of the  *)
(* wire, the ESP32 firmware of TCP.esp32.cs with its UART reader.          *)
(*                                                                         *)
(* One action is one callback of the event loop: a message, a close, a     *)
(* timer, or the continuation of an async handler after its await.  The    *)
(* continuation of a settled promise is a microtask: nothing runs before   *)
(* it except further messages of the same chunk of the same socket, which  *)
(* ws hands over synchronously (see Running and MayHandle).                *)
(***************************************************************************)
EXTENDS Integers, Sequences, FiniteSets

CONSTANTS
  Ids,          \* module ids, one byte each; a module's id is also its name
  Sockets,      \* identities of WebSocket connections, reused once closed
  Modes,        \* scan modes
  DefaultMode,  \* the mode of a new connection ("Inventory")
  Ops,          \* the kinds of JRD endpoint called (a subset of AllOps)
  None,         \* no connection, no module, no owner
  NetCap,       \* bound: commands a link holds undelivered; more are lost
  UartCap,      \* commands the UART of a module holds; more are ignored
  WireCap,      \* bound: frames a connection holds undelivered
  MaxCalls,     \* bound: HTTP requests made
  MaxFaults     \* bound: lost links, reboots, restarts, stalls, refusals

AllOps == {"start", "stop", "getPower", "setPower", "setRegion",
           "getModuleInfo", "setIsActive", "setMode"}

ASSUME IdsAssumption      == Ids \subseteq 0..255
ASSUME NoneAssumption     == None \notin Ids /\ None \notin Sockets
                             /\ None \notin {"http", "auto"}
ASSUME ModeAssumption     == DefaultMode \in Modes
ASSUME OpsAssumption      == Ops \subseteq AllOps
ASSUME BoundsAssumption   == /\ NetCap \in Nat /\ UartCap \in Nat /\ WireCap \in Nat
                             /\ MaxCalls \in Nat /\ MaxFaults \in Nat

VARIABLES
  \* the server's end of each connection
  sock,     \* [Sockets -> free, open or closing]: WebSocket.readyState
  info,     \* [Sockets -> clientInfo], without ip, status and scan results
  silent,   \* [Sockets -> BOOLEAN]: no message for more than 6 s (lastSeen)
  wire,     \* [Sockets -> Seq(Frames)]: frames on their way to the server
  \* Esp32WsService
  clients,  \* [Ids -> socket or None]: the map of registered modules
  pending,  \* [Ids -> owner or None]: pendingResponses, by module id
  timer,    \* [Ids -> set of owners]: 6 s timers armed and not cleared
  http,     \* the HTTP handler that holds the mutex
  \* the modules
  peer,     \* [Sockets -> module at the other end, or None]
  link,     \* [Ids -> the connection the module believes it has, or None]
  radio,    \* [Ids -> BOOLEAN]: the reader is in continuous inventory
  toDev,    \* [Ids -> Seq(Commands)]: commands on their way to the module
  uart,     \* [Ids -> Seq(Commands)]: commands accepted for the reader
  \* history and bounds
  late,     \* [Ids -> BOOLEAN]: a request was given up, its answer may come
  faults, calls

conns    == <<sock, info, silent, wire, peer>>
service  == <<clients, pending, timer, http>>
modules  == <<link, radio, toDev, uart>>
counters == <<late, faults, calls>>
vars     == <<conns, service, modules, counters>>

Commands == {"start", "stop", "getPower", "setPower", "setRegion", "getModuleInfo"}
Owners   == {"http", "auto"}
Results  == {"true", "false", "dbm", "text", "reject"}
Frames   == [kind : {"hello", "tag"}] \cup
            [kind : {"answer"}, cmd : Commands, ok : BOOLEAN]

\* clientInfo.  The hard power is abstracted to what was stored: a dBm value
\* read from a module, the -1 of a failed getCurrentPower, or a value that is
\* not a power at all; the soft power to whether it is below 15.
ClientInfo == [id : Ids \cup {None}, mode : Modes, isActive : BOOLEAN,
               isScan : BOOLEAN, hard : {"dbm", "minus1", "junk"},
               soft : {"low", "full"}]
NewClient == [id |-> None, mode |-> DefaultMode, isActive |-> FALSE,
              isScan |-> FALSE, hard |-> "dbm", soft |-> "full"]

\* The handler behind the mutex: what it was asked (op, soft), the modules a
\* batch has still to visit (todo), the request it is on (id, cmd), and where
\* it stands: idle, about to take its next module ("turn"), suspended on the
\* answer ("await"), or with a settled answer to resume on ("settled").  src is
\* the connection whose message settled it.
Calls == [op : Commands \cup {"none"}, soft : {"low", "full"}, todo : SUBSET Ids,
          id : Ids \cup {None}, cmd : Commands \cup {"none"},
          stage : {"idle", "turn", "await", "settled"},
          res : Results, src : Sockets \cup {None}]
NoCall == [op |-> "none", soft |-> "full", todo |-> {}, id |-> None,
           cmd |-> "none", stage |-> "idle", res |-> "reject", src |-> None]

Init ==
  /\ sock    = [s \in Sockets |-> "free"]
  /\ info    = [s \in Sockets |-> NewClient]
  /\ silent  = [s \in Sockets |-> FALSE]
  /\ wire    = [s \in Sockets |-> <<>>]
  /\ peer    = [s \in Sockets |-> None]
  /\ clients = [i \in Ids |-> None]
  /\ pending = [i \in Ids |-> None]
  /\ timer   = [i \in Ids |-> {}]
  /\ http    = NoCall
  /\ link    = [i \in Ids |-> None]
  /\ radio   = [i \in Ids |-> FALSE]
  /\ toDev   = [i \in Ids |-> <<>>]
  /\ uart    = [i \in Ids |-> <<>>]
  /\ late    = [i \in Ids |-> FALSE]
  /\ faults  = 0
  /\ calls   = 0

-----------------------------------------------------------------------------
(***************************************************************************)
(* The request slot of a module: sendRequestPromisify and its settling.    *)
(***************************************************************************)
Running     == http.stage \in {"turn", "settled"}
MayHandle(s) == Running => http.src = s

\* The two early rejections of sendRequestPromisify.
CanSendTwice(i) == clients[i] # None   \* mutant: no "already has a pending request"
CanSend(i) == clients[i] # None /\ pending[i] = None

\* The slot is taken, its timer armed, and the command handed to the socket if
\* that is open; it travels only while the module still has that connection.
Delivers(i) == /\ sock[clients[i]] = "open"
               /\ link[i] = clients[i]
               /\ Len(toDev[i]) < NetCap

SendRequest(i, owner, cmd) ==
  /\ pending' = [pending EXCEPT ![i] = owner]
  /\ timer'   = [timer EXCEPT ![i] = @ \cup {owner}]
  /\ toDev'   = IF Delivers(i) THEN [toDev EXCEPT ![i] = Append(@, cmd)] ELSE toDev

\* mutant: the answer does not clear the timer
SettleKeepsTimer(i, res, s) ==
  /\ pending' = [pending EXCEPT ![i] = None]
  /\ timer'   = timer
  /\ http'    = IF pending[i] = "http"
                THEN [http EXCEPT !.stage = "settled", !.res = res, !.src = s]
                ELSE http

\* An answer settles whatever request holds the slot of module i: clear its
\* timer, free the slot, resolve the promise.  Only the HTTP handler has state
\* to resume with; the auto-stop's promise just logs.
Settle(i, res, s) ==
  /\ pending' = [pending EXCEPT ![i] = None]
  /\ timer'   = [timer EXCEPT ![i] = @ \ {pending[i]}]
  /\ http'    = IF pending[i] = "http"
                THEN [http EXCEPT !.stage = "settled", !.res = res, !.src = s]
                ELSE http

\* mutant: the timer frees the slot and forgets to reject
TimeoutKeepsCaller(i, owner) ==
  /\ ~Running
  /\ owner \in timer[i]
  /\ timer'   = [timer EXCEPT ![i] = @ \ {owner}]
  /\ pending' = [pending EXCEPT ![i] = None]
  /\ late'    = [late EXCEPT ![i] = TRUE]
  /\ UNCHANGED <<conns, clients, http, modules, faults, calls>>

\* The 6 s timer of one request fires.
Timeout(i, owner) ==
  /\ ~Running
  /\ owner \in timer[i]
  /\ timer'   = [timer EXCEPT ![i] = @ \ {owner}]
  /\ pending' = [pending EXCEPT ![i] = None]
  /\ http'    = IF owner = "http" /\ http.stage = "await" /\ http.id = i
                THEN [http EXCEPT !.stage = "settled", !.res = "reject", !.src = None]
                ELSE http
  /\ late'    = [late EXCEPT ![i] = TRUE]
  /\ UNCHANGED <<conns, clients, modules, faults, calls>>

-----------------------------------------------------------------------------
(***************************************************************************)
(* Messages from a module.                                                 *)
(***************************************************************************)
Arrives(s, kind) ==
  /\ sock[s] # "free"
  /\ MayHandle(s)
  /\ wire[s] # <<>> /\ Head(wire[s]).kind = kind
  /\ wire'   = [wire EXCEPT ![s] = Tail(@)]
  /\ silent' = [silent EXCEPT ![s] = FALSE]

\* mutant: a module that is still registered is not registered again
OnHelloOnce(s) ==
  /\ Arrives(s, "hello")
  /\ info'    = [info EXCEPT ![s].id = peer[s]]
  /\ clients' = [clients EXCEPT ![peer[s]] = IF @ = None THEN s ELSE @]
  /\ UNCHANGED <<sock, peer, pending, timer, http, modules, counters>>

\* mutant: the connection is registered without noting its id
OnHelloNoId(s) ==
  /\ Arrives(s, "hello")
  /\ clients' = [clients EXCEPT ![peer[s]] = s]
  /\ UNCHANGED <<info, sock, peer, pending, timer, http, modules, counters>>

\* Hello: the connection becomes THE connection of the module that sent it.
OnHello(s) ==
  /\ Arrives(s, "hello")
  /\ info'    = [info EXCEPT ![s].id = peer[s]]
  /\ clients' = [clients EXCEPT ![peer[s]] = s]
  /\ UNCHANGED <<sock, peer, pending, timer, http, modules, counters>>

\* Heartbeat, battery and Wi-Fi frames: they only refresh lastSeen here.
Telemetry(s) ==
  /\ sock[s] # "free"
  /\ MayHandle(s)
  /\ silent[s]
  /\ peer[s] # None /\ link[peer[s]] = s
  /\ silent' = [silent EXCEPT ![s] = FALSE]
  /\ UNCHANGED <<sock, info, wire, peer, service, modules, counters>>

\* What a command's answer resolves the promise with.
ResultOf(f) ==
  CASE f.cmd = "getPower"              -> "dbm"
    [] f.cmd = "getModuleInfo" /\ f.ok -> "text"
    [] f.cmd = "getModuleInfo"         -> "reject"
    [] f.ok                            -> "true"
    [] OTHER                           -> "false"

\* What the handler of an answer stores in the clientInfo of its connection.
Noted(c, f) ==
  CASE f.cmd = "getPower" -> [c EXCEPT !.hard = "dbm"]
    [] f.cmd = "start"    -> [c EXCEPT !.isScan = f.ok]
    [] f.cmd = "stop"     -> [c EXCEPT !.isScan = ~f.ok]
    [] OTHER              -> c

\* An answer: matched by module id alone.  Without an id (or with id 0, which
\* the code tests for truth) and without a pending request it is dropped.
Answerable(s) == info[s].id \notin {None, 0} /\ pending[info[s].id] # None

OnAnswer(s) ==
  /\ Arrives(s, "answer")
  /\ IF Answerable(s)
     THEN LET f == Head(wire[s])
          IN  /\ Settle(info[s].id, ResultOf(f), s)
              /\ info' = [info EXCEPT ![s] = Noted(@, f)]
     ELSE UNCHANGED <<info, pending, timer, http>>
  /\ UNCHANGED <<sock, peer, clients, modules, counters>>

\* A tag report: passed on to the gateway while the connection is active and
\* scanning; otherwise the module should not be scanning and is told to stop,
\* outside the mutex, with no effect when its slot is taken.
Consumes(s) == info[s].isActive /\ info[s].isScan

\* mutant: only an active connection that is not scanning is told to stop
OnTagActive(s) ==
  /\ Arrives(s, "tag")
  /\ LET i == info[s].id
     IN  IF info[s].isActive /\ ~info[s].isScan /\ i # None /\ CanSend(i)
         THEN SendRequest(i, "auto", "stop")
         ELSE UNCHANGED <<pending, timer, toDev>>
  /\ UNCHANGED <<sock, info, peer, clients, http, link, radio, uart, counters>>

OnTag(s) ==
  /\ Arrives(s, "tag")
  /\ LET i == info[s].id
     IN  IF ~Consumes(s) /\ i # None /\ CanSend(i)
         THEN SendRequest(i, "auto", "stop")
         ELSE UNCHANGED <<pending, timer, toDev>>
  /\ UNCHANGED <<sock, info, peer, clients, http, link, radio, uart, counters>>

-----------------------------------------------------------------------------
(***************************************************************************)
(* Connections: accept, close, heartbeat sweep, restart of the server.     *)
(***************************************************************************)
Connect(i, s) ==
  /\ ~Running
  /\ link[i] = None
  /\ sock[s] = "free"
  /\ sock'   = [sock EXCEPT ![s] = "open"]
  /\ info'   = [info EXCEPT ![s] = NewClient]
  /\ silent' = [silent EXCEPT ![s] = FALSE]
  /\ wire'   = [wire EXCEPT ![s] = <<[kind |-> "hello"]>>]
  /\ peer'   = [peer EXCEPT ![s] = i]
  /\ link'   = [link EXCEPT ![i] = s]
  /\ UNCHANGED <<service, radio, toDev, uart, counters>>

\* mutant: the close event removes the entry of its module's id
UnregisterById(s) ==
  clients' = [i \in Ids |-> IF i = info[s].id THEN None ELSE clients[i]]

\* The close frame, end or reset of the module's side reaches the server, also
\* in the chunk of an answer.  From here readyState is CLOSING, while the map
\* keeps its entry and frames received before may still be handed over; the
\* close event follows.
PeerEnds(s) ==
  /\ MayHandle(s)
  /\ sock[s] = "open"
  /\ link[peer[s]] # s
  /\ sock' = [sock EXCEPT ![s] = "closing"]
  /\ UNCHANGED <<info, silent, wire, peer, service, modules, counters>>

\* The close event of a closing socket: the first entry that holds it is removed.
Unregister(s) ==
  clients' = [i \in Ids |-> IF clients[i] = s THEN None ELSE clients[i]]

OnClose(s) ==
  /\ ~Running
  /\ sock[s] = "closing"
  /\ sock'   = [sock EXCEPT ![s] = "free"]
  /\ info'   = [info EXCEPT ![s] = NewClient]
  /\ silent' = [silent EXCEPT ![s] = FALSE]
  /\ wire'   = [wire EXCEPT ![s] = <<>>]
  /\ peer'   = [peer EXCEPT ![s] = None]
  /\ link'   = [i \in Ids |-> IF link[i] = s THEN None ELSE link[i]]
  /\ toDev'  = [i \in Ids |-> IF link[i] = s THEN <<>> ELSE toDev[i]]
  /\ Unregister(s)
  /\ UNCHANGED <<pending, timer, http, radio, uart, counters>>

\* The heartbeat interval: every registered connection that was silent for more
\* than 6 s is closed and removed.
ExpiredClosing == {i \in Ids :   \* mutant: only connections already closing
  clients[i] # None /\ silent[clients[i]] /\ sock[clients[i]] = "closing"}
Expired == {i \in Ids : clients[i] # None /\ silent[clients[i]]}

Sweep ==
  /\ ~Running
  /\ Expired # {}
  /\ sock'    = [s \in Sockets |-> IF \E i \in Expired : clients[i] = s
                                   THEN "closing" ELSE sock[s]]
  /\ clients' = [i \in Ids |-> IF i \in Expired THEN None ELSE clients[i]]
  /\ UNCHANGED <<info, silent, wire, peer, pending, timer, http, modules, counters>>

\* Six seconds pass without a message: a fault while the module has the
\* connection (it sends a heartbeat every 3 s), a matter of time once it lost it.
GoSilent(s) ==
  /\ ~Running
  /\ sock[s] # "free" /\ ~silent[s]
  /\ IF link[peer[s]] = s
     THEN faults < MaxFaults /\ faults' = faults + 1
     ELSE UNCHANGED faults
  /\ silent' = [silent EXCEPT ![s] = TRUE]
  /\ UNCHANGED <<sock, info, wire, peer, service, modules, late, calls>>

\* The server process stops and starts again.  Nothing is persisted; the
\* modules notice, keep their UART queue, and a scanning one keeps scanning.
Restart ==
  /\ faults < MaxFaults
  /\ faults'  = faults + 1
  /\ sock'    = [s \in Sockets |-> "free"]
  /\ info'    = [s \in Sockets |-> NewClient]
  /\ silent'  = [s \in Sockets |-> FALSE]
  /\ wire'    = [s \in Sockets |-> <<>>]
  /\ peer'    = [s \in Sockets |-> None]
  /\ clients' = [i \in Ids |-> None]
  /\ pending' = [i \in Ids |-> None]
  /\ timer'   = [i \in Ids |-> {}]
  /\ http'    = NoCall
  /\ link'    = [i \in Ids |-> None]
  /\ toDev'   = [i \in Ids |-> <<>>]
  /\ late'    = [i \in Ids |-> TRUE]
  /\ UNCHANGED <<radio, uart, calls>>

-----------------------------------------------------------------------------
(***************************************************************************)
(* The HTTP handlers.  A request enters when the mutex is free.            *)
(***************************************************************************)
Registered(i) == clients[i] # None
Client(i)     == info[clients[i]]

Enter(op, ids, soft) ==
  /\ http.stage = "idle"
  /\ calls < MaxCalls
  /\ calls' = calls + 1
  /\ http'  = [NoCall EXCEPT !.op = op, !.soft = soft, !.todo = ids, !.stage = "turn"]
  /\ UNCHANGED <<conns, clients, pending, timer, modules, late, faults>>

\* startScan, startScanByIds (any list of ids) and startScanByMode.
StartScan(ids) == "start" \in Ops /\ Enter("start", ids, "full")
StartScanByMode(m) ==
  StartScan({i \in Ids : Registered(i) /\ Client(i).mode = m /\ Client(i).isActive})

\* stopScan and stopScanByMode.
StopScan(i)       == "stop" \in Ops /\ Enter("stop", {i}, "full")
StopScanByMode(m) ==
  "stop" \in Ops /\ Enter("stop", {i \in Ids : Registered(i) /\ Client(i).mode = m}, "full")

GetCurrentPower(i) == "getPower" \in Ops /\ Enter("getPower", {i}, "full")
SetPower(i, soft)  == "setPower" \in Ops /\ Enter("setPower", {i}, soft)
SetRegion(i)       == "setRegion" \in Ops /\ Enter("setRegion", {i}, "full")
GetModuleInfo(i)   == "getModuleInfo" \in Ops /\ Enter("getModuleInfo", {i}, "full")

\* mutant: the setter is not behind the mutex
AssignAnyTime(i, c) ==
  /\ ~Running
  /\ calls < MaxCalls
  /\ calls' = calls + 1
  /\ info'  = IF Registered(i) THEN [info EXCEPT ![clients[i]] = c] ELSE info
  /\ UNCHANGED <<sock, silent, wire, peer, service, modules, late, faults>>

\* The two synchronous setters.
Assign(i, c) ==
  /\ http.stage = "idle"
  /\ calls < MaxCalls
  /\ calls' = calls + 1
  /\ info'  = IF Registered(i) THEN [info EXCEPT ![clients[i]] = c] ELSE info
  /\ UNCHANGED <<sock, silent, wire, peer, service, modules, late, faults>>

SetIsActive(i, b) ==
  "setIsActive" \in Ops /\ Assign(i, [Client(i) EXCEPT !.isActive = b])
SetMode(i, m) ==
  "setMode" \in Ops /\ Assign(i, [Client(i) EXCEPT !.mode = m])

\* The handler sends its next request, or is refused at once.
Request(i, cmd, todo) ==
  IF CanSend(i)
  THEN /\ SendRequest(i, "http", cmd)
       /\ http' = [http EXCEPT !.stage = "await", !.id = i, !.cmd = cmd,
                               !.todo = todo, !.src = None]
  ELSE /\ http' = [http EXCEPT !.stage = "settled", !.id = i, !.cmd = cmd,
                               !.todo = todo, !.src = None, !.res = "reject"]
       /\ UNCHANGED <<pending, timer, toDev>>

\* One turn of a batch's loop, or the body of a single call.  startScan skips a
\* module that is not registered and active when its turn comes.
Eligible(i) == http.op = "start" => Registered(i) /\ Client(i).isActive

Turn(i) ==
  /\ http.stage = "turn" /\ i \in http.todo
  /\ IF Eligible(i)
     THEN Request(i, http.op, http.todo \ {i})
     ELSE /\ http' = [http EXCEPT !.todo = @ \ {i}]
          /\ UNCHANGED <<pending, timer, toDev>>
  /\ UNCHANGED <<conns, clients, link, radio, uart, counters>>

Finish ==
  /\ http.stage = "turn" /\ http.todo = {}
  /\ http' = NoCall
  /\ UNCHANGED <<conns, clients, pending, timer, modules, counters>>

\* setPower goes on to read the power back when its own answer was truthy ...
Truthy == {"true", "dbm", "text"}
ReadsBack == /\ http.op = "setPower" /\ http.cmd = "setPower"
             /\ http.res \in Truthy

ResumeReadBack ==
  /\ http.stage = "settled"
  /\ ReadsBack
  /\ Request(http.id, "getPower", {})
  /\ UNCHANGED <<conns, clients, link, radio, uart, counters>>

\* mutant: what the promise settled with is stored as it is
PowerReadRaw == http.res

\* ... and stores what the read returned: the value its promise was resolved
\* with, or -1 if it was rejected.
PowerRead == CASE http.res = "dbm"    -> "dbm"
               [] http.res = "reject" -> "minus1"
               [] OTHER               -> "junk"

ResumeStore ==
  /\ http.stage = "settled"
  /\ http.op = "setPower" /\ http.cmd = "getPower"
  /\ info' = IF Registered(http.id)
             THEN [info EXCEPT ![clients[http.id]].soft = http.soft,
                               ![clients[http.id]].hard = PowerRead]
             ELSE info
  /\ http' = [http EXCEPT !.stage = "turn", !.src = None]
  /\ UNCHANGED <<sock, silent, wire, peer, clients, pending, timer, modules, counters>>

\* Every other handler only returns or throws, or goes on with its batch.
Resume ==
  /\ http.stage = "settled"
  /\ ~ReadsBack
  /\ ~(http.op = "setPower" /\ http.cmd = "getPower")
  /\ http' = [http EXCEPT !.stage = "turn", !.src = None]
  /\ UNCHANGED <<conns, clients, pending, timer, modules, counters>>

-----------------------------------------------------------------------------
(***************************************************************************)
(* The module: firmware and reader.                                        *)
(***************************************************************************)
\* Frames are sent only while the firmware has a connection.
Sends(i, f) ==
  wire' = IF link[i] = None THEN wire
          ELSE [wire EXCEPT ![link[i]] = Append(@, f)]
HasRoom(i) == link[i] # None => Len(wire[link[i]]) < WireCap

\* A command goes to the UART, or is ignored when that is full.
SendCommand(i, c) ==
  uart' = IF Len(uart[i]) < UartCap THEN [uart EXCEPT ![i] = Append(@, c)] ELSE uart

\* A start is acknowledged by the firmware itself, whatever became of it.
StartContinuous(i) ==
  /\ SendCommand(i, "start")
  /\ Sends(i, [kind |-> "answer", cmd |-> "start", ok |-> TRUE])

HandleBinaryCommand(i) ==
  /\ ~Running
  /\ toDev[i] # <<>> /\ HasRoom(i)
  /\ toDev' = [toDev EXCEPT ![i] = Tail(@)]
  /\ IF Head(toDev[i]) = "start"
     THEN StartContinuous(i)
     ELSE SendCommand(i, Head(toDev[i])) /\ UNCHANGED wire
  /\ UNCHANGED <<sock, info, silent, peer, service, link, radio, counters>>

\* The reader executes a command and answers; the firmware forwards the answer,
\* unless it is an error frame (0xFF): a refused command is never answered.
ReaderExecutes(i) ==
  /\ ~Running
  /\ uart[i] # <<>> /\ HasRoom(i)
  /\ LET c == Head(uart[i])
     IN  /\ uart'  = [uart EXCEPT ![i] = Tail(@)]
         /\ radio' = [radio EXCEPT ![i] = CASE c = "start" -> TRUE
                                            [] c = "stop"  -> FALSE
                                            [] OTHER       -> @]
         /\ IF c = "start"
            THEN UNCHANGED wire
            ELSE Sends(i, [kind |-> "answer", cmd |-> c, ok |-> TRUE])
  /\ UNCHANGED <<sock, info, silent, peer, service, link, toDev, counters>>

\* The reader refuses a command, with an error frame that is not forwarded or
\* with an answer whose status byte is not 0.
ReaderRefuses(i) ==
  /\ ~Running
  /\ faults < MaxFaults /\ faults' = faults + 1
  /\ uart[i] # <<>> /\ HasRoom(i)
  /\ uart' = [uart EXCEPT ![i] = Tail(@)]
  /\ \/ UNCHANGED wire
     \/ /\ Head(uart[i]) # "start"
        /\ Sends(i, [kind |-> "answer", cmd |-> Head(uart[i]), ok |-> FALSE])
  /\ UNCHANGED <<sock, info, silent, peer, service, link, radio, toDev, late, calls>>

\* A tag in the field (at most one report undelivered per connection).
TagSeen(i) ==
  /\ ~Running
  /\ radio[i] /\ link[i] # None /\ HasRoom(i)
  /\ \A n \in 1..Len(wire[link[i]]) : wire[link[i]][n].kind # "tag"
  /\ Sends(i, [kind |-> "tag"])
  /\ UNCHANGED <<sock, info, silent, peer, service, modules, counters>>

\* The module loses its connection; the server's end stays open until it is
\* closed.  Commands on the way are lost.  A power cut also stops the reader.
LoseLink(i) ==
  /\ ~Running
  /\ faults < MaxFaults /\ faults' = faults + 1
  /\ link[i] # None
  /\ link'  = [link EXCEPT ![i] = None]
  /\ toDev' = [toDev EXCEPT ![i] = <<>>]
  /\ UNCHANGED <<conns, service, radio, uart, late, calls>>

PowerCut(i) ==
  /\ ~Running
  /\ faults < MaxFaults /\ faults' = faults + 1
  /\ link'  = [link EXCEPT ![i] = None]
  /\ toDev' = [toDev EXCEPT ![i] = <<>>]
  /\ uart'  = [uart EXCEPT ![i] = <<>>]
  /\ radio' = [radio EXCEPT ![i] = FALSE]
  /\ UNCHANGED <<conns, service, late, calls>>

-----------------------------------------------------------------------------
HttpCall ==
  \/ \E ids \in SUBSET Ids \ {{}} : StartScan(ids)
  \/ \E m \in Modes : StartScanByMode(m) \/ StopScanByMode(m)
  \/ \E i \in Ids : StopScan(i) \/ GetCurrentPower(i) \/ SetRegion(i) \/ GetModuleInfo(i)
  \/ \E i \in Ids, soft \in {"low", "full"} : SetPower(i, soft)
  \/ \E i \in Ids, b \in BOOLEAN : SetIsActive(i, b)
  \/ \E i \in Ids, m \in Modes : SetMode(i, m)

HttpStep == (\E i \in Ids : Turn(i)) \/ Finish \/ ResumeReadBack \/ ResumeStore \/ Resume

OnMessage(s) == OnHello(s) \/ OnAnswer(s) \/ OnTag(s)

ModuleStep(i) == HandleBinaryCommand(i) \/ ReaderExecutes(i)

Fault ==
  \/ Restart
  \/ \E i \in Ids : ReaderRefuses(i) \/ LoseLink(i) \/ PowerCut(i)

Next ==
  \/ HttpCall
  \/ HttpStep
  \/ Sweep
  \/ Fault
  \/ \E s \in Sockets : OnMessage(s) \/ Telemetry(s) \/ PeerEnds(s) \/ OnClose(s) \/ GoSilent(s)
  \/ \E i \in Ids : ModuleStep(i) \/ TagSeen(i)
  \/ \E i \in Ids, s \in Sockets : Connect(i, s)
  \/ \E i \in Ids, owner \in Owners : Timeout(i, owner)

\* What the runtimes guarantee: timers fire, microtasks run, messages that
\* arrived are handled, the heartbeat interval runs, a closing socket is closed
\* (by the peer or by ws after 30 s), the module's loop and its reader run, and
\* a reader that is left scanning reports tags.
Fairness ==
  /\ WF_vars(HttpStep)
  /\ WF_vars(Sweep)
  /\ \A i \in Ids : \A owner \in Owners : WF_vars(Timeout(i, owner))
  /\ \A i \in Ids : /\ WF_vars(HandleBinaryCommand(i))
                    /\ WF_vars(ReaderExecutes(i))
                    /\ WF_vars(TagSeen(i))
  /\ \A s \in Sockets : WF_vars(OnMessage(s)) /\ WF_vars(OnClose(s))

Spec     == Init /\ [][Next]_vars
FairSpec == Spec /\ Fairness

-----------------------------------------------------------------------------
(***************************************************************************)
(* Invariants.                                                             *)
(***************************************************************************)
\* Types of all variables.
TypeOK ==
  /\ sock    \in [Sockets -> {"free", "open", "closing"}]
  /\ info    \in [Sockets -> ClientInfo]
  /\ silent  \in [Sockets -> BOOLEAN]
  /\ wire    \in [Sockets -> Seq(Frames)]
  /\ peer    \in [Sockets -> Ids \cup {None}]
  /\ clients \in [Ids -> Sockets \cup {None}]
  /\ pending \in [Ids -> Owners \cup {None}]
  /\ timer   \in [Ids -> SUBSET Owners]
  /\ http    \in Calls /\ (http.op = "none" => http.todo = {})
  /\ link    \in [Ids -> Sockets \cup {None}]
  /\ radio   \in [Ids -> BOOLEAN]
  /\ toDev   \in [Ids -> Seq(Commands)]
  /\ uart    \in [Ids -> Seq(Commands)]
  /\ late    \in [Ids -> BOOLEAN]
  /\ faults  \in Nat
  /\ calls   \in Nat

\* The map of modules never names a dead or foreign connection: what is
\* registered under an id is a socket whose close event has not come, it belongs
\* to that module, and its clientInfo carries that id (so the answers it brings
\* go to that id's slot).  It may be closing, but only because the module left
\* it: a socket that the server closed is not registered, nor again later.
RegistryConsistent ==
  /\ \A i \in Ids : Registered(i) =>
       /\ sock[clients[i]] = "open" \/ (sock[clients[i]] = "closing" /\ link[i] # clients[i])
       /\ peer[clients[i]] = i
       /\ Client(i).id = i
  /\ \A s \in Sockets : info[s].id \in {None, peer[s]}

\* The hello is the first frame of a connection: until it is handled the
\* connection is not closed by the server and has no id, afterwards no other
\* hello can come.
HelloFirst ==
  \A s \in Sockets : \A n \in 1..Len(wire[s]) : wire[s][n].kind = "hello" =>
    /\ n = 1 /\ info[s].id = None
    /\ sock[s] = "open" \/ (sock[s] = "closing" /\ link[peer[s]] # s)

\* A request slot, its timer and its waiting caller come and go together: a
\* slot has exactly the timer of the request that holds it, the HTTP handler is
\* suspended exactly while it holds the slot it waits for, and an answer can
\* therefore never be lost to a caller or settle the same caller twice.
SlotOwned ==
  /\ \A i \in Ids : timer[i] = {pending[i]} \ {None}
  /\ \A i \in Ids : (pending[i] = "http") <=> (http.stage = "await" /\ http.id = i)
  /\ http.stage \in {"await", "settled"} => http.id \in Ids

\* Commands whose answer may still come back from module i.
Unanswered(i, c) ==
  \/ \E n \in 1..Len(toDev[i]) : toDev[i][n] = c
  \/ \E n \in 1..Len(uart[i]) : uart[i][n] = c /\ c # "start"
  \/ \E s \in Sockets : peer[s] = i /\ \E n \in 1..Len(wire[s]) :
       wire[s][n].kind = "answer" /\ wire[s][n].cmd = c
Awaited(i) == IF pending[i] = "auto" THEN "stop" ELSE http.cmd

\* Although answers carry no request id, an answer can settle the wrong request
\* only after a request of that module was given up (timed out, or forgotten by
\* a restart): until then every answer on its way is the pending request's.
AnswersExpected ==
  \A i \in Ids : ~late[i] =>
    \A c \in Commands : Unanswered(i, c) => pending[i] # None /\ Awaited(i) = c

\* What the comment on sendCommandToEsp promises ("protocol v1 with reqId"): an
\* answer settles the request it answers.
AnswerMatchesRequest ==
  \A s \in Sockets :
    (wire[s] # <<>> /\ Head(wire[s]).kind = "answer" /\ MayHandle(s) /\ Answerable(s))
      => Head(wire[s]).cmd = Awaited(info[s].id)

-----------------------------------------------------------------------------
(***************************************************************************)
(* What a step may never do.                                               *)
(***************************************************************************)
\* A registered connection is dropped from the map only by its own close, by a
\* sweep that found it silent, by a restart, or by a newer hello of the same
\* module: never by the close of another connection of that module.
KeepsClient(i) ==
  Registered(i) /\ clients'[i] = None =>
    silent[clients[i]] \/ sock'[clients[i]] = "free"
ClientKept == [][\A i \in Ids : KeepsClient(i)]_vars

\* The mutex keeps the check of isActive in startScan good until its answer:
\* while a start waits, its connection stays registered-and-active or goes.
StaysActive(i) ==
  (http.stage = "await" /\ http.id = i /\ http.cmd = "start" /\ Registered(i)
   /\ Client(i).isActive /\ clients'[i] = clients[i])
    => info'[clients[i]].isActive
ActiveWhileStarting == [][\A i \in Ids : StaysActive(i)]_vars

-----------------------------------------------------------------------------
(***************************************************************************)
(* What the slots promise, as a specification of its own.  A handler that  *)
(* is about to take its next module, or to resume on its answer, runs.     *)
(***************************************************************************)
HandlerAt == [stage |-> CASE http.stage = "idle"  -> "idle"
                          [] http.stage = "await" -> "waiting"
                          [] OTHER                -> "running",
              at    |-> IF http.stage = "await" THEN http.id ELSE None]

Slots == INSTANCE RequestSlots WITH slot <- pending, handler <- HandlerAt

\* sendRequestPromisify, the answers, the timers and the handlers implement the
\* slots: no request takes a slot that is in use, none is released twice or kept
\* for ever, and the handler that waits goes on when, and only when, its own
\* request is released.
SlotsImplemented == Slots!FairSpec

-----------------------------------------------------------------------------
(***************************************************************************)
(* Liveness, under Fairness.                                               *)
(***************************************************************************)
\* The mutex is always released: whatever modules, links and answers do, every
\* handler ends, so no request waits for the mutex for ever.
EveryCallEnds == (http.stage # "idle") ~> (http.stage = "idle")

\* A reader that is scanning although the server did not want it to (stopped
\* and the stop was lost, deactivated, left over from before a restart) does
\* not scan for ever: it is stopped, or its connection goes, or it is wanted.
RunawayStopped ==
  \A i \in Ids :
    (radio[i] /\ Registered(i) /\ link[i] = clients[i] /\ ~Consumes(clients[i]))
      ~> (~radio[i] \/ ~Registered(i) \/ link[i] # clients[i] \/ Consumes(clients[i]))

\* A connection that is registered and silent is heard again or removed.
SilentSwept ==
  \A s \in Sockets :
    (silent[s] /\ \E i \in Ids : clients[i] = s)
      ~> (~silent[s] \/ \A i \in Ids : clients[i] # s)

\* A module that connects and says hello gets registered, even while an older
\* connection of it still stands in the map.
HelloRegisters ==
  \A i \in Ids : \A s \in Sockets :
    (link[i] = s /\ wire[s] # <<>> /\ Head(wire[s]).kind = "hello")
      ~> (clients[i] = s \/ link[i] # s)

=============================================================================
