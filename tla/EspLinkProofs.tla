---------------------------- MODULE EspLinkProofs ----------------------------
(***************************************************************************)
(* Theorems about EspLink, for every set of modules, connections and modes *)
(* and every bound.                                                        *)
(***************************************************************************)
EXTENDS EspLink, SequenceTheorems, TLAPS

-----------------------------------------------------------------------------
(***************************************************************************)
(* Type correctness.                                                       *)
(***************************************************************************)
\* The initial state is well-typed.
LEMMA TypeInit == Init => TypeOK
BY ModeAssumption, EmptySeq
   DEF Init, TypeOK, NewClient, ClientInfo, NoCall, Calls, AllOps, Commands,
       Owners, Results

\* Sending a request keeps the types of the slot, the timers and the wire.
LEMMA SendRequestType ==
  ASSUME TypeOK, NEW i, NEW owner \in Owners, NEW cmd \in Commands,
         SendRequest(i, owner, cmd)
  PROVE  /\ pending' \in [Ids -> Owners \cup {None}]
         /\ timer' \in [Ids -> SUBSET Owners]
         /\ toDev' \in [Ids -> Seq(Commands)]
<1>1. CASE i \in Ids
  <2>1. Append(toDev[i], cmd) \in Seq(Commands)
    BY <1>1, AppendProperties DEF TypeOK
  <2>2. QED
    BY <1>1, <2>1 DEF TypeOK, SendRequest
<1>2. CASE i \notin Ids
  BY <1>2 DEF TypeOK, SendRequest
<1>3. QED
  BY <1>1, <1>2

\* Moving a handler on leaves a handler with the same operation.
LEMMA CallUpdates ==
  ASSUME NEW c \in Calls, NEW i \in Ids \cup {None}, NEW cmd \in Commands,
         NEW todo \in SUBSET Ids, NEW src \in Sockets \cup {None}, NEW res \in Results,
         NEW stage \in {"idle", "turn", "await", "settled"}
  PROVE  /\ [c EXCEPT !.stage = stage, !.id = i, !.cmd = cmd, !.todo = todo,
                      !.src = src] \in Calls
         /\ [c EXCEPT !.stage = stage, !.id = i, !.cmd = cmd, !.todo = todo,
                      !.src = src, !.res = res] \in Calls
         /\ [c EXCEPT !.stage = stage, !.res = res, !.src = src] \in Calls
         /\ [c EXCEPT !.stage = stage, !.src = src] \in Calls
         /\ [c EXCEPT !.todo = todo] \in Calls
BY DEF Calls

\* So does a request of the HTTP handler, sent or refused.
LEMMA RequestType ==
  ASSUME TypeOK, NEW i \in Ids \cup {None}, NEW cmd \in Commands,
         NEW todo \in SUBSET http.todo, Request(i, cmd, todo)
  PROVE  /\ pending' \in [Ids -> Owners \cup {None}]
         /\ timer' \in [Ids -> SUBSET Owners]
         /\ toDev' \in [Ids -> Seq(Commands)]
         /\ http' \in Calls /\ (http'.op = "none" => http'.todo = {})
<1> todo \in SUBSET Ids /\ (http.op = "none" => todo = {})
  BY DEF TypeOK, Calls
<1>1. CASE CanSend(i)
  <2>1. SendRequest(i, "http", cmd) /\ "http" \in Owners
    BY <1>1 DEF Request, Owners
  <2>2. http' = [http EXCEPT !.stage = "await", !.id = i, !.cmd = cmd,
                             !.todo = todo, !.src = None]
    BY <1>1 DEF Request
  <2>3. http' \in Calls
    <3>1. http \in Calls /\ None \in Sockets \cup {None} /\ "reject" \in Results
      BY DEF TypeOK, Results
    <3>2. [http EXCEPT !.stage = "await", !.id = i, !.cmd = cmd, !.todo = todo,
                       !.src = None] \in Calls
      BY <3>1, CallUpdates
    <3>3. QED
      BY <2>2, <3>2
  <2>4. http'.op = http.op /\ http'.todo = todo
    BY <2>2 DEF TypeOK, Calls
  <2>5. QED
    BY <2>1, <2>3, <2>4, SendRequestType
<1>2. CASE ~CanSend(i)
  <2>1. /\ http' = [http EXCEPT !.stage = "settled", !.id = i, !.cmd = cmd,
                                !.todo = todo, !.src = None, !.res = "reject"]
        /\ UNCHANGED <<pending, timer, toDev>>
    BY <1>2 DEF Request
  <2>2. http' \in Calls
    <3>1. http \in Calls /\ None \in Sockets \cup {None} /\ "reject" \in Results
      BY DEF TypeOK, Results
    <3>2. [http EXCEPT !.stage = "settled", !.id = i, !.cmd = cmd, !.todo = todo,
                       !.src = None, !.res = "reject"] \in Calls
      BY <3>1 DEF Calls
    <3>3. QED
      BY <2>1, <3>2
  <2>3. http'.op = http.op /\ http'.todo = todo
    BY <2>1 DEF TypeOK, Calls
  <2>4. QED
    BY <2>1, <2>2, <2>3 DEF TypeOK
<1>3. QED
  BY <1>1, <1>2

\* A frame that a module sends is appended to a sequence of frames.
LEMMA SendsType ==
  ASSUME TypeOK, NEW i \in Ids, NEW f \in Frames, Sends(i, f)
  PROVE  wire' \in [Sockets -> Seq(Frames)]
<1>1. CASE link[i] = None
  BY <1>1 DEF Sends, TypeOK
<1>2. CASE link[i] # None
  <2>1. link[i] \in Sockets /\ wire[link[i]] \in Seq(Frames)
    BY <1>2 DEF TypeOK
  <2>2. Append(wire[link[i]], f) \in Seq(Frames)
    BY <2>1, AppendProperties
  <2>3. QED
    BY <1>2, <2>1, <2>2 DEF Sends, TypeOK
<1>3. QED
  BY <1>1, <1>2

\* A message that arrives is a frame, and leaves a sequence of frames.
LEMMA ArrivesType ==
  ASSUME TypeOK, NEW s \in Sockets, NEW kind, Arrives(s, kind)
  PROVE  /\ Head(wire[s]) \in Frames
         /\ wire' \in [Sockets -> Seq(Frames)]
         /\ silent' \in [Sockets -> BOOLEAN]
<1>1. wire[s] \in Seq(Frames) /\ wire[s] # <<>>
  BY DEF TypeOK, Arrives
<1>2. Head(wire[s]) \in Frames /\ Tail(wire[s]) \in Seq(Frames)
  BY <1>1, HeadTailProperties
<1>3. QED
  BY <1>2 DEF TypeOK, Arrives

\* Setting one field of a clientInfo leaves a clientInfo.
LEMMA ClientInfoUpdates ==
  ASSUME NEW c \in ClientInfo
  PROVE  /\ \A b \in BOOLEAN : [c EXCEPT !.isScan = b] \in ClientInfo
         /\ \A b \in BOOLEAN : [c EXCEPT !.isActive = b] \in ClientInfo
         /\ \A m \in Modes : [c EXCEPT !.mode = m] \in ClientInfo
         /\ \A h \in {"dbm", "minus1", "junk"} : [c EXCEPT !.hard = h] \in ClientInfo
         /\ \A h \in {"dbm", "minus1", "junk"}, soft \in {"low", "full"} :
              [c EXCEPT !.soft = soft, !.hard = h] \in ClientInfo
BY DEF ClientInfo

\* What an answer leaves in a clientInfo is a clientInfo.
LEMMA NotedType ==
  ASSUME NEW c \in ClientInfo, NEW f \in [kind : {"answer"}, cmd : Commands, ok : BOOLEAN]
  PROVE  Noted(c, f) \in ClientInfo
<1>1. f.ok \in BOOLEAN /\ (~f.ok) \in BOOLEAN
  OBVIOUS
<1>2. /\ [c EXCEPT !.isScan = f.ok] \in ClientInfo
      /\ [c EXCEPT !.isScan = ~f.ok] \in ClientInfo
      /\ [c EXCEPT !.hard = "dbm"] \in ClientInfo
  BY <1>1, ClientInfoUpdates, Zenon
<1>3. QED
  BY <1>2, Zenon DEF Noted

\* The handler of an answer keeps the types.
LEMMA OnAnswerType ==
  ASSUME TypeOK, NEW s \in Sockets, OnAnswer(s)
  PROVE  TypeOK'
<1>1. /\ Head(wire[s]) \in Frames
      /\ wire' \in [Sockets -> Seq(Frames)]
      /\ silent' \in [Sockets -> BOOLEAN]
  BY ArrivesType DEF OnAnswer
<1>2. CASE Answerable(s)
  <2> DEFINE f == Head(wire[s])
  <2>1. f \in [kind : {"answer"}, cmd : Commands, ok : BOOLEAN]
    BY <1>1 DEF OnAnswer, Arrives, Frames
  <2>2. ResultOf(f) \in Results
    BY DEF ResultOf, Results
  <2>3. Noted(info[s], f) \in ClientInfo
    BY <2>1, NotedType DEF TypeOK
  <2>4. info[s].id \in Ids
    BY <1>2 DEF Answerable, TypeOK, ClientInfo
  <2>5. /\ Settle(info[s].id, ResultOf(f), s)
        /\ info' = [info EXCEPT ![s] = Noted(@, f)]
    BY <1>2 DEF OnAnswer
  <2>6. http' \in Calls /\ (http'.op = "none" => http'.todo = {})
    BY <2>2, <2>5 DEF Settle, TypeOK, Calls
  <2>7. /\ pending' \in [Ids -> Owners \cup {None}]
        /\ timer' \in [Ids -> SUBSET Owners]
    BY <2>4, <2>5 DEF Settle, TypeOK
  <2>8. info' \in [Sockets -> ClientInfo]
    BY <2>3, <2>5 DEF TypeOK
  <2>9. QED
    BY <1>1, <2>6, <2>7, <2>8 DEF OnAnswer, TypeOK, modules, counters
<1>3. CASE ~Answerable(s)
  BY <1>1, <1>3 DEF OnAnswer, TypeOK, modules, counters
<1>4. QED
  BY <1>2, <1>3

\* What the map refers to is a clientInfo.
LEMMA ClientTyped ==
  ASSUME TypeOK, NEW i \in Ids
  PROVE  Registered(i) => Client(i) \in ClientInfo
BY DEF TypeOK, Registered, Client

\* Type correctness is preserved by every step.
LEMMA TypeStep == TypeOK /\ [Next]_vars => TypeOK'
<1> SUFFICES ASSUME TypeOK, [Next]_vars
             PROVE  TypeOK'
  OBVIOUS
<1> USE DEF conns, service, modules, counters
<1>1. ASSUME NEW s \in Sockets, OnHello(s)
      PROVE  TypeOK'
  <2>1. /\ wire' \in [Sockets -> Seq(Frames)]
        /\ silent' \in [Sockets -> BOOLEAN]
    BY <1>1, ArrivesType DEF OnHello
  <2>2. info' \in [Sockets -> ClientInfo]
    <3>1. info[s] \in ClientInfo /\ peer[s] \in Ids \cup {None}
      BY DEF TypeOK
    <3>2. [info[s] EXCEPT !.id = peer[s]] \in ClientInfo
      BY <3>1 DEF ClientInfo
    <3>3. info' = [info EXCEPT ![s] = [info[s] EXCEPT !.id = peer[s]]]
      BY <1>1 DEF OnHello
    <3>4. QED
      BY <3>2, <3>3 DEF TypeOK
  <2>3. clients' \in [Ids -> Sockets \cup {None}]
    BY <1>1 DEF OnHello, TypeOK
  <2>4. QED
    BY <1>1, <2>1, <2>2, <2>3 DEF OnHello, TypeOK
<1>2. ASSUME NEW s \in Sockets, OnAnswer(s)
      PROVE  TypeOK'
  BY <1>2, OnAnswerType
<1>3. ASSUME NEW s \in Sockets, OnTag(s)
      PROVE  TypeOK'
  <2>1. /\ wire' \in [Sockets -> Seq(Frames)]
        /\ silent' \in [Sockets -> BOOLEAN]
    BY <1>3, ArrivesType DEF OnTag
  <2> DEFINE i == info[s].id
  <2>2. i \in Ids \cup {None}
    BY DEF TypeOK, ClientInfo
  <2>3. /\ pending' \in [Ids -> Owners \cup {None}]
        /\ timer' \in [Ids -> SUBSET Owners]
        /\ toDev' \in [Ids -> Seq(Commands)]
    <3>1. CASE ~Consumes(s) /\ i # None /\ CanSend(i)
      <4>1. SendRequest(i, "auto", "stop")
        BY <1>3, <3>1 DEF OnTag
      <4>2. i \in Ids /\ "auto" \in Owners /\ "stop" \in Commands
        BY <2>2, <3>1 DEF Owners, Commands
      <4>3. QED
        BY <4>1, <4>2, SendRequestType
    <3>2. CASE ~(~Consumes(s) /\ i # None /\ CanSend(i))
      BY <1>3, <3>2 DEF OnTag, TypeOK
    <3>3. QED
      BY <3>1, <3>2
  <2>4. QED
    BY <1>3, <2>1, <2>3 DEF OnTag, TypeOK
<1>4. ASSUME NEW s \in Sockets, Telemetry(s) \/ GoSilent(s)
      PROVE  TypeOK'
  <2>1. CASE Telemetry(s)
    BY <2>1 DEF Telemetry, TypeOK
  <2>2. CASE GoSilent(s)
    <3>1. faults' \in Nat
      BY <2>2 DEF GoSilent, TypeOK
    <3>2. QED
      BY <2>2, <3>1 DEF GoSilent, TypeOK
  <2>3. QED
    BY <1>4, <2>1, <2>2
<1>5. ASSUME NEW s \in Sockets, OnClose(s)
      PROVE  TypeOK'
  <2>1. NewClient \in ClientInfo
    BY ModeAssumption DEF NewClient, ClientInfo
  <2>2. toDev' \in [Ids -> Seq(Commands)]
    BY <1>5, EmptySeq DEF OnClose, TypeOK
  <2>3. wire' \in [Sockets -> Seq(Frames)]
    BY <1>5, EmptySeq DEF OnClose, TypeOK
  <2>4. QED
    BY <1>5, <2>1, <2>2, <2>3 DEF OnClose, Unregister, TypeOK
<1>22. ASSUME NEW s \in Sockets, PeerEnds(s)
       PROVE  TypeOK'
  BY <1>22 DEF PeerEnds, TypeOK
<1>6. ASSUME NEW i \in Ids, NEW s \in Sockets, Connect(i, s)
      PROVE  TypeOK'
  <2>1. NewClient \in ClientInfo
    BY ModeAssumption DEF NewClient, ClientInfo
  <2>2. <<[kind |-> "hello"]>> \in Seq(Frames)
    BY DEF Frames
  <2>3. QED
    BY <1>6, <2>1, <2>2 DEF Connect, TypeOK
<1>7. CASE Sweep
  BY <1>7 DEF Sweep, TypeOK
<1>8. CASE Restart
  <2>1. NewClient \in ClientInfo /\ NoCall \in Calls
    BY ModeAssumption DEF NewClient, ClientInfo, NoCall, Calls, Results
  <2>2. QED
    <3>1. /\ wire' \in [Sockets -> Seq(Frames)]
          /\ toDev' \in [Ids -> Seq(Commands)]
      BY <1>8, EmptySeq DEF Restart
    <3>2. http' \in Calls /\ (http'.op = "none" => http'.todo = {})
      BY <1>8, <2>1 DEF Restart, NoCall
    <3>3. faults' \in Nat
      BY <1>8 DEF Restart, TypeOK
    <3>4. QED
      BY <1>8, <2>1, <3>1, <3>2, <3>3 DEF Restart, TypeOK
<1>9. CASE HttpCall
  <2>1. ASSUME NEW op \in Commands, NEW ids \in SUBSET Ids, NEW soft \in {"low", "full"},
               Enter(op, ids, soft)
        PROVE  TypeOK'
    <3>1. http' \in Calls /\ http'.op # "none"
      BY <2>1 DEF Enter, Commands, NoCall, Calls, Results
    <3>2. QED
      BY <2>1, <3>1, BoundsAssumption DEF Enter, TypeOK
  <2>2. ASSUME NEW i \in Ids, NEW c, Registered(i) => c \in ClientInfo, Assign(i, c)
        PROVE  TypeOK'
    <3>1. info' \in [Sockets -> ClientInfo]
      BY <2>2 DEF Assign, Registered, TypeOK
    <3>2. QED
      BY <2>2, <3>1, BoundsAssumption DEF Assign, TypeOK
  <2>3. ASSUME NEW ids \in SUBSET Ids, StartScan(ids)
        PROVE  TypeOK'
    BY <2>1, <2>3 DEF StartScan, Commands
  <2>4. ASSUME NEW m \in Modes, StartScanByMode(m) \/ StopScanByMode(m)
        PROVE  TypeOK'
    BY <2>1, <2>4 DEF StartScanByMode, StopScanByMode, StartScan, Commands
  <2>5. ASSUME NEW i \in Ids,
               StopScan(i) \/ GetCurrentPower(i) \/ SetRegion(i) \/ GetModuleInfo(i)
        PROVE  TypeOK'
    BY <2>1, <2>5 DEF StopScan, GetCurrentPower, SetRegion, GetModuleInfo, Commands
  <2>6. ASSUME NEW i \in Ids, NEW soft \in {"low", "full"}, SetPower(i, soft)
        PROVE  TypeOK'
    BY <2>1, <2>6 DEF SetPower, Commands
  <2>7. ASSUME NEW i \in Ids, NEW b \in BOOLEAN, SetIsActive(i, b)
        PROVE  TypeOK'
    <3>1. Registered(i) => [Client(i) EXCEPT !.isActive = b] \in ClientInfo
      BY ClientTyped, ClientInfoUpdates, Zenon
    <3>2. QED
      BY <2>2, <2>7, <3>1 DEF SetIsActive
  <2>8. ASSUME NEW i \in Ids, NEW m \in Modes, SetMode(i, m)
        PROVE  TypeOK'
    <3>1. Registered(i) => [Client(i) EXCEPT !.mode = m] \in ClientInfo
      BY ClientTyped, ClientInfoUpdates, Zenon
    <3>2. QED
      BY <2>2, <2>8, <3>1 DEF SetMode
  <2>9. QED
    BY <1>9, <2>3, <2>4, <2>5, <2>6, <2>7, <2>8 DEF HttpCall
<1>10. ASSUME NEW i \in Ids, Turn(i)
       PROVE  TypeOK'
  <2>1. CASE Eligible(i)
    <3>1. Request(i, http.op, http.todo \ {i})
      BY <1>10, <2>1 DEF Turn
    <3>2. http.op \in Commands
      BY <1>10 DEF Turn, TypeOK, Calls
    <3>3. QED
      BY <1>10, <3>1, <3>2, RequestType DEF Turn, TypeOK
  <2>2. CASE ~Eligible(i)
    <3>1. http' \in Calls /\ (http'.op = "none" => http'.todo = {})
      <4>1. http' = [http EXCEPT !.todo = @ \ {i}]
        BY <1>10, <2>2 DEF Turn
      <4>2. http \in Calls /\ http.todo \ {i} \in SUBSET Ids
        BY DEF TypeOK, Calls
      <4>3. http' \in Calls
        BY <4>1, <4>2 DEF Calls
      <4>4. QED
        BY <4>1, <4>2, <4>3 DEF TypeOK, Calls
    <3>2. QED
      BY <1>10, <2>2, <3>1 DEF Turn, TypeOK
  <2>3. QED
    BY <2>1, <2>2
<1>11. CASE Finish
  BY <1>11 DEF Finish, TypeOK, NoCall, Calls, Results
<1>12. CASE ResumeReadBack
  <2>1. /\ Request(http.id, "getPower", {}) /\ "getPower" \in Commands
        /\ http.id \in Ids \cup {None} /\ {} \in SUBSET http.todo
    BY <1>12 DEF ResumeReadBack, Commands, TypeOK, Calls
  <2>2. QED
    BY <1>12, <2>1, RequestType DEF ResumeReadBack, TypeOK
<1>13. CASE ResumeStore
  <2>1. http' \in Calls /\ (http'.op = "none" => http'.todo = {})
    BY <1>13 DEF ResumeStore, TypeOK, Calls
  <2>2. info' \in [Sockets -> ClientInfo]
    <3>1. PowerRead \in {"dbm", "minus1", "junk"} /\ http.soft \in {"low", "full"}
      BY DEF PowerRead, TypeOK, Calls
    <3>2. CASE Registered(http.id) /\ clients[http.id] \in Sockets
      <4> DEFINE s == clients[http.id]
      <4>1. info' = [info EXCEPT ![s] = [@ EXCEPT !.soft = http.soft, !.hard = PowerRead]]
        BY <1>13, <3>2 DEF ResumeStore, TypeOK, ClientInfo
      <4>2. info[s] \in ClientInfo
        BY <3>2 DEF TypeOK
      <4>3. [info[s] EXCEPT !.soft = http.soft, !.hard = PowerRead] \in ClientInfo
        BY <3>1, <4>2, ClientInfoUpdates
      <4>4. QED
        BY <4>1, <4>3 DEF TypeOK
    <3>3. CASE ~(Registered(http.id) /\ clients[http.id] \in Sockets)
      BY <1>13, <3>3 DEF ResumeStore, TypeOK
    <3>4. QED
      BY <3>2, <3>3
  <2>3. QED
    BY <1>13, <2>1, <2>2 DEF ResumeStore, TypeOK
<1>14. CASE Resume
  <2>1. http' \in Calls /\ (http'.op = "none" => http'.todo = {})
    BY <1>14 DEF Resume, TypeOK, Calls
  <2>2. QED
    BY <1>14, <2>1 DEF Resume, TypeOK
<1>15. ASSUME NEW i \in Ids, NEW owner \in Owners, Timeout(i, owner)
       PROVE  TypeOK'
  <2>1. http' \in Calls /\ (http'.op = "none" => http'.todo = {})
    BY <1>15 DEF Timeout, TypeOK, Calls, Results
  <2>2. QED
    BY <1>15, <2>1 DEF Timeout, TypeOK
<1>16. ASSUME NEW i \in Ids, HandleBinaryCommand(i)
       PROVE  TypeOK'
  <2>1. Head(toDev[i]) \in Commands /\ Tail(toDev[i]) \in Seq(Commands)
    BY <1>16, HeadTailProperties DEF HandleBinaryCommand, TypeOK
  <2>2. toDev' \in [Ids -> Seq(Commands)]
    BY <1>16, <2>1 DEF HandleBinaryCommand, TypeOK
  <2>3. ASSUME NEW c \in Commands, SendCommand(i, c)
        PROVE  uart' \in [Ids -> Seq(Commands)]
    <3>1. Append(uart[i], c) \in Seq(Commands)
      BY AppendProperties DEF TypeOK
    <3>2. QED
      BY <2>3, <3>1 DEF SendCommand, TypeOK
  <2>4. wire' \in [Sockets -> Seq(Frames)] /\ uart' \in [Ids -> Seq(Commands)]
    <3>1. CASE Head(toDev[i]) = "start"
      <4>1. StartContinuous(i)
        BY <1>16, <3>1 DEF HandleBinaryCommand
      <4>2. "start" \in Commands /\ [kind |-> "answer", cmd |-> "start", ok |-> TRUE] \in Frames
        BY DEF Commands, Frames
      <4>3. QED
        BY <2>3, <4>1, <4>2, SendsType DEF StartContinuous
    <3>2. CASE Head(toDev[i]) # "start"
      BY <1>16, <2>1, <2>3, <3>2 DEF HandleBinaryCommand, TypeOK
    <3>3. QED
      BY <3>1, <3>2
  <2>5. QED
    BY <1>16, <2>2, <2>4 DEF HandleBinaryCommand, TypeOK
<1>17. ASSUME NEW i \in Ids, ReaderExecutes(i) \/ ReaderRefuses(i)
       PROVE  TypeOK'
  <2> DEFINE c == Head(uart[i])
  <2>1. c \in Commands /\ Tail(uart[i]) \in Seq(Commands)
    BY <1>17, HeadTailProperties DEF ReaderExecutes, ReaderRefuses, TypeOK
  <2>2. \A ok \in BOOLEAN : [kind |-> "answer", cmd |-> c, ok |-> ok] \in Frames
    BY <2>1 DEF Frames
  <2>3. wire' \in [Sockets -> Seq(Frames)]
    BY <1>17, <2>2, SendsType DEF ReaderExecutes, ReaderRefuses, TypeOK
  <2>4. uart' \in [Ids -> Seq(Commands)]
    BY <1>17, <2>1 DEF ReaderExecutes, ReaderRefuses, TypeOK
  <2>5. radio' \in [Ids -> BOOLEAN]
    BY <1>17 DEF ReaderExecutes, ReaderRefuses, TypeOK
  <2>6. QED
    <3>1. CASE ReaderExecutes(i)
      BY <2>3, <2>4, <2>5, <3>1 DEF ReaderExecutes, TypeOK
    <3>2. CASE ReaderRefuses(i)
      <4>1. faults' \in Nat
        BY <3>2 DEF ReaderRefuses, TypeOK
      <4>2. QED
        BY <2>3, <2>4, <2>5, <3>2, <4>1 DEF ReaderRefuses, TypeOK
    <3>3. QED
      BY <1>17, <3>1, <3>2
<1>18. ASSUME NEW i \in Ids, TagSeen(i)
       PROVE  TypeOK'
  <2>1. [kind |-> "tag"] \in Frames
    BY DEF Frames
  <2>2. QED
    BY <1>18, <2>1, SendsType DEF TagSeen, TypeOK
<1>19. ASSUME NEW i \in Ids, LoseLink(i) \/ PowerCut(i)
       PROVE  TypeOK'
  <2>1. CASE LoseLink(i)
    <3>1. faults' \in Nat /\ link' \in [Ids -> Sockets \cup {None}]
      BY <2>1 DEF LoseLink, TypeOK
    <3>2. toDev' \in [Ids -> Seq(Commands)]
      BY <2>1, EmptySeq DEF LoseLink, TypeOK
    <3>3. QED
      BY <2>1, <3>1, <3>2 DEF LoseLink, TypeOK
  <2>2. CASE PowerCut(i)
    <3>1. faults' \in Nat /\ link' \in [Ids -> Sockets \cup {None}]
      BY <2>2 DEF PowerCut, TypeOK
    <3>2. /\ toDev' \in [Ids -> Seq(Commands)]
          /\ uart' \in [Ids -> Seq(Commands)]
      BY <2>2, EmptySeq DEF PowerCut, TypeOK
    <3>3. QED
      BY <2>2, <3>1, <3>2 DEF PowerCut, TypeOK
  <2>3. QED
    BY <1>19, <2>1, <2>2
<1>20. CASE UNCHANGED vars
  BY <1>20 DEF vars, TypeOK
<1>21. QED
  BY <1>1, <1>2, <1>3, <1>4, <1>5, <1>6, <1>7, <1>8, <1>9, <1>10, <1>11, <1>12,
     <1>13, <1>14, <1>15, <1>16, <1>17, <1>18, <1>19, <1>20, <1>22
     DEF Next, HttpStep, OnMessage, ModuleStep, Fault

\* Every variable keeps its type in every reachable state.
THEOREM TypeCorrect == Spec => []TypeOK
BY TypeInit, TypeStep, PTL DEF Spec

-----------------------------------------------------------------------------
(***************************************************************************)
(* The request slots.                                                      *)
(***************************************************************************)
\* A request of the HTTP handler, sent or refused, leaves the slots owned.
LEMMA RequestKeepsSlots ==
  ASSUME TypeOK, SlotOwned, http.stage # "await",
         NEW i \in Ids, NEW cmd \in Commands, NEW todo, Request(i, cmd, todo)
  PROVE  SlotOwned'
<1>1. \A j \in Ids : pending[j] # "http"
  BY DEF SlotOwned
<1>2. CASE CanSend(i)
  <2>1. /\ pending' = [pending EXCEPT ![i] = "http"]
        /\ timer' = [timer EXCEPT ![i] = @ \cup {"http"}]
        /\ pending[i] = None
    BY <1>2 DEF Request, SendRequest, CanSend
  <2>2. http'.stage = "await" /\ http'.id = i
    BY <1>2 DEF Request, TypeOK, Calls
  <2>3. \A j \in Ids : timer'[j] = {pending'[j]} \ {None}
    BY <2>1, NoneAssumption DEF TypeOK, SlotOwned
  <2>4. \A j \in Ids : (pending'[j] = "http") <=> (j = i)
    BY <1>1, <2>1 DEF TypeOK
  <2>5. QED
    BY <2>2, <2>3, <2>4 DEF SlotOwned
<1>3. CASE ~CanSend(i)
  <2>1. http'.stage = "settled" /\ http'.id = i
    BY <1>3 DEF Request, TypeOK, Calls
  <2>2. UNCHANGED <<pending, timer>>
    BY <1>3 DEF Request
  <2>3. QED
    BY <1>1, <2>1, <2>2 DEF SlotOwned
<1>4. QED
  BY <1>2, <1>3

\* A step that leaves slots, timers and the handler's wait alone.
LEMMA SlotsUntouched ==
  ASSUME SlotOwned, UNCHANGED <<pending, timer>>,
         \/ http' = http
         \/ http.stage # "await" /\ http'.stage \notin {"await", "settled"}
  PROVE  SlotOwned'
BY DEF SlotOwned

\* The slots stay owned in every step.
LEMMA SlotStep == TypeOK /\ SlotOwned /\ [Next]_vars => SlotOwned'
<1> SUFFICES ASSUME TypeOK, SlotOwned, [Next]_vars
             PROVE  SlotOwned'
  OBVIOUS
<1> USE DEF conns, service, modules, counters
<1>1. ASSUME NEW s \in Sockets, OnAnswer(s)
      PROVE  SlotOwned'
  <2>1. CASE Answerable(s)
    <3> DEFINE i == info[s].id
               res == ResultOf(Head(wire[s]))
    <3>1. i \in Ids /\ pending[i] \in Owners
      BY <2>1 DEF Answerable, TypeOK, ClientInfo
    <3>2. Settle(i, res, s)
      BY <1>1, <2>1 DEF OnAnswer
    <3>3. \A j \in Ids : timer'[j] = {pending'[j]} \ {None}
      BY <3>1, <3>2 DEF Settle, TypeOK, SlotOwned
    <3>4. CASE pending[i] = "http"
      <4>1. http.stage = "await" /\ http.id = i
        BY <3>1, <3>4 DEF SlotOwned
      <4>2. http'.stage = "settled" /\ http'.id = i
        BY <3>2, <3>4, <4>1 DEF Settle, TypeOK, Calls
      <4>3. \A j \in Ids : pending'[j] # "http"
        BY <3>1, <3>2, <4>1, NoneAssumption DEF Settle, TypeOK, SlotOwned
      <4>4. QED
        BY <3>1, <3>3, <4>2, <4>3 DEF SlotOwned
    <3>5. CASE pending[i] # "http"
      <4>1. http' = http
        BY <3>2, <3>5 DEF Settle
      <4>2. \A j \in Ids : (pending'[j] = "http") <=> (pending[j] = "http")
        BY <3>1, <3>2, <3>5, NoneAssumption DEF Settle, TypeOK
      <4>3. QED
        BY <3>3, <4>1, <4>2 DEF SlotOwned
    <3>6. QED
      BY <3>4, <3>5
  <2>2. CASE ~Answerable(s)
    BY <1>1, <2>2, SlotsUntouched DEF OnAnswer
  <2>3. QED
    BY <2>1, <2>2
<1>2. ASSUME NEW s \in Sockets, OnTag(s)
      PROVE  SlotOwned'
  <2> DEFINE i == info[s].id
  <2>1. CASE ~Consumes(s) /\ i # None /\ CanSend(i)
    <3>1. i \in Ids /\ pending[i] = None
      BY <2>1 DEF TypeOK, ClientInfo, CanSend
    <3>2. /\ pending' = [pending EXCEPT ![i] = "auto"]
          /\ timer' = [timer EXCEPT ![i] = @ \cup {"auto"}]
          /\ http' = http
      BY <1>2, <2>1 DEF OnTag, SendRequest
    <3>3. \A j \in Ids : timer'[j] = {pending'[j]} \ {None}
      BY <3>1, <3>2, NoneAssumption DEF TypeOK, SlotOwned
    <3>4. \A j \in Ids : (pending'[j] = "http") <=> (pending[j] = "http")
      BY <3>1, <3>2, NoneAssumption DEF TypeOK
    <3>5. QED
      BY <3>2, <3>3, <3>4 DEF SlotOwned
  <2>2. CASE ~(~Consumes(s) /\ i # None /\ CanSend(i))
    BY <1>2, <2>2, SlotsUntouched DEF OnTag
  <2>3. QED
    BY <2>1, <2>2
<1>3. ASSUME NEW i \in Ids, NEW owner \in Owners, Timeout(i, owner)
      PROVE  SlotOwned'
  <2>1. pending[i] = owner /\ timer[i] = {owner}
    BY <1>3 DEF Timeout, SlotOwned
  <2>2. \A j \in Ids : timer'[j] = {pending'[j]} \ {None}
    BY <1>3, <2>1 DEF Timeout, TypeOK, SlotOwned
  <2>3. CASE owner = "http"
    <3>1. http.stage = "await" /\ http.id = i
      BY <2>1, <2>3 DEF SlotOwned
    <3>2. http'.stage = "settled" /\ http'.id = i
      BY <1>3, <2>3, <3>1 DEF Timeout, TypeOK, Calls
    <3>3. \A j \in Ids : pending'[j] # "http"
      BY <1>3, <3>1, NoneAssumption DEF Timeout, TypeOK, SlotOwned
    <3>4. QED
      BY <2>2, <3>2, <3>3 DEF SlotOwned
  <2>4. CASE owner # "http"
    <3>1. http' = http
      BY <1>3, <2>4 DEF Timeout
    <3>2. \A j \in Ids : (pending'[j] = "http") <=> (pending[j] = "http")
      BY <1>3, <2>1, <2>4, NoneAssumption DEF Timeout, TypeOK
    <3>3. QED
      BY <2>2, <3>1, <3>2 DEF SlotOwned
  <2>5. QED
    BY <2>3, <2>4
<1>4. ASSUME NEW i \in Ids, Turn(i)
      PROVE  SlotOwned'
  <2>1. CASE Eligible(i)
    <3>1. Request(i, http.op, http.todo \ {i}) /\ http.op \in Commands
      BY <1>4, <2>1 DEF Turn, TypeOK, Calls
    <3>2. QED
      BY <1>4, <3>1, RequestKeepsSlots DEF Turn
  <2>2. CASE ~Eligible(i)
    <3>1. http'.stage = "turn"
      BY <1>4, <2>2 DEF Turn, TypeOK, Calls
    <3>2. QED
      BY <1>4, <2>2, <3>1, SlotsUntouched DEF Turn
  <2>3. QED
    BY <2>1, <2>2
<1>5. CASE ResumeReadBack
  <2>1. /\ Request(http.id, "getPower", {}) /\ "getPower" \in Commands
        /\ http.id \in Ids /\ http.stage # "await"
    BY <1>5 DEF ResumeReadBack, Commands, SlotOwned
  <2>2. QED
    BY <2>1, RequestKeepsSlots
<1>6. CASE Finish \/ ResumeStore \/ Resume
  <2>1. http.stage # "await"
    BY <1>6 DEF Finish, ResumeStore, Resume
  <2>2. CASE http' = NoCall
    BY <1>6, <2>1, <2>2, SlotsUntouched DEF Finish, ResumeStore, Resume, NoCall
  <2>3. CASE http' = [http EXCEPT !.stage = "turn", !.src = None]
    <3>1. http'.stage = "turn"
      BY <2>3 DEF TypeOK, Calls
    <3>2. QED
      BY <1>6, <2>1, <3>1, SlotsUntouched DEF Finish, ResumeStore, Resume
  <2>4. QED
    BY <1>6, <2>2, <2>3 DEF Finish, ResumeStore, Resume
<1>7. CASE HttpCall
  <2>1. ASSUME NEW op, NEW ids, NEW soft, Enter(op, ids, soft)
        PROVE  SlotOwned'
    <3>1. http.stage # "await" /\ http'.stage = "turn"
      BY <2>1 DEF Enter, NoCall
    <3>2. QED
      BY <2>1, <3>1, SlotsUntouched DEF Enter
  <2>2. ASSUME NEW i, NEW c, Assign(i, c)
        PROVE  SlotOwned'
    BY <2>2, SlotsUntouched DEF Assign
  <2>3. ASSUME NEW m, StartScanByMode(m) \/ StopScanByMode(m)
        PROVE  SlotOwned'
    BY <2>1, <2>3 DEF StartScanByMode, StopScanByMode, StartScan
  <2>4. ASSUME NEW i, \/ StopScan(i) \/ GetCurrentPower(i) \/ SetRegion(i)
                      \/ GetModuleInfo(i)
        PROVE  SlotOwned'
    BY <2>1, <2>4 DEF StopScan, GetCurrentPower, SetRegion, GetModuleInfo
  <2>5. ASSUME NEW i, NEW x, StartScan(x) \/ SetPower(i, x) \/ SetIsActive(i, x) \/ SetMode(i, x)
        PROVE  SlotOwned'
    BY <2>1, <2>2, <2>5 DEF StartScan, SetPower, SetIsActive, SetMode
  <2>6. QED
    BY <1>7, <2>3, <2>4, <2>5 DEF HttpCall
<1>8. CASE Restart
  BY <1>8, NoneAssumption DEF Restart, SlotOwned, NoCall
<1>9. ASSUME NEW s \in Sockets, \/ OnHello(s) \/ Telemetry(s) \/ PeerEnds(s)
                                \/ OnClose(s) \/ GoSilent(s)
      PROVE  SlotOwned'
  <2>1. UNCHANGED <<pending, timer, http>>
    BY <1>9 DEF OnHello, Telemetry, PeerEnds, OnClose, GoSilent
  <2>2. QED
    BY <2>1, SlotsUntouched
<1>10. ASSUME NEW i \in Ids, \/ ModuleStep(i) \/ TagSeen(i) \/ ReaderRefuses(i)
                             \/ LoseLink(i) \/ PowerCut(i)
                             \/ \E s \in Sockets : Connect(i, s)
       PROVE  SlotOwned'
  <2>1. UNCHANGED <<pending, timer, http>>
    BY <1>10 DEF ModuleStep, HandleBinaryCommand, ReaderExecutes, TagSeen,
       ReaderRefuses, LoseLink, PowerCut, Connect
  <2>2. QED
    BY <2>1, SlotsUntouched
<1>11. CASE Sweep
  BY <1>11, SlotsUntouched DEF Sweep
<1>12. CASE UNCHANGED vars
  BY <1>12, SlotsUntouched DEF vars
<1>13. QED
  BY <1>1, <1>2, <1>3, <1>4, <1>5, <1>6, <1>7, <1>8, <1>9, <1>10, <1>11, <1>12
     DEF Next, HttpStep, OnMessage, Fault

\* In every reachable state each request slot has exactly one timer and exactly
\* one caller waiting for it, and the HTTP handler waits exactly while it holds
\* the slot of its module.
THEOREM SlotsOwned == Spec => []SlotOwned
<1>1. Init => SlotOwned
  BY NoneAssumption DEF Init, SlotOwned, NoCall
<1>2. QED
  BY <1>1, SlotStep, TypeCorrect, PTL DEF Spec

-----------------------------------------------------------------------------
(***************************************************************************)
(* The registry.  What it says of a registered connection is not inductive *)
(* alone: a hello handled on a socket the server has closed would register *)
(* it.  HelloFirst excludes it, and LinkInv says what the other end of a   *)
(* connection can be.                                                      *)
(***************************************************************************)
\* The connection a module believes it has is one to itself, and a connection that
\* is not closed has a module at its other end.
LinkOf(i) == link[i] # None => peer[link[i]] = i /\ sock[link[i]] # "free"
LinkInv   == /\ \A i \in Ids : LinkOf(i)
             /\ \A s \in Sockets : sock[s] # "free" => peer[s] \in Ids

RegistryInv == RegistryConsistent /\ HelloFirst /\ LinkInv

\* What the map, the ids and the far ends of connections can be.
LEMMA RegistryTyped ==
  ASSUME TypeOK
  PROVE  /\ \A i \in Ids : clients[i] \in Sockets \cup {None}
         /\ \A s \in Sockets : info[s].id \in Ids \cup {None}
         /\ \A s \in Sockets : peer[s] \in Ids \cup {None}
BY DEF TypeOK, ClientInfo

\* A link is made over a new connection only, and both ends forget it when it closes.
LEMMA LinkStep == TypeOK /\ RegistryConsistent /\ LinkInv /\ [Next]_vars => LinkInv'
<1> SUFFICES ASSUME TypeOK, RegistryConsistent, LinkInv, [Next]_vars
             PROVE  LinkInv'
  OBVIOUS
<1> USE DEF conns, service, modules, counters
<1>1. ASSUME NEW i \in Ids, NEW s \in Sockets, Connect(i, s)
      PROVE  LinkInv'
  <2>1. /\ link'[i] = s /\ peer'[s] = i /\ sock'[s] = "open" /\ sock[s] = "free"
        /\ \A j \in Ids : j # i => link'[j] = link[j]
        /\ \A t \in Sockets : t # s => peer'[t] = peer[t] /\ sock'[t] = sock[t]
    BY <1>1 DEF Connect, TypeOK
  <2>2. \A j \in Ids : link[j] # None => link[j] \in Sockets /\ link[j] # s
    BY <2>1 DEF LinkInv, LinkOf, TypeOK
  <2>3. ASSUME NEW j \in Ids, link'[j] # None
        PROVE  LinkOf(j)'
    <3>1. CASE j = i
      BY <2>1, <3>1 DEF LinkOf
    <3>2. CASE j # i
      BY <2>1, <2>2, <2>3, <3>2 DEF LinkInv, LinkOf
    <3> QED
      BY <3>1, <3>2
  <2>4. \A t \in Sockets : sock'[t] # "free" => peer'[t] \in Ids
    BY <2>1 DEF LinkInv
  <2> QED
    BY <2>3, <2>4 DEF LinkInv, LinkOf
<1>2. ASSUME NEW s \in Sockets, OnClose(s)
      PROVE  LinkInv'
  <2>1. /\ \A j \in Ids : link'[j] = IF link[j] = s THEN None ELSE link[j]
        /\ \A t \in Sockets : t # s => peer'[t] = peer[t] /\ sock'[t] = sock[t]
        /\ sock'[s] = "free"
    BY <1>2 DEF OnClose, TypeOK
  <2>2. ASSUME NEW j \in Ids, link'[j] # None
        PROVE  peer'[link'[j]] = j /\ sock'[link'[j]] # "free"
    BY <2>1, <2>2 DEF LinkInv, LinkOf, TypeOK
  <2>3. \A t \in Sockets : sock'[t] # "free" => peer'[t] \in Ids
    BY <2>1 DEF LinkInv
  <2> QED
    BY <2>2, <2>3 DEF LinkInv, LinkOf
<1>3. CASE Restart
  BY <1>3 DEF Restart, LinkInv, LinkOf
<1>4. ASSUME NEW i \in Ids, LoseLink(i) \/ PowerCut(i)
      PROVE  LinkInv'
  <2>1. /\ \A j \in Ids : link'[j] \in {link[j], None}
        /\ UNCHANGED <<peer, sock>>
    BY <1>4 DEF LoseLink, PowerCut, TypeOK
  <2> QED
    BY <2>1 DEF LinkInv, LinkOf
<1>5. CASE Sweep
  <2>1. \A s \in Sockets : sock'[s] \in {sock[s], "closing"}
    BY <1>5 DEF Sweep
  <2>2. \A s \in Sockets : sock'[s] # sock[s] => \E i \in Ids : clients[i] = s /\ Registered(i)
    BY <1>5 DEF Sweep, Expired, Registered
  <2>3. \A s \in Sockets : sock'[s] # "free" => peer[s] \in Ids
    BY <2>1, <2>2 DEF LinkInv, RegistryConsistent
  <2>4. UNCHANGED <<peer, link>>
    BY <1>5 DEF Sweep
  <2> QED
    BY <2>1, <2>3, <2>4 DEF LinkInv, LinkOf, TypeOK
<1>6. CASE UNCHANGED <<sock, peer, link>>
  BY <1>6 DEF LinkInv, LinkOf
<1>12. ASSUME NEW s \in Sockets, PeerEnds(s)
       PROVE  LinkInv'
  <2>1. /\ \A t \in Sockets : sock'[t] = IF t = s THEN "closing" ELSE sock[t]
        /\ sock[s] = "open"
        /\ UNCHANGED <<peer, link>>
    BY <1>12 DEF PeerEnds, TypeOK
  <2> QED
    BY <2>1 DEF LinkInv, LinkOf, TypeOK
<1>7. ASSUME NEW s \in Sockets, OnMessage(s) \/ Telemetry(s) \/ GoSilent(s)
      PROVE  UNCHANGED <<sock, peer, link>>
  BY <1>7 DEF OnMessage, OnHello, OnAnswer, OnTag, Telemetry, GoSilent
<1>8. ASSUME NEW i \in Ids, ModuleStep(i) \/ TagSeen(i) \/ ReaderRefuses(i)
      PROVE  UNCHANGED <<sock, peer, link>>
  BY <1>8 DEF ModuleStep, HandleBinaryCommand, ReaderExecutes, TagSeen, ReaderRefuses
<1>9. ASSUME HttpStep \/ \E i \in Ids, owner \in Owners : Timeout(i, owner)
      PROVE  UNCHANGED <<sock, peer, link>>
  BY <1>9 DEF HttpStep, Turn, Finish, ResumeReadBack, ResumeStore, Resume, Timeout
<1>10. CASE HttpCall
  <2>1. ASSUME NEW op, NEW ids, NEW soft, Enter(op, ids, soft)
        PROVE  UNCHANGED <<sock, peer, link>>
    BY <2>1 DEF Enter
  <2>2. ASSUME NEW i, NEW c, Assign(i, c)
        PROVE  UNCHANGED <<sock, peer, link>>
    BY <2>2 DEF Assign
  <2> QED
    BY <1>10, <2>1, <2>2, <1>6 DEF HttpCall, StartScanByMode, StopScanByMode, StartScan, StopScan,
       GetCurrentPower, SetRegion, GetModuleInfo, SetPower, SetIsActive, SetMode
<1>11. CASE UNCHANGED vars
  BY <1>11 DEF vars, LinkInv, LinkOf
<1> QED
  BY <1>1, <1>2, <1>3, <1>4, <1>5, <1>6, <1>7, <1>8, <1>9, <1>10, <1>11,
     <1>12 DEF Next, Fault

\* Handling a frame leaves no hello on that connection.
LEMMA NoHelloAfterArrival ==
  ASSUME TypeOK, HelloFirst, NEW s \in Sockets, NEW kind, Arrives(s, kind)
  PROVE  \A t \in Sockets : \A n \in 1..Len(wire'[t]) : wire'[t][n].kind = "hello" =>
           t # s /\ wire'[t] = wire[t]
<1>1. wire[s] \in Seq(Frames) /\ wire[s] # <<>>
  BY DEF TypeOK, Arrives
<1>2. wire' = [wire EXCEPT ![s] = Tail(wire[s])]
  BY DEF Arrives
<1>3. \A n \in 1..Len(Tail(wire[s])) : Tail(wire[s])[n].kind # "hello"
  <2> TAKE n \in 1..Len(Tail(wire[s]))
  <2>1. /\ Tail(wire[s])[n] = wire[s][n+1]
        /\ n + 1 \in 1..Len(wire[s]) /\ n + 1 # 1
    BY <1>1, HeadTailProperties, LenProperties
  <2>2. QED
    BY <2>1 DEF HelloFirst
<1>4. QED
  BY <1>2, <1>3 DEF TypeOK

\* A frame that a module sends is no hello of an established connection.
LEMMA SendsKeepsHelloFirst ==
  ASSUME TypeOK, HelloFirst, NEW i \in Ids, NEW f \in Frames, f.kind # "hello",
         Sends(i, f), UNCHANGED <<sock, info, peer, link>>
  PROVE  HelloFirst'
<1>1. CASE link[i] = None
  BY <1>1 DEF Sends, HelloFirst
<1>2. CASE link[i] # None
  <2> DEFINE s == link[i]
  <2>1. s \in Sockets /\ wire[s] \in Seq(Frames)
    BY <1>2 DEF TypeOK
  <2>2. wire' = [wire EXCEPT ![s] = Append(wire[s], f)]
    BY <1>2 DEF Sends
  <2>3. /\ Len(Append(wire[s], f)) = Len(wire[s]) + 1
        /\ \A n \in 1..Len(wire[s]) : Append(wire[s], f)[n] = wire[s][n]
        /\ Append(wire[s], f)[Len(wire[s]) + 1] = f
        /\ Len(wire[s]) \in Nat
    BY <2>1, AppendProperties, LenProperties
  <2>4. \A n \in 1..Len(wire'[s]) : wire'[s][n].kind = "hello" =>
          n \in 1..Len(wire[s]) /\ wire[s][n].kind = "hello"
    BY <2>1, <2>2, <2>3 DEF TypeOK
  <2>5. \A t \in Sockets : t # s => wire'[t] = wire[t]
    BY <2>2 DEF TypeOK
  <2>6. QED
    BY <2>4, <2>5 DEF HelloFirst
<1>3. QED
  BY <1>1, <1>2

\* A step that leaves the map, the sockets and the known ids alone; a module may
\* lose its link.
LEMMA RegistryUntouched ==
  ASSUME RegistryConsistent, TypeOK, UNCHANGED <<clients, sock, peer>>,
         \A s \in Sockets : info'[s].id = info[s].id,
         \A i \in Ids : link'[i] \in {link[i], None}
  PROVE  RegistryConsistent'
BY RegistryTyped, NoneAssumption DEF RegistryConsistent, Registered, Client

\* The registry stays consistent in every step.
LEMMA RegistryStep == TypeOK /\ RegistryInv /\ [Next]_vars => RegistryInv'
<1> SUFFICES ASSUME TypeOK, RegistryConsistent, HelloFirst, LinkInv, [Next]_vars
             PROVE  RegistryConsistent' /\ HelloFirst'
  BY LinkStep DEF RegistryInv
<1> USE DEF conns, service, modules, counters
<1>1. ASSUME NEW s \in Sockets, OnHello(s)
      PROVE  RegistryConsistent' /\ HelloFirst'
  <2>1. 1 \in 1..Len(wire[s]) /\ wire[s][1].kind = "hello"
    BY <1>1, EmptySeq, HeadTailProperties, LenProperties DEF OnHello, Arrives, TypeOK
  <2>2. sock[s] = "open" \/ (sock[s] = "closing" /\ link[peer[s]] # s)
    BY <2>1 DEF HelloFirst
  <2>3. /\ \A t \in Sockets : info'[t].id = IF t = s THEN peer[s] ELSE info[t].id
        /\ UNCHANGED <<sock, peer, link>>
    BY <1>1 DEF OnHello, TypeOK, ClientInfo
  <2>4. \A i \in Ids : clients'[i] = IF i = peer[s] THEN s ELSE clients[i]
    BY <1>1 DEF OnHello, TypeOK
  <2>5. RegistryConsistent'
    BY <2>2, <2>3, <2>4, RegistryTyped, NoneAssumption DEF RegistryConsistent, Registered, Client
  <2>6. HelloFirst'
    BY <1>1, <2>3, NoHelloAfterArrival DEF OnHello, HelloFirst
  <2>7. QED
    BY <2>5, <2>6
<1>2. ASSUME NEW s \in Sockets, OnAnswer(s)
      PROVE  RegistryConsistent' /\ HelloFirst'
  <2>1. \A t \in Sockets : info'[t].id = info[t].id
    <3>1. Noted(info[s], Head(wire[s])).id = info[s].id
      BY DEF Noted, TypeOK, ClientInfo
    <3>2. info' = info \/ info' = [info EXCEPT ![s] = Noted(info[s], Head(wire[s]))]
      BY <1>2 DEF OnAnswer
    <3>3. QED
      BY <3>1, <3>2 DEF TypeOK
  <2>2. RegistryConsistent'
    BY <1>2, <2>1, RegistryUntouched DEF OnAnswer
  <2>3. HelloFirst'
    BY <1>2, <2>1, NoHelloAfterArrival DEF OnAnswer, HelloFirst
  <2>4. QED
    BY <2>2, <2>3
<1>3. ASSUME NEW s \in Sockets, OnTag(s)
      PROVE  RegistryConsistent' /\ HelloFirst'
  <2>1. RegistryConsistent'
    BY <1>3, RegistryUntouched DEF OnTag
  <2>2. HelloFirst'
    BY <1>3, NoHelloAfterArrival DEF OnTag, HelloFirst
  <2>3. QED
    BY <2>1, <2>2
<1>4. ASSUME NEW s \in Sockets, OnClose(s)
      PROVE  RegistryConsistent' /\ HelloFirst'
  <2>1. /\ \A i \in Ids : clients'[i] = IF clients[i] = s THEN None ELSE clients[i]
        /\ \A t \in Sockets : t # s => /\ sock'[t] = sock[t] /\ peer'[t] = peer[t]
                                       /\ info'[t] = info[t] /\ wire'[t] = wire[t]
        /\ info'[s].id = None /\ wire'[s] = <<>>
        /\ \A i \in Ids : link'[i] \in {link[i], None}
    BY <1>4 DEF OnClose, Unregister, TypeOK, NewClient
  <2>2. RegistryConsistent'
    BY <2>1, RegistryTyped, NoneAssumption DEF RegistryConsistent, Registered, Client
  <2>3. HelloFirst'
    BY <2>1, EmptySeq, NoneAssumption DEF HelloFirst, LinkInv
  <2>4. QED
    BY <2>2, <2>3
<1>5. ASSUME NEW i \in Ids, NEW s \in Sockets, Connect(i, s)
      PROVE  RegistryConsistent' /\ HelloFirst'
  <2>1. /\ \A t \in Sockets : t # s => /\ sock'[t] = sock[t] /\ peer'[t] = peer[t]
                                       /\ info'[t] = info[t] /\ wire'[t] = wire[t]
        /\ info'[s].id = None /\ sock'[s] = "open" /\ wire'[s] = <<[kind |-> "hello"]>>
        /\ UNCHANGED clients /\ sock[s] = "free"
        /\ \A j \in Ids : link'[j] \in {link[j], s}
    BY <1>5 DEF Connect, TypeOK, NewClient
  <2>2. RegistryConsistent'
    BY <2>1, RegistryTyped, NoneAssumption DEF RegistryConsistent, Registered, Client
  <2>3. HelloFirst'
    BY <2>1 DEF HelloFirst, LinkInv
  <2>4. QED
    BY <2>2, <2>3
<1>6. CASE Sweep
  <2>1. \A i \in Ids : clients'[i] = IF i \in Expired THEN None ELSE clients[i]
    BY <1>6 DEF Sweep
  <2>2. \A i \in Ids : (Registered(i) /\ i \notin Expired) => sock'[clients[i]] = sock[clients[i]]
    BY <1>6 DEF Sweep, Expired, Registered, RegistryConsistent, TypeOK
  <2>3. RegistryConsistent'
    BY <1>6, <2>1, <2>2 DEF Sweep, RegistryConsistent, Registered, Client
  <2>4. \A s \in Sockets : sock'[s] # sock[s] => info[s].id # None
    BY <1>6, NoneAssumption DEF Sweep, Expired, RegistryConsistent, Registered, Client, TypeOK
  <2>5. HelloFirst'
    BY <1>6, <2>4 DEF Sweep, HelloFirst
  <2>6. QED
    BY <2>3, <2>5
<1>7. CASE Restart
  BY <1>7, EmptySeq DEF Restart, RegistryConsistent, HelloFirst, Registered, NewClient
<1>8. ASSUME NEW i, NEW c, c.id = Client(i).id, Assign(i, c)
      PROVE  RegistryConsistent' /\ HelloFirst'
  <2>1. \A s \in Sockets : info'[s].id = info[s].id
    BY <1>8 DEF Assign, Registered, Client, TypeOK
  <2>2. QED
    BY <1>8, <2>1, RegistryUntouched DEF Assign, HelloFirst
<1>9. CASE ResumeStore
  <2>1. \A s \in Sockets : info'[s].id = info[s].id
    BY <1>9 DEF ResumeStore, TypeOK, ClientInfo
  <2>2. QED
    BY <1>9, <2>1, RegistryUntouched DEF ResumeStore, HelloFirst
<1>10. ASSUME UNCHANGED <<sock, info, wire, peer, clients>>,
              \A i \in Ids : link'[i] \in {link[i], None}
       PROVE  RegistryConsistent' /\ HelloFirst'
  <2>1. HelloFirst'
    BY <1>10, NoneAssumption DEF HelloFirst, LinkInv
  <2> QED
    BY <1>10, <2>1, RegistryUntouched
<1>11. ASSUME NEW i \in Ids, ModuleStep(i) \/ TagSeen(i) \/ ReaderRefuses(i)
       PROVE  RegistryConsistent' /\ HelloFirst'
  <2>1. UNCHANGED <<sock, info, peer, clients, link>>
    BY <1>11 DEF ModuleStep, HandleBinaryCommand, ReaderExecutes, TagSeen, ReaderRefuses
  <2>2. RegistryConsistent'
    BY <2>1, RegistryUntouched
  <2>3. ASSUME NEW f \in Frames, f.kind # "hello", Sends(i, f)
        PROVE  HelloFirst'
    BY <2>1, <2>3, SendsKeepsHelloFirst
  <2>4. ASSUME UNCHANGED wire
        PROVE  HelloFirst'
    BY <2>1, <2>4 DEF HelloFirst
  <2>5. \A c \in Commands, ok \in BOOLEAN :
          /\ [kind |-> "answer", cmd |-> c, ok |-> ok] \in Frames
          /\ [kind |-> "answer", cmd |-> c, ok |-> ok].kind # "hello"
    BY DEF Frames
  <2>6. CASE HandleBinaryCommand(i)
    <3>1. "start" \in Commands
      BY DEF Commands
    <3>2. QED
      <4>1. CASE UNCHANGED wire
        BY <2>2, <2>4, <4>1
      <4>2. CASE Sends(i, [kind |-> "answer", cmd |-> "start", ok |-> TRUE])
        BY <2>2, <2>3, <2>5, <3>1, <4>2
      <4>3. QED
        BY <2>6, <4>1, <4>2 DEF HandleBinaryCommand, StartContinuous
  <2>7. CASE ReaderExecutes(i) \/ ReaderRefuses(i)
    <3>1. Head(uart[i]) \in Commands
      BY <2>7, HeadTailProperties DEF ReaderExecutes, ReaderRefuses, TypeOK
    <3>2. QED
      <4>1. CASE UNCHANGED wire
        BY <2>2, <2>4, <4>1
      <4>2. ASSUME NEW ok \in BOOLEAN,
                   Sends(i, [kind |-> "answer", cmd |-> Head(uart[i]), ok |-> ok])
            PROVE  RegistryConsistent' /\ HelloFirst'
        BY <2>2, <2>3, <2>5, <3>1, <4>2
      <4>3. QED
        BY <2>7, <4>1, <4>2 DEF ReaderExecutes, ReaderRefuses
  <2>8. CASE TagSeen(i)
    <3>1. [kind |-> "tag"] \in Frames /\ [kind |-> "tag"].kind # "hello"
      BY DEF Frames
    <3>2. QED
      BY <2>2, <2>3, <2>8, <3>1 DEF TagSeen
  <2>9. QED
    BY <1>11, <2>2, <2>6, <2>7, <2>8 DEF ModuleStep
<1>12. CASE HttpCall
  <2>1. ASSUME NEW op, NEW ids, NEW soft, Enter(op, ids, soft)
        PROVE  RegistryConsistent' /\ HelloFirst'
    BY <1>10, <2>1 DEF Enter
  <2>2. ASSUME NEW m, StartScanByMode(m) \/ StopScanByMode(m)
        PROVE  RegistryConsistent' /\ HelloFirst'
    BY <2>1, <2>2 DEF StartScanByMode, StopScanByMode, StartScan
  <2>3. ASSUME NEW i, \/ StopScan(i) \/ GetCurrentPower(i) \/ SetRegion(i)
                      \/ GetModuleInfo(i)
        PROVE  RegistryConsistent' /\ HelloFirst'
    BY <2>1, <2>3 DEF StopScan, GetCurrentPower, SetRegion, GetModuleInfo
  <2>4. ASSUME NEW i, NEW x, StartScan(x) \/ SetPower(i, x)
        PROVE  RegistryConsistent' /\ HelloFirst'
    BY <2>1, <2>4 DEF StartScan, SetPower
  <2>5. ASSUME NEW i \in Ids, NEW x, SetIsActive(i, x) \/ SetMode(i, x)
        PROVE  RegistryConsistent' /\ HelloFirst'
    <3>1. /\ [Client(i) EXCEPT !.isActive = x].id = Client(i).id
          /\ [Client(i) EXCEPT !.mode = x].id = Client(i).id
      OBVIOUS
    <3>2. QED
      BY <1>8, <2>5, <3>1 DEF SetIsActive, SetMode
  <2>6. QED
    BY <1>12, <2>2, <2>3, <2>4, <2>5 DEF HttpCall
<1>13. CASE HttpStep
  <2>1. ASSUME NEW i \in Ids, Turn(i)
        PROVE  RegistryConsistent' /\ HelloFirst'
    BY <1>10, <2>1 DEF Turn
  <2>2. CASE Finish \/ ResumeReadBack \/ Resume
    BY <1>10, <2>2 DEF Finish, ResumeReadBack, Resume
  <2>3. QED
    BY <1>9, <1>13, <2>1, <2>2 DEF HttpStep
<1>14. ASSUME NEW i \in Ids, \/ LoseLink(i) \/ PowerCut(i)
                             \/ \E owner \in Owners : Timeout(i, owner)
       PROVE  RegistryConsistent' /\ HelloFirst'
  <2>1. UNCHANGED <<sock, info, wire, peer, clients>>
        /\ \A j \in Ids : link'[j] \in {link[j], None}
    BY <1>14 DEF LoseLink, PowerCut, Timeout, TypeOK
  <2> QED
    BY <1>10, <2>1
<1>15. ASSUME NEW s \in Sockets, Telemetry(s) \/ GoSilent(s)
       PROVE  RegistryConsistent' /\ HelloFirst'
  BY <1>10, <1>15 DEF Telemetry, GoSilent
<1>16. CASE UNCHANGED vars
  BY <1>10, <1>16 DEF vars
<1>18. ASSUME NEW s \in Sockets, PeerEnds(s)
       PROVE  RegistryConsistent' /\ HelloFirst'
  <2>1. /\ \A t \in Sockets : sock'[t] = IF t = s THEN "closing" ELSE sock[t]
        /\ sock[s] = "open" /\ link[peer[s]] # s
        /\ UNCHANGED <<info, wire, peer, clients, link>>
    BY <1>18 DEF PeerEnds, TypeOK
  <2>2. RegistryConsistent'
    BY <2>1, RegistryTyped, NoneAssumption DEF RegistryConsistent, Registered, Client
  <2>3. HelloFirst'
    BY <2>1 DEF HelloFirst
  <2> QED
    BY <2>2, <2>3
<1>17. QED
  BY <1>1, <1>2, <1>3, <1>4, <1>5, <1>6, <1>7, <1>11, <1>12, <1>13, <1>14, <1>15, <1>16,
     <1>18 DEF Next, OnMessage, Fault

\* The strengthening holds in every reachable state.
LEMMA RegistryHolds == Spec => []RegistryInv
<1>1. Init => RegistryInv
  BY EmptySeq DEF Init, RegistryInv, RegistryConsistent, HelloFirst, LinkInv, LinkOf, Registered,
     NewClient
<1> QED
  BY <1>1, RegistryStep, TypeCorrect, PTL DEF Spec

\* In every reachable state the map of modules refers to connections of the modules
\* they are registered for, whose clientInfo carries that module's id: open ones, or
\* ones that are closing because their module left them, the close event still to come.
THEOREM RegistryIsConsistent == Spec => []RegistryConsistent
<1>1. RegistryInv => RegistryConsistent
  BY DEF RegistryInv
<1> QED
  BY <1>1, RegistryHolds, PTL

-----------------------------------------------------------------------------
(***************************************************************************)
(* What a step may never do.                                               *)
(***************************************************************************)
\* Only a close, a sweep and a restart take an entry out of the map.
LEMMA KeepsClientStep ==
  ASSUME TypeOK, [Next]_vars, NEW i \in Ids
  PROVE  KeepsClient(i)
<1> USE DEF conns, service, modules, counters
<1>1. ASSUME UNCHANGED clients
      PROVE  KeepsClient(i)
  BY <1>1 DEF KeepsClient, Registered
<1>2. ASSUME NEW s \in Sockets, OnHello(s)
      PROVE  KeepsClient(i)
  BY <1>2, NoneAssumption DEF OnHello, KeepsClient, Registered, TypeOK
<1>3. ASSUME NEW s \in Sockets, OnClose(s)
      PROVE  KeepsClient(i)
  BY <1>3 DEF OnClose, Unregister, KeepsClient, Registered, TypeOK
<1>4. CASE Sweep
  BY <1>4 DEF Sweep, Expired, KeepsClient, Registered
<1>5. CASE Restart
  BY <1>5 DEF Restart, KeepsClient, Registered, TypeOK
<1>6. CASE HttpCall
  <2>1. ASSUME NEW j, NEW m, \/ StartScanByMode(m) \/ StopScanByMode(m) \/ StopScan(j)
                             \/ GetCurrentPower(j) \/ SetRegion(j) \/ GetModuleInfo(j)
        PROVE  UNCHANGED clients
    BY <2>1 DEF StartScanByMode, StopScanByMode, StartScan, StopScan, GetCurrentPower,
       SetRegion, GetModuleInfo, Enter
  <2>2. ASSUME NEW j, NEW x, StartScan(x) \/ SetPower(j, x) \/ SetIsActive(j, x) \/ SetMode(j, x)
        PROVE  UNCHANGED clients
    BY <2>2 DEF StartScan, SetPower, SetIsActive, SetMode, Enter, Assign
  <2>3. QED
    BY <1>1, <1>6, <2>1, <2>2 DEF HttpCall
<1>7. CASE HttpStep
  BY <1>1, <1>7 DEF HttpStep, Turn, Finish, ResumeReadBack, ResumeStore, Resume
<1>8. ASSUME NEW s \in Sockets, \/ OnAnswer(s) \/ OnTag(s) \/ Telemetry(s)
                                \/ PeerEnds(s) \/ GoSilent(s)
      PROVE  KeepsClient(i)
  BY <1>1, <1>8 DEF OnAnswer, OnTag, Telemetry, PeerEnds, GoSilent
<1>9. ASSUME NEW j \in Ids, \/ ModuleStep(j) \/ TagSeen(j) \/ ReaderRefuses(j)
                            \/ LoseLink(j) \/ PowerCut(j)
                            \/ \E s \in Sockets : Connect(j, s)
                            \/ \E owner \in Owners : Timeout(j, owner)
      PROVE  KeepsClient(i)
  <2>1. UNCHANGED clients
    BY <1>9 DEF ModuleStep, HandleBinaryCommand, ReaderExecutes, TagSeen, ReaderRefuses,
       LoseLink, PowerCut, Connect, Timeout
  <2>2. QED
    BY <1>1, <2>1
<1>10. CASE UNCHANGED vars
  BY <1>1, <1>10 DEF vars
<1>11. QED
  BY <1>2, <1>3, <1>4, <1>5, <1>6, <1>7, <1>8, <1>9, <1>10 DEF Next, OnMessage, Fault

\* A registered connection leaves the map only by its own close, by a sweep that
\* found it silent, by a restart, or for a newer connection of its module.
THEOREM ClientsAreKept == Spec => ClientKept
<1>1. TypeOK /\ [Next]_vars => [\A i \in Ids : KeepsClient(i)]_vars
  BY KeepsClientStep
<1>2. QED
  BY <1>1, TypeCorrect, PTL DEF Spec, ClientKept

\* While a start waits for its answer no step deactivates its connection.
LEMMA StaysActiveStep ==
  ASSUME TypeOK, RegistryConsistent, [Next]_vars, NEW i \in Ids
  PROVE  StaysActive(i)
<1> USE DEF conns, service, modules, counters
<1> SUFFICES ASSUME http.stage = "await", http.cmd = "start", Registered(i),
                    Client(i).isActive, clients'[i] = clients[i]
             PROVE  info'[clients[i]].isActive
  BY DEF StaysActive
<1> DEFINE c == clients[i]
<1>1. c \in Sockets /\ sock[c] # "free" /\ info[c].isActive
  BY RegistryTyped DEF Registered, Client, RegistryConsistent
<1>2. ASSUME UNCHANGED info
      PROVE  info'[c].isActive
  BY <1>1, <1>2
<1>3. ASSUME NEW s \in Sockets, OnHello(s)
      PROVE  info'[c].isActive
  BY <1>1, <1>3 DEF OnHello, TypeOK, ClientInfo
<1>4. ASSUME NEW s \in Sockets, OnAnswer(s)
      PROVE  info'[c].isActive
  <2>1. Noted(info[s], Head(wire[s])).isActive = info[s].isActive
    BY DEF Noted, TypeOK, ClientInfo
  <2>2. info' = info \/ info' = [info EXCEPT ![s] = Noted(info[s], Head(wire[s]))]
    BY <1>4 DEF OnAnswer
  <2>3. QED
    BY <1>1, <2>1, <2>2 DEF TypeOK
<1>5. ASSUME NEW s \in Sockets, OnClose(s)
      PROVE  info'[c].isActive
  BY <1>1, <1>5, NoneAssumption DEF OnClose, Unregister, TypeOK
<1>6. ASSUME NEW j \in Ids, NEW s \in Sockets, Connect(j, s)
      PROVE  info'[c].isActive
  BY <1>1, <1>6 DEF Connect, TypeOK
<1>7. CASE Restart
  BY <1>1, <1>7, NoneAssumption DEF Restart
<1>8. CASE HttpCall
  <2>1. ASSUME NEW op, NEW ids, NEW soft, Enter(op, ids, soft)
        PROVE  FALSE
    BY <2>1 DEF Enter
  <2>2. ASSUME NEW j, NEW x, Assign(j, x)
        PROVE  FALSE
    BY <2>2 DEF Assign
  <2>3. ASSUME NEW j, NEW m, \/ StartScanByMode(m) \/ StopScanByMode(m) \/ StopScan(j)
                             \/ GetCurrentPower(j) \/ SetRegion(j) \/ GetModuleInfo(j)
        PROVE  FALSE
    BY <2>1, <2>3 DEF StartScanByMode, StopScanByMode, StartScan, StopScan,
       GetCurrentPower, SetRegion, GetModuleInfo
  <2>4. ASSUME NEW j, NEW x, StartScan(x) \/ SetPower(j, x) \/ SetIsActive(j, x) \/ SetMode(j, x)
        PROVE  FALSE
    BY <2>1, <2>2, <2>4 DEF StartScan, SetPower, SetIsActive, SetMode
  <2>5. QED
    BY <1>8, <2>3, <2>4 DEF HttpCall
<1>9. CASE HttpStep
  BY <1>9 DEF HttpStep, Turn, Finish, ResumeReadBack, ResumeStore, Resume
<1>10. ASSUME NEW s \in Sockets, OnTag(s) \/ Telemetry(s) \/ PeerEnds(s) \/ GoSilent(s)
       PROVE  info'[c].isActive
  BY <1>2, <1>10 DEF OnTag, Telemetry, PeerEnds, GoSilent
<1>11. ASSUME NEW j \in Ids, \/ ModuleStep(j) \/ TagSeen(j) \/ ReaderRefuses(j)
                             \/ LoseLink(j) \/ PowerCut(j)
                             \/ \E owner \in Owners : Timeout(j, owner)
       PROVE  info'[c].isActive
  <2>1. UNCHANGED info
    BY <1>11 DEF ModuleStep, HandleBinaryCommand, ReaderExecutes, TagSeen, ReaderRefuses,
       LoseLink, PowerCut, Timeout
  <2>2. QED
    BY <1>2, <2>1
<1>12. CASE Sweep
  BY <1>2, <1>12 DEF Sweep
<1>13. CASE UNCHANGED vars
  BY <1>2, <1>13 DEF vars
<1>14. QED
  BY <1>3, <1>4, <1>5, <1>6, <1>7, <1>8, <1>9, <1>10, <1>11, <1>12, <1>13
     DEF Next, OnMessage, Fault

\* The mutex keeps startScan's check of isActive good until its answer.
THEOREM StartsStayActive == Spec => ActiveWhileStarting
<1>1. TypeOK /\ RegistryConsistent /\ [Next]_vars => [\A i \in Ids : StaysActive(i)]_vars
  BY StaysActiveStep
<1>2. QED
  BY <1>1, TypeCorrect, RegistryIsConsistent, PTL DEF Spec, ActiveWhileStarting


-----------------------------------------------------------------------------
(***************************************************************************)
(* The slots are implemented: every step of EspLink is a step of           *)
(* RequestSlots or leaves the slots and the handler where they are.        *)
(***************************************************************************)
\* Where the handler is, by its stage, before and after a step.
LEMMA HandlerWhere ==
  /\ http.stage = "idle" => HandlerAt = Slots!Idle
  /\ http.stage = "await" => HandlerAt = Slots!Waiting(http.id)
  /\ http.stage \in {"turn", "settled"} => HandlerAt = Slots!Running
  /\ http'.stage = "idle" => HandlerAt' = Slots!Idle
  /\ http'.stage = "await" => HandlerAt' = Slots!Waiting(http'.id)
  /\ http'.stage \in {"turn", "settled"} => HandlerAt' = Slots!Running
BY DEF HandlerAt, Slots!Idle, Slots!Waiting, Slots!Running

\* A step of the slots, or none.
SlotsAct == [Slots!Next]_(Slots!slots)

LEMMA Untouched ==
  ASSUME pending' = pending,
         \/ http' = http
         \/ http.stage \in {"turn", "settled"} /\ http'.stage \in {"turn", "settled"}
  PROVE  SlotsAct
<1>1. HandlerAt' = HandlerAt
  BY HandlerWhere DEF HandlerAt
<1>2. QED
  BY <1>1 DEF SlotsAct, Slots!slots

\* A request that is sent takes a free slot and waits; one that is refused does neither.
LEMMA RequestImplements ==
  ASSUME TypeOK, http.stage \in {"turn", "settled"},
         NEW i \in Ids, NEW cmd, NEW todo, Request(i, cmd, todo)
  PROVE  SlotsAct
<1>1. CASE CanSend(i)
  <2>1. pending[i] = None /\ pending' = [pending EXCEPT ![i] = "http"]
    BY <1>1 DEF Request, SendRequest, CanSend
  <2>2. http'.stage = "await" /\ http'.id = i
    BY <1>1 DEF Request, TypeOK, Calls
  <2>3. Slots!Request(i)
    BY <2>1, <2>2, HandlerWhere DEF Slots!Request, Slots!Take
  <2>4. QED
    BY <2>3 DEF SlotsAct, Slots!Next
<1>2. CASE ~CanSend(i)
  <2>1. http'.stage = "settled" /\ pending' = pending
    BY <1>2 DEF Request, TypeOK, Calls
  <2>2. QED
    BY <2>1, Untouched
<1>3. QED
  BY <1>1, <1>2

\* A request that is settled, or given up by its timer, is released.
LEMMA ReleaseImplements ==
  ASSUME TypeOK, SlotOwned, NEW i \in Ids, pending[i] # None,
         pending' = [pending EXCEPT ![i] = None],
         IF pending[i] = "http" THEN http'.stage = "settled" ELSE http' = http
  PROVE  SlotsAct
<1>1. Slots!Release(i)
  <2>1. CASE pending[i] = "http"
    <3>1. http.stage = "await" /\ http.id = i
      BY <2>1 DEF SlotOwned
    <3>2. HandlerAt = Slots!Waiting(i) /\ HandlerAt' = Slots!Running
      BY <2>1, <3>1, HandlerWhere
    <3>3. QED
      BY <2>1, <3>2 DEF Slots!Release
  <2>2. CASE pending[i] # "http"
    BY <2>2 DEF Slots!Release, HandlerAt
  <2>3. QED
    BY <2>1, <2>2
<1>2. QED
  BY <1>1 DEF SlotsAct, Slots!Next

LEMMA SlotsActStep == TypeOK /\ SlotOwned /\ [Next]_vars => SlotsAct
<1> SUFFICES ASSUME TypeOK, SlotOwned, [Next]_vars PROVE SlotsAct
  OBVIOUS
<1> USE DEF conns, service, modules, counters
<1>1. ASSUME NEW s \in Sockets, OnAnswer(s)
      PROVE  SlotsAct
  <2>1. CASE Answerable(s)
    <3> DEFINE i == info[s].id
    <3>1. i \in Ids /\ pending[i] # None
      BY <2>1 DEF Answerable, TypeOK, ClientInfo
    <3>2. Settle(i, ResultOf(Head(wire[s])), s)
      BY <1>1, <2>1 DEF OnAnswer
    <3>3. pending[i] = "http" => http.stage = "await" /\ http.id = i
      BY <3>1 DEF SlotOwned
    <3>4. IF pending[i] = "http" THEN http'.stage = "settled" ELSE http' = http
      BY <3>2, <3>3 DEF Settle, TypeOK, Calls
    <3>5. pending' = [pending EXCEPT ![i] = None]
      BY <3>2 DEF Settle
    <3>6. QED
      BY <3>1, <3>4, <3>5, ReleaseImplements
  <2>2. CASE ~Answerable(s)
    BY <1>1, <2>2, Untouched DEF OnAnswer
  <2>3. QED
    BY <2>1, <2>2
<1>2. ASSUME NEW s \in Sockets, OnTag(s)
      PROVE  SlotsAct
  <2> DEFINE i == info[s].id
  <2>1. CASE ~Consumes(s) /\ i # None /\ CanSend(i)
    <3>1. i \in Ids /\ pending[i] = None
      BY <2>1 DEF TypeOK, ClientInfo, CanSend
    <3>2. pending' = [pending EXCEPT ![i] = "auto"] /\ http' = http
      BY <1>2, <2>1 DEF OnTag, SendRequest
    <3>3. Slots!AutoStop(i)
      BY <3>1, <3>2 DEF Slots!AutoStop, Slots!Take, HandlerAt
    <3>4. QED
      BY <3>1, <3>3 DEF SlotsAct, Slots!Next
  <2>2. CASE ~(~Consumes(s) /\ i # None /\ CanSend(i))
    BY <1>2, <2>2, Untouched DEF OnTag
  <2>3. QED
    BY <2>1, <2>2
<1>3. ASSUME NEW i \in Ids, NEW owner \in Owners, Timeout(i, owner)
      PROVE  SlotsAct
  <2>1. pending[i] = owner /\ pending[i] # None
    BY <1>3 DEF Timeout, SlotOwned
  <2>2. pending[i] = "http" => http.stage = "await" /\ http.id = i
    BY DEF SlotOwned
  <2>3. IF pending[i] = "http" THEN http'.stage = "settled" ELSE http' = http
    BY <1>3, <2>1, <2>2 DEF Timeout, TypeOK, Calls
  <2>4. pending' = [pending EXCEPT ![i] = None]
    BY <1>3 DEF Timeout
  <2>5. QED
    BY <2>1, <2>3, <2>4, ReleaseImplements
<1>4. ASSUME NEW i \in Ids, Turn(i)
      PROVE  SlotsAct
  <2>1. CASE Eligible(i)
    BY <1>4, <2>1, RequestImplements DEF Turn
  <2>2. CASE ~Eligible(i)
    <3>1. http.stage = "turn" /\ http'.stage = "turn" /\ pending' = pending
      BY <1>4, <2>2 DEF Turn, TypeOK, Calls
    <3>2. QED
      BY <3>1, Untouched
  <2>3. QED
    BY <2>1, <2>2
<1>5. CASE ResumeReadBack
  BY <1>5, RequestImplements DEF ResumeReadBack, SlotOwned
<1>6. CASE ResumeStore \/ Resume
  <2>1. http.stage = "settled" /\ http'.stage = "turn" /\ pending' = pending
    BY <1>6 DEF ResumeStore, Resume, TypeOK, Calls
  <2>2. QED
    BY <2>1, Untouched
<1>7. CASE Finish
  <2>1. http.stage = "turn" /\ http'.stage = "idle" /\ pending' = pending
    BY <1>7 DEF Finish, NoCall
  <2>2. Slots!End
    BY <2>1, HandlerWhere DEF Slots!End
  <2>3. QED
    BY <2>2 DEF SlotsAct, Slots!Next
<1>8. CASE HttpCall
  <2>1. ASSUME NEW op, NEW ids, NEW soft, Enter(op, ids, soft)
        PROVE  SlotsAct
    <3>1. http.stage = "idle" /\ http'.stage = "turn" /\ pending' = pending
      BY <2>1 DEF Enter, NoCall
    <3>2. Slots!Begin
      BY <3>1, HandlerWhere DEF Slots!Begin
    <3>3. QED
      BY <3>2 DEF SlotsAct, Slots!Next
  <2>2. ASSUME NEW i, NEW c, Assign(i, c)
        PROVE  SlotsAct
    BY <2>2, Untouched DEF Assign
  <2>3. ASSUME NEW m, StartScanByMode(m) \/ StopScanByMode(m)
        PROVE  SlotsAct
    BY <2>1, <2>3 DEF StartScanByMode, StopScanByMode, StartScan
  <2>4. ASSUME NEW i, \/ StopScan(i) \/ GetCurrentPower(i) \/ SetRegion(i)
                      \/ GetModuleInfo(i)
        PROVE  SlotsAct
    BY <2>1, <2>4 DEF StopScan, GetCurrentPower, SetRegion, GetModuleInfo
  <2>5. ASSUME NEW i, NEW x, StartScan(x) \/ SetPower(i, x) \/ SetIsActive(i, x) \/ SetMode(i, x)
        PROVE  SlotsAct
    BY <2>1, <2>2, <2>5 DEF StartScan, SetPower, SetIsActive, SetMode
  <2>6. QED
    BY <1>8, <2>3, <2>4, <2>5 DEF HttpCall
<1>9. CASE Restart
  <2>1. pending' = [i \in Ids |-> None] /\ http'.stage = "idle"
    BY <1>9 DEF Restart, NoCall
  <2>2. Slots!Forget
    BY <2>1, HandlerWhere DEF Slots!Forget, Slots!NoRequests
  <2>3. QED
    BY <2>2 DEF SlotsAct, Slots!Next
<1>10. ASSUME NEW s \in Sockets, \/ OnHello(s) \/ Telemetry(s) \/ PeerEnds(s)
                                 \/ OnClose(s) \/ GoSilent(s)
       PROVE  SlotsAct
  <2>1. UNCHANGED <<pending, http>>
    BY <1>10 DEF OnHello, Telemetry, PeerEnds, OnClose, GoSilent
  <2>2. QED
    BY <2>1, Untouched
<1>11. ASSUME NEW i \in Ids, \/ ModuleStep(i) \/ TagSeen(i) \/ ReaderRefuses(i)
                             \/ LoseLink(i) \/ PowerCut(i)
                             \/ \E s \in Sockets : Connect(i, s)
       PROVE  SlotsAct
  <2>1. UNCHANGED <<pending, http>>
    BY <1>11 DEF ModuleStep, HandleBinaryCommand, ReaderExecutes, TagSeen,
       ReaderRefuses, LoseLink, PowerCut, Connect
  <2>2. QED
    BY <2>1, Untouched
<1>12. CASE Sweep
  BY <1>12, Untouched DEF Sweep
<1>13. CASE UNCHANGED vars
  BY <1>13, Untouched DEF vars
<1>14. QED
  BY <1>1, <1>2, <1>3, <1>4, <1>5, <1>6, <1>7, <1>8, <1>9, <1>10, <1>11, <1>12, <1>13
     DEF Next, HttpStep, OnMessage, Fault

\* The service implements the slots, for any number of modules and connections and any
\* faults: a slot that is taken is not taken again, a request is released once, and the
\* handler goes on exactly when the request it waits for is released.  (That requests
\* are released at all is the liveness part of SlotsImplemented, which a run checks.)
THEOREM SlotsAreImplemented == Spec => Slots!Spec
<1>1. Init => Slots!NoRequests
  BY HandlerWhere DEF Init, NoCall, Slots!NoRequests
<1>2. QED
  BY <1>1, SlotsActStep, SlotsOwned, TypeCorrect, PTL DEF Spec, Slots!Spec, SlotsAct

-----------------------------------------------------------------------------
(***************************************************************************)
(* Answers.  They carry no request id, so what makes an answer the right   *)
(* one is that there is never more than one of them on its way: until a    *)
(* request is given up, its command is in one place, as an order before    *)
(* the module, as one in its UART, or as the answer coming back.           *)
(***************************************************************************)
NoAnswers(i) ==
  \A s \in Sockets : peer[s] = i => \A n \in 1..Len(wire[s]) : wire[s][n].kind # "answer"
OnlyStarts(i) == \A n \in 1..Len(uart[i]) : uart[i][n] = "start"

\* Nothing of module i is on its way.  (The answer to a start in the UART has
\* been sent already.)
Quiet(i) == toDev[i] = <<>> /\ OnlyStarts(i) /\ NoAnswers(i)

\* Command c of module i is on its way, in one place at most.
OneOrder(i, c) ==
  \A n \in 1..Len(uart[i]) : uart[i][n] # "start" =>
    /\ uart[i][n] = c /\ NoAnswers(i)
    /\ \A m \in 1..Len(uart[i]) : uart[i][m] # "start" => m = n
OneAnswer(i, c) ==
  \A s \in Sockets : peer[s] = i => \A n \in 1..Len(wire[s]) : wire[s][n].kind = "answer" =>
    /\ wire[s][n].cmd = c
    /\ \A t \in Sockets : peer[t] = i =>
         \A m \in 1..Len(wire[t]) : wire[t][m].kind = "answer" => t = s /\ m = n
Placed(i, c) ==
  /\ toDev[i] # <<>> => toDev[i] = <<c>> /\ OnlyStarts(i) /\ NoAnswers(i)
  /\ OneOrder(i, c)
  /\ OneAnswer(i, c)

AnswerInv ==
  \A i \in Ids : ~late[i] =>
    IF pending[i] = None THEN Quiet(i) ELSE Placed(i, Awaited(i))

\* Part p of q: p is q, or lacks its head, or has more frames that are no answers.
OrdersWithin(p, q) ==
  \E d \in {0, 1} : \A n \in 1..Len(p) : n + d \in 1..Len(q) /\ p[n] = q[n + d]
AnswersWithin(p, q) ==
  \E d \in {0, 1} : \A n \in 1..Len(p) : p[n].kind = "answer" =>
    n + d \in 1..Len(q) /\ p[n] = q[n + d]

\* No order and no answer of module i is new.
Calmer(i) ==
  /\ OrdersWithin(uart'[i], uart[i])
  /\ \A s \in Sockets : peer'[s] = i =>
       \/ peer[s] = i /\ AnswersWithin(wire'[s], wire[s])
       \/ \A n \in 1..Len(wire'[s]) : wire'[s][n].kind # "answer"

LEMMA TailWithin ==
  ASSUME NEW S, NEW q \in Seq(S), q # <<>>
  PROVE  OrdersWithin(Tail(q), q) /\ AnswersWithin(Tail(q), q)
<1>1. \A n \in 1..Len(Tail(q)) : n + 1 \in 1..Len(q) /\ Tail(q)[n] = q[n + 1]
  BY HeadTailProperties, LenProperties
<1> QED
  BY <1>1 DEF OrdersWithin, AnswersWithin

LEMMA SameWithin ==
  ASSUME NEW S, NEW q \in Seq(S)
  PROVE  OrdersWithin(q, q) /\ AnswersWithin(q, q)
<1>1. Len(q) \in Nat
  BY LenProperties
<1>2. \A n \in 1..Len(q) : n + 0 \in 1..Len(q) /\ q[n] = q[n + 0]
  BY <1>1
<1> QED
  BY <1>2 DEF OrdersWithin, AnswersWithin

LEMMA EmptyWithin ==
  ASSUME NEW q
  PROVE  OrdersWithin(<<>>, q) /\ AnswersWithin(<<>>, q)
BY EmptySeq DEF OrdersWithin, AnswersWithin

LEMMA CalmStays ==
  ASSUME NEW i, Calmer(i)
  PROVE  /\ OnlyStarts(i) => OnlyStarts(i)'
         /\ NoAnswers(i) => NoAnswers(i)'
<1>1. OnlyStarts(i) => OnlyStarts(i)'
  BY DEF Calmer, OrdersWithin, OnlyStarts
<1>2. NoAnswers(i) => NoAnswers(i)'
  BY DEF Calmer, AnswersWithin, NoAnswers
<1> QED
  BY <1>1, <1>2

\* What is on its way gets less.
LEMMA CalmerKeeps ==
  ASSUME TypeOK, TypeOK', NEW i \in Ids, Calmer(i), toDev'[i] = toDev[i] \/ toDev'[i] = <<>>
  PROVE  /\ Quiet(i) => Quiet(i)'
         /\ \A c : Placed(i, c) => Placed(i, c)'
<1>1. Quiet(i) => Quiet(i)'
  BY CalmStays DEF Quiet
<1>2. ASSUME NEW c, Placed(i, c) PROVE Placed(i, c)'
  <2>1. /\ Len(uart[i]) \in Nat /\ Len(uart'[i]) \in Nat
        /\ \A s \in Sockets : Len(wire[s]) \in Nat /\ Len(wire'[s]) \in Nat
    BY LenProperties DEF TypeOK
  <2>2. OneOrder(i, c)'
    <3>1. OneOrder(i, c)
      BY <1>2 DEF Placed
    <3>2. PICK d \in {0, 1} : \A n \in 1..Len(uart'[i]) :
                                n + d \in 1..Len(uart[i]) /\ uart'[i][n] = uart[i][n + d]
      BY DEF Calmer, OrdersWithin
    <3> QED
      BY <2>1, <3>1, <3>2, CalmStays DEF OneOrder
  <2>3. OneAnswer(i, c)'
    <3>1. OneAnswer(i, c)
      BY <1>2 DEF Placed
    <3>2. ASSUME NEW s \in Sockets, peer'[s] = i, NEW n \in 1..Len(wire'[s]),
                 wire'[s][n].kind = "answer"
          PROVE  /\ peer[s] = i
                 /\ \E d \in {0, 1} : /\ n + d \in 1..Len(wire[s]) /\ wire'[s][n] = wire[s][n + d]
                                      /\ \A m \in 1..Len(wire'[s]) : wire'[s][m].kind = "answer" =>
                                           m + d \in 1..Len(wire[s]) /\ wire'[s][m] = wire[s][m + d]
      BY <3>2 DEF Calmer, AnswersWithin
    <3>3. SUFFICES ASSUME NEW s \in Sockets, peer'[s] = i, NEW n \in 1..Len(wire'[s]),
                          wire'[s][n].kind = "answer"
                   PROVE  /\ wire'[s][n].cmd = c
                          /\ \A t \in Sockets : peer'[t] = i =>
                               \A m \in 1..Len(wire'[t]) : wire'[t][m].kind = "answer" => t = s /\ m = n
      BY DEF OneAnswer
    <3>4. PICK d \in {0, 1} :
            /\ n + d \in 1..Len(wire[s]) /\ wire'[s][n] = wire[s][n + d]
            /\ \A m \in 1..Len(wire'[s]) : wire'[s][m].kind = "answer" =>
                 m + d \in 1..Len(wire[s]) /\ wire'[s][m] = wire[s][m + d]
      BY <3>2, <3>3
    <3>5. peer[s] = i
      BY <3>2, <3>3
    <3>6. wire[s][n + d].kind = "answer"
      BY <3>3, <3>4
    <3>7. wire'[s][n].cmd = c
      BY <3>1, <3>4, <3>5, <3>6 DEF OneAnswer
    <3>8. ASSUME NEW t \in Sockets, peer'[t] = i, NEW m \in 1..Len(wire'[t]),
                 wire'[t][m].kind = "answer"
          PROVE  t = s /\ m = n
      <4>1. peer[t] = i /\ \E e \in {0, 1} : m + e \in 1..Len(wire[t]) /\ wire'[t][m] = wire[t][m + e]
        BY <3>2, <3>8
      <4>2. t = s
        BY <3>1, <3>4, <3>5, <3>6, <3>8, <4>1 DEF OneAnswer
      <4>3. m + d \in 1..Len(wire[s]) /\ wire[s][m + d].kind = "answer"
        BY <3>4, <3>8, <4>2
      <4>4. m + d = n + d
        BY <3>1, <3>4, <3>5, <3>6, <4>3 DEF OneAnswer
      <4> QED
        BY <2>1, <4>2, <4>4
    <3> QED
      BY <3>7, <3>8
  <2> QED
    BY <1>2, <2>2, <2>3, CalmStays DEF Placed
<1> QED
  BY <1>1, <1>2

\* A request is made of a module of which nothing is on its way.
LEMMA AskedOnce ==
  ASSUME NEW i \in Ids, NEW c, Quiet(i), Calmer(i), toDev'[i] \in {<<>>, <<c>>}
  PROVE  Placed(i, c)'
<1>1. OnlyStarts(i)' /\ NoAnswers(i)'
  BY CalmStays DEF Quiet
<1> QED
  BY <1>1 DEF Placed, OneOrder, OneAnswer, OnlyStarts, NoAnswers

\* The answer is the only thing of its module on its way.
LEMMA AnswerIsLast ==
  ASSUME TypeOK, NEW i \in Ids, NEW c, Placed(i, c), NEW s \in Sockets, peer[s] = i,
         wire[s] # <<>>, Head(wire[s]).kind = "answer",
         wire' = [wire EXCEPT ![s] = Tail(@)], UNCHANGED <<peer, toDev, uart>>
  PROVE  Quiet(i)'
<1>1. wire[s] \in Seq(Frames) /\ Len(wire[s]) \in Nat
  BY LenProperties DEF TypeOK
<1>2. 1 \in 1..Len(wire[s]) /\ wire[s][1].kind = "answer"
  BY <1>1, EmptySeq, HeadTailProperties, LenProperties
<1>3. ~NoAnswers(i)
  BY <1>2 DEF NoAnswers
<1>4. toDev[i] = <<>> /\ OnlyStarts(i)
  BY <1>3 DEF Placed, OneOrder, OnlyStarts
<1>5. \A n \in 1..Len(Tail(wire[s])) : n + 1 \in 1..Len(wire[s]) /\ Tail(wire[s])[n] = wire[s][n + 1]
  BY <1>1, HeadTailProperties, LenProperties
<1>6. \A t \in Sockets : peer[t] = i =>
        \A m \in 1..Len(wire[t]) : wire[t][m].kind = "answer" => t = s /\ m = 1
  BY <1>2 DEF Placed, OneAnswer
<1>7. wire'[s] = Tail(wire[s]) /\ \A t \in Sockets : t # s => wire'[t] = wire[t]
  BY DEF TypeOK
<1>8. Len(Tail(wire[s])) \in Nat
  BY <1>1, HeadTailProperties, LenProperties
<1>9. \A n \in 1..Len(Tail(wire[s])) : Tail(wire[s])[n].kind # "answer"
  <2> TAKE n \in 1..Len(Tail(wire[s]))
  <2>1. n + 1 # 1
    BY <1>8
  <2> QED
    BY <1>5, <1>6, <2>1
<1>10. NoAnswers(i)'
  BY <1>6, <1>7, <1>9 DEF NoAnswers
<1> QED
  BY <1>4, <1>10 DEF Quiet, OnlyStarts

\* A module sends an answer; of the others nothing is new.
LEMMA AnswerSent ==
  ASSUME TypeOK, LinkInv, NEW i \in Ids, NEW c \in Commands, NEW ok \in BOOLEAN,
         Sends(i, [kind |-> "answer", cmd |-> c, ok |-> ok]), UNCHANGED peer
  PROVE  /\ \A s \in Sockets : peer[s] # i => wire'[s] = wire[s]
         /\ NoAnswers(i) => OneAnswer(i, c)'
<1> DEFINE f == [kind |-> "answer", cmd |-> c, ok |-> ok]
<1>1. CASE link[i] = None
  BY <1>1 DEF Sends, NoAnswers, OneAnswer
<1>2. CASE link[i] # None
  <2> DEFINE s == link[i]
  <2>1. s \in Sockets /\ wire[s] \in Seq(Frames) /\ peer[s] = i
    BY <1>2 DEF TypeOK, LinkInv, LinkOf
  <2>2. wire' = [wire EXCEPT ![s] = Append(wire[s], f)]
    BY <1>2 DEF Sends
  <2>3. f.kind = "answer" /\ f.cmd = c
    OBVIOUS
  <2> HIDE DEF f
  <2>4. /\ Len(Append(wire[s], f)) = Len(wire[s]) + 1
        /\ \A n \in 1..Len(wire[s]) : Append(wire[s], f)[n] = wire[s][n]
        /\ Append(wire[s], f)[Len(wire[s]) + 1] = f
        /\ Len(wire[s]) \in Nat
    BY <2>1, AppendProperties, LenProperties
  <2>5. wire'[s] = Append(wire[s], f) /\ \A t \in Sockets : t # s => wire'[t] = wire[t]
    BY <2>1, <2>2 DEF TypeOK
  <2> HIDE DEF s
  <2>6. ASSUME NoAnswers(i), NEW t \in Sockets, peer[t] = i, NEW n \in 1..Len(wire'[t]),
               wire'[t][n].kind = "answer"
        PROVE  t = s /\ n = Len(wire[s]) + 1
    <3>1. t = s
      BY <2>5, <2>6 DEF NoAnswers
    <3>2. n \notin 1..Len(wire[s])
      BY <2>1, <2>4, <2>5, <2>6, <3>1 DEF NoAnswers
    <3> QED
      BY <2>4, <2>5, <3>1, <3>2
  <2>7. NoAnswers(i) => OneAnswer(i, c)'
    BY <2>3, <2>4, <2>5, <2>6 DEF OneAnswer
  <2> QED
    BY <2>1, <2>5, <2>7
<1> QED
  BY <1>1, <1>2

-----------------------------------------------------------------------------
\* Whose command a request in a slot is.
SameRequests ==
  \A i \in Ids : ~late'[i] =>
    ~late[i] /\ pending'[i] = pending[i] /\ (pending[i] # None => Awaited(i)' = Awaited(i))

\* A step that leaves the slots alone and adds nothing to what is on its way.
LEMMA AnswersCalm ==
  ASSUME TypeOK, TypeOK', AnswerInv, SameRequests,
         \A i \in Ids : ~late'[i] => Calmer(i) /\ (toDev'[i] = toDev[i] \/ toDev'[i] = <<>>)
  PROVE  AnswerInv'
<1> SUFFICES ASSUME NEW i \in Ids, ~late'[i]
             PROVE  (IF pending[i] = None THEN Quiet(i) ELSE Placed(i, Awaited(i)))'
  BY DEF AnswerInv
<1>1. ~late[i] /\ pending'[i] = pending[i] /\ (pending[i] # None => Awaited(i)' = Awaited(i))
  BY DEF SameRequests
<1>2. Calmer(i) /\ (toDev'[i] = toDev[i] \/ toDev'[i] = <<>>)
  OBVIOUS
<1>3. Quiet(i) => Quiet(i)'
  BY <1>2, CalmerKeeps
<1>4. \A c : Placed(i, c) => Placed(i, c)'
  BY <1>2, CalmerKeeps
<1>5. CASE pending[i] = None
  BY <1>1, <1>3, <1>5 DEF AnswerInv
<1>6. CASE pending[i] # None
  <2>1. Placed(i, Awaited(i))
    BY <1>1, <1>6 DEF AnswerInv
  <2>2. Placed(i, Awaited(i))'
    BY <1>1, <1>4, <1>6, <2>1
  <2> QED
    BY <1>1, <1>6, <2>2
<1> QED
  BY <1>5, <1>6

\* While no handler waits, what it does next does not change what is awaited.
LEMMA NobodyWaits ==
  ASSUME TypeOK, SlotOwned, UNCHANGED <<pending, late>>,
         http'.cmd = http.cmd \/ http.stage # "await"
  PROVE  SameRequests
<1> SUFFICES ASSUME NEW i \in Ids, pending[i] # None, ~late'[i]
             PROVE  Awaited(i)' = Awaited(i)
  BY DEF SameRequests
<1>1. pending[i] \in {"http", "auto"}
  BY DEF TypeOK, Owners
<1>2. pending[i] = "http" => http.stage = "await"
  BY DEF SlotOwned
<1> QED
  BY <1>1, <1>2 DEF Awaited

LEMMA NothingSent ==
  ASSUME TypeOK, UNCHANGED <<wire, peer, uart>>
  PROVE  \A i \in Ids : Calmer(i)
<1>1. \A i \in Ids : OrdersWithin(uart[i], uart[i])
  BY SameWithin DEF TypeOK
<1>2. \A s \in Sockets : AnswersWithin(wire[s], wire[s])
  BY SameWithin DEF TypeOK
<1> QED
  BY <1>1, <1>2 DEF Calmer

LEMMA AnswersUntouched ==
  ASSUME TypeOK, TypeOK', SlotOwned, AnswerInv,
         UNCHANGED <<pending, late, wire, peer, uart, toDev>>,
         http'.cmd = http.cmd \/ http.stage # "await"
  PROVE  AnswerInv'
BY NobodyWaits, NothingSent, AnswersCalm

\* One frame less.
LEMMA FrameHandled ==
  ASSUME TypeOK, NEW s \in Sockets, NEW kind, Arrives(s, kind), UNCHANGED <<peer, uart>>
  PROVE  \A i \in Ids : Calmer(i)
<1>1. \A i \in Ids : OrdersWithin(uart[i], uart[i])
  BY SameWithin DEF TypeOK
<1>2. \A t \in Sockets : AnswersWithin(wire'[t], wire[t])
  <2> TAKE t \in Sockets
  <2>1. CASE t = s
    <3>1. wire'[s] = Tail(wire[s]) /\ wire[s] \in Seq(Frames) /\ wire[s] # <<>>
      BY DEF Arrives, TypeOK
    <3> QED
      BY <2>1, <3>1, TailWithin
  <2>2. CASE t # s
    <3>1. wire'[t] = wire[t] /\ wire[t] \in Seq(Frames)
      BY <2>2 DEF Arrives, TypeOK
    <3> QED
      BY <3>1, SameWithin
  <2> QED
    BY <2>1, <2>2
<1> QED
  BY <1>1, <1>2 DEF Calmer

\* A request is sent to module i; nothing else is new.
LEMMA RequestSent ==
  ASSUME TypeOK, TypeOK', SlotOwned, AnswerInv,
         NEW i \in Ids, NEW owner \in Owners, NEW cmd \in Commands,
         CanSend(i), SendRequest(i, owner, cmd), UNCHANGED late,
         \A j \in Ids : Calmer(j),
         IF owner = "http" THEN http.stage # "await" /\ http'.cmd = cmd
                           ELSE http' = http /\ cmd = "stop"
  PROVE  AnswerInv'
<1>1. pending[i] = None
  BY DEF CanSend
<1>2. /\ pending'[i] = owner /\ \A j \in Ids : j # i => pending'[j] = pending[j]
      /\ \A j \in Ids : j # i => toDev'[j] = toDev[j]
      /\ toDev'[i] = toDev[i] \/ toDev'[i] = Append(toDev[i], cmd)
  BY DEF SendRequest, TypeOK
<1>3. owner # None
  BY NoneAssumption DEF Owners
<1> SUFFICES ASSUME NEW j \in Ids, ~late'[j]
             PROVE  (IF pending[j] = None THEN Quiet(j) ELSE Placed(j, Awaited(j)))'
  BY DEF AnswerInv
<1>4. CASE j = i
  <2>1. Quiet(i)
    BY <1>1, <1>4 DEF AnswerInv
  <2>2. toDev'[i] \in {<<>>, <<cmd>>}
    <3>1. toDev[i] = <<>>
      BY <2>1 DEF Quiet
    <3>2. Append(<<>>, cmd) = <<cmd>>
      OBVIOUS
    <3> QED
      BY <1>2, <3>1, <3>2
  <2>3. Placed(i, cmd)'
    BY <2>1, <2>2, AskedOnce
  <2>4. Awaited(i)' = cmd
    BY <1>2 DEF Awaited, Owners
  <2> QED
    BY <1>2, <1>3, <1>4, <2>3, <2>4
<1>5. CASE j # i
  <2>1. pending'[j] = pending[j] /\ toDev'[j] = toDev[j] /\ ~late[j]
    BY <1>2, <1>5
  <2>2. pending[j] # None => Awaited(j)' = Awaited(j)
    <3>1. pending[j] \in {None, "http", "auto"}
      BY DEF TypeOK, Owners
    <3>2. pending[j] = "http" => http.stage = "await"
      BY DEF SlotOwned
    <3> QED
      BY <2>1, <3>1, <3>2 DEF Awaited, Owners
  <2>3. Quiet(j) => Quiet(j)'
    BY <2>1, CalmerKeeps
  <2>4. \A c : Placed(j, c) => Placed(j, c)'
    BY <2>1, CalmerKeeps
  <2>5. CASE pending[j] = None
    BY <2>1, <2>3, <2>5 DEF AnswerInv
  <2>6. CASE pending[j] # None
    <3>1. Placed(j, Awaited(j))
      BY <2>1, <2>6 DEF AnswerInv
    <3>2. Placed(j, Awaited(j))'
      BY <2>2, <2>4, <2>6, <3>1
    <3> QED
      BY <2>1, <2>6, <3>2
  <2> QED
    BY <2>5, <2>6
<1> QED
  BY <1>4, <1>5

\* The HTTP handler asks, or is refused.
LEMMA AnswersRequest ==
  ASSUME TypeOK, TypeOK', SlotOwned, AnswerInv, http.stage # "await",
         NEW i \in Ids, NEW cmd \in Commands, NEW todo, Request(i, cmd, todo),
         UNCHANGED <<late, wire, peer, uart>>
  PROVE  AnswerInv'
<1>1. CASE CanSend(i)
  <2>1. http'.cmd = cmd
    <3>1. http' = [http EXCEPT !.stage = "await", !.id = i, !.cmd = cmd, !.todo = todo, !.src = None]
      BY <1>1 DEF Request
    <3>2. http \in Calls
      BY DEF TypeOK
    <3> QED
      BY <3>1, <3>2 DEF Calls
  <2>2. "http" \in Owners /\ SendRequest(i, "http", cmd)
    BY <1>1 DEF Owners, Request
  <2> QED
    BY <1>1, <2>1, <2>2, NothingSent, RequestSent
<1>2. CASE ~CanSend(i)
  BY <1>2, AnswersUntouched DEF Request
<1> QED
  BY <1>1, <1>2

LEMMA AnswersOnMessage ==
  ASSUME TypeOK, TypeOK', SlotOwned, RegistryConsistent, AnswerInv,
         NEW s \in Sockets, OnMessage(s)
  PROVE  AnswerInv'
<1> USE DEF conns, service, modules, counters
<1>1. CASE OnHello(s)
  <2>1. /\ \A i \in Ids : Calmer(i)
        /\ UNCHANGED <<pending, late, http, toDev>>
    BY <1>1, FrameHandled DEF OnHello
  <2> QED
    BY <2>1, NobodyWaits, AnswersCalm
<1>2. CASE OnTag(s)
  <2> DEFINE i == info[s].id
  <2>1. \A j \in Ids : Calmer(j)
    BY <1>2, FrameHandled DEF OnTag
  <2>2. CASE ~Consumes(s) /\ i # None /\ CanSend(i)
    <3>1. i \in Ids /\ "auto" \in Owners /\ "stop" \in Commands
      BY <2>2, RegistryTyped DEF Owners, Commands
    <3>2. SendRequest(i, "auto", "stop") /\ http' = http /\ late' = late
      BY <1>2, <2>2 DEF OnTag
    <3> QED
      BY <2>1, <2>2, <3>1, <3>2, RequestSent
  <2>3. CASE ~(~Consumes(s) /\ i # None /\ CanSend(i))
    <3>1. UNCHANGED <<pending, late, http, toDev>>
      BY <1>2, <2>3 DEF OnTag
    <3> QED
      BY <2>1, <3>1, NobodyWaits, AnswersCalm
  <2> QED
    BY <2>2, <2>3
<1>3. CASE OnAnswer(s)
  <2>1. \A j \in Ids : Calmer(j)
    BY <1>3, FrameHandled DEF OnAnswer
  <2>2. UNCHANGED <<late, toDev, peer, uart>>
    BY <1>3 DEF OnAnswer
  <2>3. CASE ~Answerable(s)
    <3>1. UNCHANGED <<pending, late, http, toDev>>
      BY <1>3, <2>3 DEF OnAnswer
    <3> QED
      BY <2>1, <3>1, NobodyWaits, AnswersCalm
  <2>4. CASE Answerable(s)
    <3> DEFINE i == info[s].id
               res == ResultOf(Head(wire[s]))
    <3>1. i \in Ids /\ pending[i] # None /\ peer[s] = i
      BY <2>4, RegistryTyped DEF Answerable, RegistryConsistent
    <3>2. Settle(i, res, s)
      BY <1>3, <2>4 DEF OnAnswer
    <3>3. /\ pending'[i] = None /\ \A j \in Ids : j # i => pending'[j] = pending[j]
          /\ http'.cmd = http.cmd
      BY <3>1, <3>2 DEF Settle, TypeOK, Calls
    <3> SUFFICES ASSUME NEW j \in Ids, ~late'[j]
                 PROVE  (IF pending[j] = None THEN Quiet(j) ELSE Placed(j, Awaited(j)))'
      BY DEF AnswerInv
    <3>4. CASE j = i
      <4>1. Placed(j, Awaited(j)) /\ peer[s] = j
        BY <2>2, <3>1, <3>4 DEF AnswerInv
      <4>2. wire[s] # <<>> /\ Head(wire[s]).kind = "answer" /\ wire' = [wire EXCEPT ![s] = Tail(@)]
        BY <1>3 DEF OnAnswer, Arrives
      <4>3. UNCHANGED <<peer, toDev, uart>>
        BY <2>2
      <4>4. Quiet(j)'
        BY <4>1, <4>2, <4>3, AnswerIsLast
      <4>5. pending'[j] = None
        BY <3>3, <3>4
      <4> QED
        BY <4>4, <4>5
    <3>5. CASE j # i
      <4>1. pending'[j] = pending[j] /\ toDev'[j] = toDev[j] /\ ~late[j] /\ Calmer(j)
        BY <2>1, <2>2, <3>3, <3>5
      <4>2. Awaited(j)' = Awaited(j)
        BY <3>3, <4>1 DEF Awaited
      <4>3. Quiet(j) => Quiet(j)'
        BY <4>1, CalmerKeeps
      <4>4. \A c : Placed(j, c) => Placed(j, c)'
        BY <4>1, CalmerKeeps
      <4>5. IF pending[j] = None THEN Quiet(j) ELSE Placed(j, Awaited(j))
        BY <4>1 DEF AnswerInv
      <4>6. CASE pending[j] = None
        BY <4>1, <4>3, <4>5, <4>6
      <4>7. CASE pending[j] # None
        <5>1. Placed(j, Awaited(j))'
          BY <4>2, <4>4, <4>5, <4>7
        <5> QED
          BY <4>1, <4>7, <5>1
      <4> QED
        BY <4>6, <4>7
    <3> QED
      BY <3>4, <3>5
  <2> QED
    BY <2>3, <2>4
<1> QED
  BY <1>1, <1>2, <1>3 DEF OnMessage

-----------------------------------------------------------------------------
\* One module acts: what was asked of it stays on its way in one place.
LEMMA ModuleActs ==
  ASSUME TypeOK, TypeOK', AnswerInv, NEW i \in Ids, UNCHANGED <<pending, late, http>>,
         Quiet(i) => Quiet(i)', \A c \in Commands \cup {"none"} : Placed(i, c) => Placed(i, c)',
         \A j \in Ids \ {i} : Calmer(j) /\ toDev'[j] = toDev[j]
  PROVE  AnswerInv'
<1> SUFFICES ASSUME NEW j \in Ids, ~late[j]
             PROVE  (IF pending[j] = None THEN Quiet(j) ELSE Placed(j, Awaited(j)))'
  BY DEF AnswerInv
<1>1. Quiet(j) => Quiet(j)'
  BY CalmerKeeps
<1>2. Awaited(j) \in Commands \cup {"none"} /\ Awaited(j)' = Awaited(j)
  BY DEF Awaited, TypeOK, Calls, Commands
<1>3. Placed(j, Awaited(j)) => Placed(j, Awaited(j))'
  <2>1. \A c \in Commands \cup {"none"} : Placed(j, c) => Placed(j, c)'
    BY CalmerKeeps
  <2> QED
    BY <1>2, <2>1
<1> QED
  BY <1>1, <1>3 DEF AnswerInv

\* The frames of other modules stay as they are.
LEMMA OthersCalm ==
  ASSUME TypeOK, NEW i \in Ids, UNCHANGED peer,
         \A s \in Sockets : peer[s] # i => wire'[s] = wire[s],
         \A j \in Ids \ {i} : uart'[j] = uart[j]
  PROVE  \A j \in Ids \ {i} : Calmer(j)
<1>1. \A j \in Ids \ {i} : OrdersWithin(uart'[j], uart[j])
  BY SameWithin DEF TypeOK
<1>2. \A s \in Sockets : peer[s] # i => AnswersWithin(wire'[s], wire[s])
  BY SameWithin DEF TypeOK
<1> QED
  BY <1>1, <1>2 DEF Calmer

\* The firmware takes a command from its connection.
LEMMA AnswersCommand ==
  ASSUME TypeOK, TypeOK', LinkInv, AnswerInv, NEW i \in Ids, HandleBinaryCommand(i)
  PROVE  AnswerInv'
<1> USE DEF service, counters
<1>1. /\ toDev[i] # <<>> /\ toDev'[i] = Tail(toDev[i])
      /\ UNCHANGED <<peer, pending, late, http, link>>
      /\ \A j \in Ids \ {i} : toDev'[j] = toDev[j]
  BY DEF HandleBinaryCommand, TypeOK
<1>2. ~Quiet(i)
  BY <1>1 DEF Quiet
<1>3. \A j \in Ids \ {i} : uart'[j] = uart[j]
  BY DEF HandleBinaryCommand, StartContinuous, SendCommand, TypeOK
<1>4. CASE Head(toDev[i]) = "start"
  <2>1. /\ SendCommand(i, "start") /\ "start" \in Commands /\ TRUE \in BOOLEAN
        /\ Sends(i, [kind |-> "answer", cmd |-> "start", ok |-> TRUE])
    BY <1>4 DEF HandleBinaryCommand, StartContinuous, Commands
  <2>2. /\ \A s \in Sockets : peer[s] # i => wire'[s] = wire[s]
        /\ NoAnswers(i) => OneAnswer(i, "start")'
    BY <1>1, <2>1, AnswerSent
  <2>3. ASSUME NEW c \in Commands \cup {"none"}, Placed(i, c)
        PROVE  Placed(i, c)'
    <3>1. toDev[i] = <<c>> /\ OnlyStarts(i) /\ NoAnswers(i)
      BY <1>1, <2>3 DEF Placed
    <3>2. c = "start" /\ toDev'[i] = <<>>
      BY <1>1, <1>4, <3>1
    <3>3. OnlyStarts(i)'
      <4>1. CASE uart'[i] = uart[i]
        BY <3>1, <4>1 DEF OnlyStarts
      <4>2. CASE uart'[i] = Append(uart[i], "start")
        <5>1. /\ Len(Append(uart[i], "start")) = Len(uart[i]) + 1 /\ Len(uart[i]) \in Nat
              /\ \A n \in 1..Len(uart[i]) : Append(uart[i], "start")[n] = uart[i][n]
              /\ Append(uart[i], "start")[Len(uart[i]) + 1] = "start"
          BY AppendProperties, LenProperties DEF TypeOK
        <5> QED
          BY <3>1, <4>2, <5>1 DEF OnlyStarts
      <4> QED
        BY <2>1, <4>1, <4>2 DEF SendCommand, TypeOK
    <3> QED
      BY <2>2, <3>1, <3>2, <3>3 DEF Placed, OneOrder, OnlyStarts
  <2>4. \A j \in Ids \ {i} : Calmer(j)
    BY <1>1, <1>3, <2>2, OthersCalm
  <2> QED
    BY <1>1, <1>2, <2>3, <2>4, ModuleActs
<1>5. CASE Head(toDev[i]) # "start"
  <2> DEFINE o == Head(toDev[i])
  <2>1. SendCommand(i, o) /\ wire' = wire
    BY <1>5 DEF HandleBinaryCommand
  <2>2. ASSUME NEW c \in Commands \cup {"none"}, Placed(i, c)
        PROVE  Placed(i, c)'
    <3>1. toDev[i] = <<c>> /\ OnlyStarts(i) /\ NoAnswers(i)
      BY <1>1, <2>2 DEF Placed
    <3>2. o = c /\ toDev'[i] = <<>>
      BY <1>1, <3>1
    <3>3. NoAnswers(i)'
      BY <1>1, <2>1, <3>1 DEF NoAnswers
    <3>4. OneOrder(i, c)'
      <4>1. CASE uart'[i] = uart[i]
        BY <3>1, <4>1 DEF OnlyStarts, OneOrder
      <4>2. CASE uart'[i] = Append(uart[i], c)
        <5>1. /\ Len(Append(uart[i], c)) = Len(uart[i]) + 1 /\ Len(uart[i]) \in Nat
              /\ \A n \in 1..Len(uart[i]) : Append(uart[i], c)[n] = uart[i][n]
              /\ Append(uart[i], c)[Len(uart[i]) + 1] = c
          BY AppendProperties, LenProperties DEF TypeOK
        <5> QED
          BY <3>1, <3>3, <4>2, <5>1 DEF OnlyStarts, OneOrder
      <4> QED
        BY <2>1, <3>2, <4>1, <4>2 DEF SendCommand, TypeOK
    <3> QED
      BY <3>2, <3>3, <3>4 DEF Placed, OneAnswer, NoAnswers
  <2>3. \A j \in Ids \ {i} : Calmer(j)
    BY <1>1, <1>3, <2>1, OthersCalm
  <2> QED
    BY <1>1, <1>2, <2>2, <2>3, ModuleActs
<1> QED
  BY <1>4, <1>5

\* The reader takes a command from its queue, and answers it or does not.
LEMMA AnswersReader ==
  ASSUME TypeOK, TypeOK', LinkInv, AnswerInv, NEW i \in Ids,
         ReaderExecutes(i) \/ ReaderRefuses(i)
  PROVE  AnswerInv'
<1> USE DEF service
<1> DEFINE o == Head(uart[i])
<1>1. /\ uart[i] # <<>> /\ uart' = [uart EXCEPT ![i] = Tail(@)]
      /\ UNCHANGED <<peer, pending, late, http, link, toDev>>
  BY DEF ReaderExecutes, ReaderRefuses, counters
<1>2. /\ uart'[i] = Tail(uart[i]) /\ uart[i] \in Seq(Commands)
      /\ \A j \in Ids \ {i} : uart'[j] = uart[j]
  BY <1>1 DEF TypeOK
<1>3. CASE wire' = wire
  <2>1. \A j \in Ids : OrdersWithin(uart'[j], uart[j])
    BY <1>1, <1>2, TailWithin, SameWithin DEF TypeOK
  <2>2. \A s \in Sockets : AnswersWithin(wire'[s], wire[s])
    BY <1>3, SameWithin DEF TypeOK
  <2>3. \A j \in Ids : Calmer(j)
    BY <1>1, <2>1, <2>2 DEF Calmer
  <2>4. SameRequests
    BY <1>1 DEF SameRequests, Awaited
  <2> QED
    BY <1>1, <2>3, <2>4, AnswersCalm
<1>4. CASE o # "start" /\ \E ok \in BOOLEAN : Sends(i, [kind |-> "answer", cmd |-> o, ok |-> ok])
  <2>1. PICK ok \in BOOLEAN : Sends(i, [kind |-> "answer", cmd |-> o, ok |-> ok])
    BY <1>4
  <2>2. o \in Commands /\ 1 \in 1..Len(uart[i]) /\ uart[i][1] = o
    BY <1>1, <1>2, EmptySeq, HeadTailProperties, LenProperties
  <2>3. /\ \A s \in Sockets : peer[s] # i => wire'[s] = wire[s]
        /\ \A c \in Commands : c = o => (NoAnswers(i) => OneAnswer(i, c)')
    <3> HIDE DEF o
    <3>1. ASSUME NEW c \in Commands, c = o
          PROVE  /\ \A s \in Sockets : peer[s] # i => wire'[s] = wire[s]
                 /\ NoAnswers(i) => OneAnswer(i, c)'
      BY <1>1, <2>1, <3>1, AnswerSent
    <3> QED
      BY <2>2, <3>1
  <2>4. ~OnlyStarts(i)
    BY <1>4, <2>2 DEF OnlyStarts
  <2>5. ASSUME NEW c \in Commands \cup {"none"}, Placed(i, c)
        PROVE  Placed(i, c)'
    <3>1. toDev[i] = <<>> /\ o = c /\ NoAnswers(i)
          /\ \A m \in 1..Len(uart[i]) : uart[i][m] # "start" => m = 1
      BY <1>4, <2>2, <2>4, <2>5 DEF Placed, OneOrder
    <3>2. /\ \A n \in 1..Len(Tail(uart[i])) : n + 1 \in 1..Len(uart[i])
                                              /\ Tail(uart[i])[n] = uart[i][n + 1]
          /\ Len(Tail(uart[i])) \in Nat
      BY <1>1, <1>2, HeadTailProperties, LenProperties
    <3>3. OnlyStarts(i)'
      BY <1>2, <3>1, <3>2 DEF OnlyStarts
    <3>4. OneAnswer(i, c)'
      BY <2>2, <2>3, <3>1
    <3> QED
      BY <1>1, <3>1, <3>3, <3>4 DEF Placed, OneOrder, OnlyStarts
  <2>6. \A j \in Ids \ {i} : Calmer(j)
    BY <1>1, <1>2, <2>3, OthersCalm
  <2> QED
    BY <1>1, <2>4, <2>5, <2>6, ModuleActs DEF Quiet
<1> QED
  BY <1>3, <1>4 DEF ReaderExecutes, ReaderRefuses

\* What happens to connections takes answers away, and brings none.
LEMMA AnswersOnConnections ==
  ASSUME TypeOK, TypeOK', SlotOwned, AnswerInv,
         \/ \E s \in Sockets : OnClose(s)
         \/ \E i \in Ids, s \in Sockets : Connect(i, s)
         \/ \E i \in Ids : LoseLink(i) \/ PowerCut(i)
  PROVE  AnswerInv'
<1> USE DEF conns, service, modules, counters
<1>1. UNCHANGED <<pending, late, http>>
  BY DEF OnClose, Connect, LoseLink, PowerCut
<1>2. \A i \in Ids : toDev'[i] \in {toDev[i], <<>>}
  BY DEF OnClose, Connect, LoseLink, PowerCut, TypeOK
<1>3. \A i \in Ids : OrdersWithin(uart'[i], uart[i])
  <2>1. \A i \in Ids : uart'[i] \in {uart[i], <<>>}
    BY DEF OnClose, Connect, LoseLink, PowerCut, TypeOK
  <2> QED
    BY <2>1, SameWithin, EmptyWithin DEF TypeOK
<1>4. ASSUME NEW i \in Ids, NEW s \in Sockets, peer'[s] = i
      PROVE  \/ peer[s] = i /\ AnswersWithin(wire'[s], wire[s])
             \/ \A n \in 1..Len(wire'[s]) : wire'[s][n].kind # "answer"
  <2>1. CASE wire'[s] = wire[s] /\ peer[s] = i
    BY <2>1, SameWithin DEF TypeOK
  <2>2. CASE wire'[s] = <<[kind |-> "hello"]>>
    BY <2>2
  <2>3. ASSUME NEW t \in Sockets, OnClose(t)
        PROVE  wire'[s] = wire[s] /\ peer[s] = i
    <3>1. peer'[t] = None /\ \A r \in Sockets : r # t => peer'[r] = peer[r] /\ wire'[r] = wire[r]
      BY <2>3 DEF OnClose, TypeOK
    <3> QED
      BY <1>4, <3>1, NoneAssumption
  <2>4. ASSUME NEW j \in Ids, NEW t \in Sockets, Connect(j, t)
        PROVE  \/ wire'[s] = wire[s] /\ peer[s] = i
               \/ wire'[s] = <<[kind |-> "hello"]>>
    <3>1. /\ wire'[t] = <<[kind |-> "hello"]>>
          /\ \A r \in Sockets : r # t => peer'[r] = peer[r] /\ wire'[r] = wire[r]
      BY <2>4 DEF Connect, TypeOK
    <3> QED
      BY <1>4, <3>1
  <2>5. ASSUME NEW j \in Ids, LoseLink(j) \/ PowerCut(j)
        PROVE  wire'[s] = wire[s] /\ peer[s] = i
    BY <1>4, <2>5 DEF LoseLink, PowerCut
  <2> QED
    BY <2>1, <2>2, <2>3, <2>4, <2>5
<1>5. \A i \in Ids : Calmer(i)
  BY <1>3, <1>4 DEF Calmer
<1>6. SameRequests
  BY <1>1 DEF SameRequests, Awaited
<1> QED
  BY <1>1, <1>2, <1>5, <1>6, AnswersCalm

\* A tag report is no answer.
LEMMA AnswersTagSeen ==
  ASSUME TypeOK, TypeOK', SlotOwned, AnswerInv, NEW i \in Ids, TagSeen(i)
  PROVE  AnswerInv'
<1> USE DEF conns, service, modules, counters
<1> DEFINE t == link[i]
           f == [kind |-> "tag"]
<1>1. /\ t \in Sockets /\ wire[t] \in Seq(Frames)
      /\ wire'[t] = Append(wire[t], f) /\ \A s \in Sockets : s # t => wire'[s] = wire[s]
      /\ UNCHANGED <<pending, late, http, peer, uart, toDev>>
  BY DEF TagSeen, Sends, TypeOK
<1>2. f.kind # "answer"
  OBVIOUS
<1>3. f \in [kind : {"hello", "tag"}]
  OBVIOUS
<1>4. f \in Frames
  BY <1>3 DEF Frames
<1> HIDE DEF f
<1>5. AnswersWithin(Append(wire[t], f), wire[t])
  <2>1. /\ Len(Append(wire[t], f)) = Len(wire[t]) + 1 /\ Len(wire[t]) \in Nat
        /\ \A n \in 1..Len(wire[t]) : Append(wire[t], f)[n] = wire[t][n]
        /\ Append(wire[t], f)[Len(wire[t]) + 1] = f
    BY <1>1, <1>4, AppendProperties, LenProperties
  <2>2. \A n \in 1..Len(Append(wire[t], f)) : Append(wire[t], f)[n].kind = "answer" =>
          n + 0 \in 1..Len(wire[t]) /\ Append(wire[t], f)[n] = wire[t][n + 0]
    BY <1>2, <2>1
  <2> QED
    BY <2>2 DEF AnswersWithin
<1>6. \A s \in Sockets : AnswersWithin(wire'[s], wire[s])
  BY <1>1, <1>5, SameWithin DEF TypeOK
<1>7. \A j \in Ids : OrdersWithin(uart'[j], uart[j])
  BY <1>1, SameWithin DEF TypeOK
<1>8. \A j \in Ids : Calmer(j)
  BY <1>1, <1>6, <1>7 DEF Calmer
<1>9. SameRequests
  BY <1>1 DEF SameRequests, Awaited
<1> QED
  BY <1>1, <1>8, <1>9, AnswersCalm

\* A request is given up: from then on nothing is claimed of that module.
LEMMA AnswersTimeout ==
  ASSUME TypeOK, TypeOK', SlotOwned, AnswerInv, NEW i \in Ids, NEW owner \in Owners,
         Timeout(i, owner)
  PROVE  AnswerInv'
<1> USE DEF conns, modules
<1>1. /\ UNCHANGED <<wire, peer, uart, toDev>> /\ late'[i]
      /\ \A j \in Ids : j # i => late'[j] = late[j] /\ pending'[j] = pending[j]
  BY DEF Timeout, TypeOK
<1>2. http'.cmd = http.cmd
  BY DEF Timeout, TypeOK, Calls
<1>3. SameRequests
  BY <1>1, <1>2 DEF SameRequests, Awaited
<1>4. \A j \in Ids : Calmer(j)
  BY <1>1, NothingSent
<1> QED
  BY <1>1, <1>3, <1>4, AnswersCalm

\* The handlers.
LEMMA AnswersHttp ==
  ASSUME TypeOK, TypeOK', SlotOwned, AnswerInv, HttpCall \/ HttpStep
  PROVE  AnswerInv'
<1> USE DEF conns, service, modules, counters
<1>1. ASSUME NEW i \in Ids, Turn(i)
      PROVE  AnswerInv'
  <2>1. CASE Eligible(i)
    <3>1. http.op \in Commands
      BY <1>1 DEF Turn, TypeOK, Calls
    <3>2. Request(i, http.op, http.todo \ {i}) /\ http.stage # "await"
      BY <1>1, <2>1 DEF Turn
    <3> QED
      BY <1>1, <3>1, <3>2, AnswersRequest DEF Turn
  <2>2. CASE ~Eligible(i)
    BY <1>1, <2>2, AnswersUntouched DEF Turn
  <2> QED
    BY <2>1, <2>2
<1>2. CASE ResumeReadBack
  <2>1. /\ Request(http.id, "getPower", {}) /\ "getPower" \in Commands
        /\ http.id \in Ids /\ http.stage # "await"
    BY <1>2 DEF ResumeReadBack, Commands, SlotOwned
  <2> QED
    BY <1>2, <2>1, AnswersRequest DEF ResumeReadBack
<1>3. CASE Finish
  BY <1>3, AnswersUntouched DEF Finish
<1>4. CASE ResumeStore
  BY <1>4, AnswersUntouched DEF ResumeStore
<1>5. CASE Resume
  BY <1>5, AnswersUntouched DEF Resume
<1>6. ASSUME NEW op, NEW ids, NEW soft, Enter(op, ids, soft)
      PROVE  AnswerInv'
  BY <1>6, AnswersUntouched DEF Enter
<1>7. ASSUME NEW i, NEW c, Assign(i, c)
      PROVE  AnswerInv'
  BY <1>7, AnswersUntouched DEF Assign
<1>8. CASE HttpCall
  BY <1>6, <1>7, <1>8 DEF HttpCall, StartScanByMode, StopScanByMode, StartScan, StopScan,
     GetCurrentPower, SetRegion, GetModuleInfo, SetPower, SetIsActive, SetMode
<1> QED
  BY <1>1, <1>2, <1>3, <1>4, <1>5, <1>8 DEF HttpStep

LEMMA AnswerStep ==
  TypeOK /\ TypeOK' /\ SlotOwned /\ RegistryConsistent /\ LinkInv /\ AnswerInv /\ [Next]_vars
    => AnswerInv'
<1> SUFFICES ASSUME TypeOK, TypeOK', SlotOwned, RegistryConsistent, LinkInv, AnswerInv, [Next]_vars
             PROVE  AnswerInv'
  OBVIOUS
<1>1. CASE HttpCall \/ HttpStep
  BY <1>1, AnswersHttp
<1>2. CASE Restart
  BY <1>2 DEF Restart, AnswerInv
<1>3. ASSUME NEW s \in Sockets, OnMessage(s)
      PROVE  AnswerInv'
  BY <1>3, AnswersOnMessage
<1>4. CASE \/ Sweep
           \/ \E s \in Sockets : Telemetry(s) \/ PeerEnds(s) \/ GoSilent(s)
           \/ UNCHANGED vars
  BY <1>4, AnswersUntouched
     DEF Sweep, Telemetry, PeerEnds, GoSilent, vars, conns, service, modules, counters
<1>5. ASSUME NEW i \in Ids, ModuleStep(i) \/ ReaderRefuses(i)
      PROVE  AnswerInv'
  BY <1>5, AnswersCommand, AnswersReader DEF ModuleStep
<1>6. ASSUME NEW i \in Ids, TagSeen(i)
      PROVE  AnswerInv'
  BY <1>6, AnswersTagSeen
<1>7. ASSUME NEW i \in Ids, NEW owner \in Owners, Timeout(i, owner)
      PROVE  AnswerInv'
  BY <1>7, AnswersTimeout
<1>8. CASE \/ \E s \in Sockets : OnClose(s)
           \/ \E i \in Ids, s \in Sockets : Connect(i, s)
           \/ \E i \in Ids : LoseLink(i) \/ PowerCut(i)
  BY <1>8, AnswersOnConnections
<1> QED
  BY <1>1, <1>2, <1>3, <1>4, <1>5, <1>6, <1>7, <1>8 DEF Next, Fault

\* At most one command of a module is on its way, and it is the awaited one.
LEMMA InvAnswersExpected == TypeOK /\ AnswerInv => AnswersExpected
<1> SUFFICES ASSUME TypeOK, AnswerInv, NEW i \in Ids, ~late[i], NEW c \in Commands, Unanswered(i, c)
             PROVE  pending[i] # None /\ Awaited(i) = c
  BY DEF AnswersExpected
<1>1. ~Quiet(i)
  <2>1. CASE \E n \in 1..Len(toDev[i]) : toDev[i][n] = c
    BY <2>1, EmptySeq DEF Quiet
  <2> QED
    BY <2>1 DEF Unanswered, Quiet, OnlyStarts, NoAnswers
<1>2. pending[i] # None /\ Placed(i, Awaited(i))
  BY <1>1 DEF AnswerInv
<1>3. ASSUME NEW n \in 1..Len(toDev[i]), toDev[i][n] = c
      PROVE  Awaited(i) = c
  <2>1. toDev[i] = <<Awaited(i)>>
    BY <1>2, <1>3, EmptySeq DEF Placed
  <2> QED
    BY <1>3, <2>1
<1> QED
  BY <1>2, <1>3 DEF Unanswered, Placed, OneOrder, OneAnswer

\* Although answers carry no request id, every answer that is on its way belongs to the
\* request that waits for it, until a request of that module was given up.
THEOREM AnswersAreExpected == Spec => []AnswersExpected
<1>1. Init => AnswerInv
  BY EmptySeq DEF Init, AnswerInv, Quiet, OnlyStarts, NoAnswers
<1>2. TypeOK /\ TypeOK' /\ SlotOwned /\ RegistryInv /\ AnswerInv /\ [Next]_vars => AnswerInv'
  BY AnswerStep DEF RegistryInv
<1>3. TypeOK /\ AnswerInv => AnswersExpected
  BY InvAnswersExpected
<1> QED
  BY <1>1, <1>2, <1>3, TypeCorrect, SlotsOwned, RegistryHolds, PTL DEF Spec

=============================================================================
