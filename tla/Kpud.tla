-------------------------------- MODULE Kpud --------------------------------
(***************************************************************************)
(* The KPU GEMM daemon llm/board/kpud.cpp: interpreter cache with its caps, *)
(* warm-up, and the request protocol on one long connection at a time.      *)
(*                                                                         *)
(* A request is a head (magic, stem, mt) and mt * K(stem) floats; floats    *)
(* are counted, not modelled.  The client is llmd, whose source is not in   *)
(* the repository: it sends one request and then waits for the answer.      *)
(***************************************************************************)
EXTENDS Naturals, Sequences, FiniteSets

CONSTANTS
  Clients,     \* connections that may be opened
  Stems,       \* kernel names
  Misnamed,    \* stems whose suffix infer_shape does not know
  K, OUT,      \* [Stems -> Nat]: columns of x and of y
  Mts,         \* row counts that clients send
  Cap,         \* [Tiers -> Nat]: KPUD_CAP1, KPUD_CAP4, KPUD_CAP16
  WarmFiles,   \* sorted stems of the S16 directory
  LoadResults, \* how a load may end: subset of Outcomes
  RunResults,  \* how a run on the KPU may end: subset of BOOLEAN
  MaxMt        \* 65536

Tiers == {1, 4, 16}
Outcomes == {"ok", "read", "model", "rank", "tensor"}

ASSUME SizeAssumption ==
  /\ K \in [Stems -> Nat \ {0}] /\ OUT \in [Stems -> Nat \ {0}]
  /\ Misnamed \subseteq Stems
  /\ Cap \in [Tiers -> Nat]
  /\ WarmFiles \in Seq(Stems)
  /\ LoadResults \subseteq Outcomes /\ RunResults \subseteq BOOLEAN
  /\ Mts \subseteq Nat /\ MaxMt \in Nat

None == "none"
ASSUME NoneAssumption == None \notin Clients \cup Stems

\* handle_conn: the smallest tile that takes mt rows; it holds S * S of them.
Tier(mt) == IF mt = 1 THEN 1 ELSE IF mt <= 16 THEN 4 ELSE 16
Columns(S) == S * S

\* Clients cut their work into tiles that fit, or send garbage counts.
ASSUME TileAssumption ==
  \A mt \in Mts : mt = 0 \/ mt > MaxMt \/ mt <= Columns(Tier(mt))

VARIABLES
  phase,    \* "boot", "warming", "serving", "exited"
  warmed,   \* how many of WarmFiles warm_all has been through
  cache,    \* g_cache: from <<stem, S>> to [last, used] of the input tile
  count,    \* entries of g_order per tier
  mmz,      \* CMA buffers allocated for models and not freed
  cmaLow,   \* CmaFree is below the floor (others allocate and free as well)
  stop,     \* g_stop
  backlog,  \* connections not yet accepted
  conn,     \* the connection being served
  at,       \* where handle_conn is: "head", "lookup", "payload", "run", "drain"
  req,      \* the request being served
  link,     \* per connection: "off", "open", "closed" (by client), "hung" (by kpud)
  up,       \* what the client has sent and kpud not read
  down,     \* what kpud has sent and the client not read
  asked     \* the request the client waits on, or NoReq

store == <<cache, count, mmz>>
wires == <<link, up, down, asked>>
vars == <<phase, warmed, store, cmaLow, stop, backlog, conn, at, req, wires>>

-----------------------------------------------------------------------------
Ask(stem, mt) == [kind |-> "head", stem |-> stem, mt |-> mt, len |-> 0]
Floats(n) == [kind |-> "x", stem |-> None, mt |-> 0, len |-> n]
Reply(code, n) == [code |-> code, len |-> n]

NoReq == Ask(None, 0)
Key == <<req.stem, Tier(req.mt)>>
Reject(mt) == mt = 0 \/ mt > MaxMt


\* Fault: one too many.
FaultOneMore(S) == Cap[S] = 0 \/ count[S] > Cap[S] \/ cmaLow

\* load_entry refuses before it touches anything: tier full or closed, CMA low.
Refused(S) == Cap[S] = 0 \/ count[S] >= Cap[S] \/ cmaLow


\* Two faults: a tile of S * 16 columns; a load evicts the others of its tier.
FaultWideTile(key, result, buffer) ==
  IF result = "ok"
  THEN /\ cache' = [k \in DOMAIN cache \cup {key} |->
                      IF k = key THEN [last |-> key[2] * 16, used |-> 0]
                                 ELSE cache[k]]
       /\ count' = [count EXCEPT ![key[2]] = @ + 1]
       /\ mmz' = mmz + buffer
  ELSE UNCHANGED <<cache, count, mmz>>

FaultEvict(key, result, buffer) ==
  IF result = "ok"
  THEN /\ cache' = [k \in {l \in DOMAIN cache : l[2] # key[2]} \cup {key} |->
                      IF k = key THEN [last |-> Columns(key[2]), used |-> 0]
                                 ELSE cache[k]]
       /\ count' = [count EXCEPT ![key[2]] = 1]
       /\ mmz' = mmz + buffer
  ELSE UNCHANGED <<cache, count, mmz>>

\* Fault: the buffer of a model that cannot be loaded is kept.
FaultLeak(key, result, buffer) ==
  IF result = "ok"
  THEN /\ cache' = [k \in DOMAIN cache \cup {key} |->
                      IF k = key THEN [last |-> Columns(key[2]), used |-> 0]
                                 ELSE cache[k]]
       /\ count' = [count EXCEPT ![key[2]] = @ + 1]
       /\ mmz' = mmz + buffer
  ELSE /\ UNCHANGED <<cache, count>>
       /\ mmz' = mmz + buffer

\* A load that is tried.  The model goes into a CMA buffer if one is to be had;
\* failures give it back, the one for a wrong rank does not.
Load(key, result, buffer) ==
  IF result = "ok"
  THEN /\ cache' = [k \in DOMAIN cache \cup {key} |->
                      IF k = key THEN [last |-> Columns(key[2]), used |-> 0]
                                 ELSE cache[k]]
       /\ count' = [count EXCEPT ![key[2]] = @ + 1]
       /\ mmz' = mmz + buffer
  ELSE /\ UNCHANGED <<cache, count>>
       /\ mmz' = IF result = "rank" THEN mmz + buffer ELSE mmz


\* Fault: columns given up are not zeroed.
FaultNoZero(tile, mt) ==
  [last |-> mt, used |-> IF tile.used > mt THEN tile.used ELSE mt]

\* What invoke does to the input tile: columns given up since the last call are
\* zeroed, last_mt follows, then mt columns are written.  "used" is one more
\* than the last column that is not zero.
Fold(tile, mt) ==
  LET zeroed == IF mt < tile.last /\ tile.used <= tile.last /\ tile.used > mt
                THEN mt ELSE tile.used
  IN  [last |-> mt, used |-> IF zeroed > mt THEN zeroed ELSE mt]

-----------------------------------------------------------------------------
(* main and warm_all. *)

\* bind, listen and "listening on", the line chatd waits for, come before the
\* warm-up.
Listen ==
  /\ phase = "boot"
  /\ phase' = "warming"
  /\ UNCHANGED <<warmed, store, cmaLow, stop, backlog, conn, at, req, wires>>

ToWarm == IF Len(WarmFiles) <= Cap[16] THEN Len(WarmFiles) ELSE Cap[16]

\* One stem: load it if it is not there, and run it on a zero tile.
WarmOne ==
  /\ phase = "warming" /\ warmed < ToWarm /\ ~cmaLow
  /\ warmed' = warmed + 1
  /\ LET key == <<WarmFiles[warmed + 1], 16>>
     IN  IF key \in DOMAIN cache \/ Refused(16)
         THEN UNCHANGED store
         ELSE \E result \in LoadResults, buffer \in 0..1 : Load(key, result, buffer)
  /\ UNCHANGED <<phase, cmaLow, stop, backlog, conn, at, req, wires>>


\* Fault: waits for CMA instead of stopping at the floor.
FaultWarmAll ==
  /\ phase = "warming" /\ warmed = ToWarm
  /\ phase' = "serving"
  /\ UNCHANGED <<warmed, store, cmaLow, stop, backlog, conn, at, req, wires>>

\* All done, or the CMA floor is hit.
WarmEnds ==
  /\ phase = "warming" /\ (warmed = ToWarm \/ cmaLow)
  /\ phase' = "serving"
  /\ UNCHANGED <<warmed, store, cmaLow, stop, backlog, conn, at, req, wires>>

Accept ==
  /\ phase = "serving" /\ conn = None /\ ~stop /\ backlog # <<>>
  /\ conn' = backlog[1]
  /\ backlog' = Tail(backlog)
  /\ at' = "head"
  /\ UNCHANGED <<phase, warmed, store, cmaLow, stop, req, wires>>

\* Connections still in the listen queue end with the process.
Leave ==
  /\ phase = "serving" /\ conn = None /\ stop
  /\ phase' = "exited"
  /\ backlog' = <<>>
  /\ link' = [c \in Clients |-> IF link[c] = "open" THEN "hung"
                                ELSE IF link[c] = "closed" THEN "off" ELSE link[c]]
  /\ up' = [c \in Clients |-> <<>>]
  /\ UNCHANGED <<warmed, store, cmaLow, stop, conn, at, req, down, asked>>

-----------------------------------------------------------------------------
(* handle_conn.  recv blocks until the bytes are there or the client is gone. *)

Serving(l) == phase = "serving" /\ conn # None /\ at = l

\* return from handle_conn and close(conn), sending "last" before.  What the
\* client has not read yet it can still read.
HangUp(last) ==
  /\ conn' = None
  /\ up' = [up EXCEPT ![conn] = <<>>]
  /\ IF link[conn] = "open"
     THEN /\ link' = [link EXCEPT ![conn] = "hung"]
          /\ down' = [down EXCEPT ![conn] = @ \o last]
     ELSE /\ link' = [link EXCEPT ![conn] = "off"]
          /\ UNCHANGED down

\* A send to a client that is gone fails, and handle_conn returns.
Answer(reply) ==
  IF link[conn] = "open"
  THEN /\ down' = [down EXCEPT ![conn] = Append(@, reply)]
       /\ UNCHANGED <<conn, link>>
  ELSE /\ conn' = None
       /\ link' = [link EXCEPT ![conn] = "off"]
       /\ UNCHANGED down

\* Magic, stem and mt.  Floats where a head should be fail the magic check.
ReadHead ==
  /\ Serving("head") /\ up[conn] # <<>>
  /\ IF up[conn][1].kind = "head"
     THEN /\ req' = up[conn][1]
          /\ up' = [up EXCEPT ![conn] = Tail(@)]
          /\ at' = IF Reject(up[conn][1].mt) THEN "drain" ELSE "lookup"
          /\ UNCHANGED <<conn, link, down>>
     ELSE HangUp(<<>>) /\ UNCHANGED <<at, req>>
  /\ UNCHANGED <<phase, warmed, store, cmaLow, stop, backlog, asked>>

\* get_entry
Hit ==
  /\ Serving("lookup") /\ Key \in DOMAIN cache
  /\ at' = "payload"
  /\ UNCHANGED <<phase, warmed, store, cmaLow, stop, backlog, conn, req, wires>>

Refuse ==
  /\ Serving("lookup") /\ Key \notin DOMAIN cache /\ Refused(Key[2])
  /\ at' = "drain"
  /\ UNCHANGED <<phase, warmed, store, cmaLow, stop, backlog, conn, req, wires>>

LoadOnDemand ==
  /\ Serving("lookup") /\ Key \notin DOMAIN cache /\ ~Refused(Key[2])
  /\ \E result \in LoadResults, buffer \in 0..1 :
       /\ Load(Key, result, buffer)
       /\ at' = IF result = "ok" THEN "payload" ELSE "drain"
  /\ UNCHANGED <<phase, warmed, cmaLow, stop, backlog, conn, req, wires>>

\* What is left on the wire after n floats are taken off it.
Without(wire, n) ==
  IF wire[1].len = n THEN Tail(wire) ELSE <<Floats(wire[1].len - n)>> \o Tail(wire)

HasFloats(n) == up[conn] # <<>> /\ up[conn][1].kind = "x" /\ up[conn][1].len >= n

PayloadLen == req.mt * K[req.stem]

ReadPayload ==
  /\ Serving("payload") /\ HasFloats(PayloadLen)
  /\ up' = [up EXCEPT ![conn] = Without(@, PayloadLen)]
  /\ at' = "run"
  /\ UNCHANGED <<phase, warmed, store, cmaLow, stop, backlog, conn, req, link, down, asked>>


\* Fault: as many columns as came in.
FaultEcho ==
  /\ Serving("run")
  /\ cache' = [cache EXCEPT ![Key] = Fold(@, req.mt)]
  /\ \E ok \in RunResults :
       Answer(IF ok THEN Reply(0, req.mt * K[req.stem]) ELSE Reply(1, 0))
  /\ at' = "head"
  /\ UNCHANGED <<phase, warmed, count, mmz, cmaLow, stop, backlog, req, up, asked>>

\* A failed run has read its payload, so it answers 1 and does not drain.
Run ==
  /\ Serving("run")
  /\ cache' = [cache EXCEPT ![Key] = Fold(@, req.mt)]
  /\ \E ok \in RunResults :
       Answer(IF ok THEN Reply(0, req.mt * OUT[req.stem]) ELSE Reply(1, 0))
  /\ at' = "head"
  /\ UNCHANGED <<phase, warmed, count, mmz, cmaLow, stop, backlog, req, up, asked>>


\* Two faults: the payload of a refused request stays on the wire; the refusal
\* is not sent.
FaultNoDrain ==
  /\ Serving("drain") /\ ~Reject(req.mt) /\ req.stem \notin Misnamed
  /\ Answer(Reply(2, 0))
  /\ at' = "head"
  /\ UNCHANGED <<phase, warmed, store, cmaLow, stop, backlog, req, up, asked>>

FaultSilent ==
  /\ Serving("drain") /\ ~Reject(req.mt) /\ req.stem \notin Misnamed
  /\ HasFloats(PayloadLen)
  /\ up' = [up EXCEPT ![conn] = Without(@, PayloadLen)]
  /\ at' = "head"
  /\ UNCHANGED <<phase, warmed, store, cmaLow, stop, backlog, conn, req, link, down, asked>>

\* The refusal goes out and the payload is read away.
Drain ==
  /\ Serving("drain") /\ ~Reject(req.mt) /\ req.stem \notin Misnamed
  /\ HasFloats(PayloadLen)
  /\ up' = [up EXCEPT ![conn] = Without(@, PayloadLen)]
  /\ Answer(Reply(2, 0))
  /\ at' = "head"
  /\ UNCHANGED <<phase, warmed, store, cmaLow, stop, backlog, req, asked>>

\* The length of the payload is not to be known: hang up after the refusal.
Undrainable ==
  /\ Serving("drain") /\ (Reject(req.mt) \/ req.stem \in Misnamed)
  /\ HangUp(<<Reply(2, 0)>>)
  /\ at' = "head"
  /\ UNCHANGED <<phase, warmed, store, cmaLow, stop, backlog, req, asked>>

\* recv finds the end of the stream, between two requests or inside one.
SeeClosed ==
  /\ \E l \in {"head", "payload", "drain"} : Serving(l)
  /\ link[conn] = "closed" /\ up[conn] = <<>>
  /\ HangUp(<<>>)
  /\ at' = "head"
  /\ UNCHANGED <<phase, warmed, store, cmaLow, stop, backlog, req, asked>>

-----------------------------------------------------------------------------
(* The client, chatd, and the other users of CMA. *)

daemon == <<phase, warmed, store, conn, at, req>>

\* The listen queue takes connections from the moment of listen().
Connect(c) ==
  /\ phase \in {"warming", "serving"} /\ link[c] = "off"
  /\ link' = [link EXCEPT ![c] = "open"]
  /\ backlog' = Append(backlog, c)
  /\ UNCHANGED <<daemon, cmaLow, stop, up, down, asked>>

\* Head and payload in one sendmsg.
Send(c, stem, mt) ==
  /\ link[c] = "open" /\ asked[c] = NoReq
  /\ asked' = [asked EXCEPT ![c] = Ask(stem, mt)]
  /\ up' = [up EXCEPT ![c] = @ \o <<Ask(stem, mt)>> \o
                             (IF mt = 0 THEN <<>> ELSE <<Floats(mt * K[stem])>>)]
  /\ UNCHANGED <<daemon, cmaLow, stop, backlog, link, down>>

Receive(c) ==
  /\ link[c] \in {"open", "hung"} /\ asked[c] # NoReq /\ down[c] # <<>>
  /\ down' = [down EXCEPT ![c] = Tail(@)]
  /\ asked' = [asked EXCEPT ![c] = NoReq]
  /\ UNCHANGED <<daemon, cmaLow, stop, backlog, link, up>>

\* The client leaves, with or without an answer outstanding, or dies with its
\* sendmsg under way: what is left of its request is a head, or nothing (recv
\* takes half a head, or half a payload, for none).
Close(c) ==
  /\ link[c] = "open"
  /\ link' = [link EXCEPT ![c] = "closed"]
  /\ \E n \in 0..Len(up[c]) : up' = [up EXCEPT ![c] = SubSeq(@, 1, n)]
  /\ down' = [down EXCEPT ![c] = <<>>]
  /\ asked' = [asked EXCEPT ![c] = NoReq]
  /\ UNCHANGED <<daemon, cmaLow, stop, backlog>>

\* The client sees that kpud hung up and may connect again.
SeeHungUp(c) ==
  /\ link[c] = "hung" /\ down[c] = <<>>
  /\ link' = [link EXCEPT ![c] = "off"]
  /\ asked' = [asked EXCEPT ![c] = NoReq]
  /\ UNCHANGED <<daemon, cmaLow, stop, backlog, up, down>>

\* SIGTERM, when chatd dies or stops; the handler only sets the flag.
Terminate ==
  /\ phase \in {"warming", "serving"} /\ ~stop
  /\ stop' = TRUE
  /\ UNCHANGED <<daemon, cmaLow, backlog, wires>>

\* llmd and tts take CMA and give it back.
CmaShift ==
  /\ cmaLow' = ~cmaLow
  /\ UNCHANGED <<daemon, stop, backlog, wires>>

-----------------------------------------------------------------------------
Init ==
  /\ phase = "boot" /\ warmed = 0
  /\ cache = [k \in {} |-> 0]
  /\ count = [S \in Tiers |-> 0]
  /\ mmz = 0
  /\ cmaLow \in BOOLEAN
  /\ stop = FALSE
  /\ backlog = <<>> /\ conn = None /\ at = "head" /\ req = NoReq
  /\ link = [c \in Clients |-> "off"]
  /\ up = [c \in Clients |-> <<>>] /\ down = [c \in Clients |-> <<>>]
  /\ asked = [c \in Clients |-> NoReq]

Daemon ==
  \/ Listen \/ WarmOne \/ WarmEnds \/ Accept \/ Leave
  \/ ReadHead \/ Hit \/ Refuse \/ LoadOnDemand \/ ReadPayload \/ Run
  \/ Drain \/ Undrainable \/ SeeClosed

Client(c) ==
  \/ Connect(c) \/ Receive(c) \/ Close(c) \/ SeeHungUp(c)
  \/ \E stem \in Stems, mt \in Mts : Send(c, stem, mt)

Next == Daemon \/ (\E c \in Clients : Client(c)) \/ Terminate \/ CmaShift

Spec == Init /\ [][Next]_vars

\* kpud gets the CPU, and a client reads what is sent to it.
LiveSpec ==
  Spec /\ WF_vars(Daemon) /\ \A c \in Clients : WF_vars(Receive(c) \/ SeeHungUp(c))

-----------------------------------------------------------------------------
(* Properties. *)

TypeOK ==
  /\ phase \in {"boot", "warming", "serving", "exited"}
  /\ warmed \in 0..Len(WarmFiles)
  /\ DOMAIN cache \subseteq Stems \X Tiers
  /\ \A k \in DOMAIN cache : cache[k] \in [last : 0..Columns(k[2]), used : Nat]
  /\ count \in [Tiers -> Nat] /\ mmz \in Nat
  /\ {cmaLow, stop} \subseteq BOOLEAN
  /\ conn \in Clients \cup {None}
  /\ at \in {"head", "lookup", "payload", "run", "drain"}
  /\ link \in [Clients -> {"off", "open", "closed", "hung"}]

\* The stream never gets out of step: where kpud looks for a head there is one,
\* or nothing (the drain of a refused request; kpud.cpp:377-380).
InStep ==
  \A c \in Clients :
    up[c] # <<>> /\ (conn = c => at = "head") => up[c][1].kind = "head"

\* A client that waits gets the answer to what it asked: one, of the length it
\* will read; one that does not wait has nothing to read.
AnswerFits ==
  \A c \in Clients : down[c] # <<>> =>
    /\ asked[c] # NoReq /\ Len(down[c]) = 1
    /\ down[c][1].code = 0 => down[c][1].len = asked[c].mt * OUT[asked[c].stem]

\* Every run sees zeros right of its mt columns: what an earlier, wider call
\* left there would spoil the quantisation of the whole tile (kpud.cpp:100-107).
TailIsZero == [][Run => cache'[Key].used <= req.mt]_vars

\* No tier ever holds more than its cap, by the count the check uses and by the
\* entries that really are there, and nothing loaded is ever evicted.
CapHolds ==
  \A S \in Tiers : /\ count[S] <= Cap[S]
                   /\ Cardinality({k \in DOMAIN cache : k[2] = S}) = count[S]
NothingEvicted == [][DOMAIN cache \subseteq DOMAIN cache']_vars

\* A client lets go of its connection again and again (llmd gets its own SIGTERM).
LetsGo(c) == SF_vars(Close(c))

\* A client that waits is answered, or told that it is over, if the clients
\* before it let go: kpud serves one connection to its end.
EveryAskEnds ==
  \A c \in Clients :
    (\A d \in Clients \ {c} : LetsGo(d)) => (asked[c] # NoReq ~> asked[c] = NoReq)

\* SIGTERM ends kpud, once its clients let go.
TermIsObeyed == (\A c \in Clients : LetsGo(c)) => (stop ~> phase = "exited")

\* Every CMA buffer belongs to a loaded model: the failure paths of a load give
\* theirs back (kpud.cpp:170: CMA is the lifeline).  Loads of a wrong rank,
\* which do not (225), are left out of the runs.
BuffersAreOwned == mmz <= Cardinality(DOMAIN cache)

\* Both ends agree on where a request and an answer begin and end.
StreamIsFramed == InStep /\ AnswerFits

\* The cache holds what it counts, within its caps, and owns every buffer there is.
CacheIsSound == TypeOK /\ CapHolds /\ BuffersAreOwned

\* A model once loaded stays, with a tile that no earlier call can spoil.
TilesAreClean == TailIsZero /\ NothingEvicted
=============================================================================
