---------------------------- MODULE ReverseLink ----------------------------
(***************************************************************************)
(* The reverse link of CordFoundation (src/src/cord/foundation.ts): a node *)
(* behind a firewall, the client, opens a session at another node, the     *)
(* server, and keeps polling it; the server hands its calls to the client  *)
(* in the answers to the polls, and the client sends back the results.     *)
(*                                                                         *)
(* Each connect() makes a new connection with a session and a loop of its  *)
(* own (runReverseClient).  The client's table reverseOutgoing holds one   *)
(* connection per peer, entry, and the server's table reverseIncoming one  *)
(* session per peer, session; a connection and its session share a number. *)
(* The peers' records in the route state are left out, and so are the      *)
(* numbers of milliseconds: a timer may fire whenever it is set.           *)
(***************************************************************************)
EXTENDS Integers, Sequences, FiniteSets, SequencesExt

CONSTANTS
  Conn,         \* the connections that may be opened, in this order: 1, 2, ...
  Req,          \* the calls the server may make, in this order: 1, 2, ...
  Leased,       \* the connections opened with a ttl
  MaxFaults     \* bound: losses, closures, restarts, stops and disconnects

ASSUME ReverseLinkAssumption ==
  /\ Conn \subseteq Nat \ {0} /\ IsFiniteSet(Conn)
  /\ Req \subseteq Nat \ {0} /\ IsFiniteSet(Req)
  /\ Leased \subseteq Conn
  /\ MaxFaults \in Nat

VARIABLES
  up,           \* is the client started
  entry,        \* reverseOutgoing of the client: a connection, or None
  loop,         \* where each connection stands
  told,         \* connections that were told to stop
  expired,      \* connections whose ttl has passed
  serving,      \* the request each connection is serving
  answer,       \* the answer under way to the poll of each connection
  session,      \* reverseIncoming of the server: a session, or None
  queue,        \* requests of each session that wait for a poll
  waiters,      \* polls that wait for a request, "gone" if nobody listens
  closes,       \* reverse.close calls under way
  call,         \* how each call of the server stands
  of,           \* the session each call was made in
  ran,          \* how often each request was run by the client
  kept,         \* ghost: the connection opened last, until something ends it
  off,          \* ghost: disconnected, and no connect() since
  alone,        \* ghost: no connect() was called while another link was in use
  faults        \* bound: faults still to happen

clientVars == <<up, entry, loop, told, serving>>
serverVars == <<session, queue, waiters, call>>
ghosts == <<kept, off, alone>>
vars == <<clientVars, serverVars, expired, answer, closes, of, ran, ghosts,
          faults>>

None == 0

LoopStates == {"none", "opening", "saving", "poll", "polling", "serve",
               "reply", "refused", "over"}
NoAnswer == [kind |-> "none", req |-> None]
Noop     == [kind |-> "noop", req |-> None]
Invalid  == [kind |-> "invalid", req |-> None]
Handed(r) == [kind |-> "request", req |-> r]
Answer   == [kind : {"none", "noop", "invalid", "request"}, req : Req \cup {None}]

Pending(k) == {r \in Req : call[r] = "pending" /\ of[r] = k}

Fault == faults > 0 /\ faults' = faults - 1

-----------------------------------------------------------------------------
(* The server's sessions.                                                  *)

(* Mutant: the callers of a closed session are left to their timers.       *)
CloseWaitersOnly(k) ==
  /\ waiters' = [waiters EXCEPT ![k] = <<>>]
  /\ queue' = [queue EXCEPT ![k] = <<>>]
  /\ answer' = [answer EXCEPT ![k] = IF Contains(waiters[k], "live") THEN Noop
                                     ELSE @]
  /\ UNCHANGED call

(* closeIncomingSession(): the polls that wait are answered, the calls     *)
(* that wait are rejected, and what is queued is dropped.                  *)
closeIncomingSession(k) ==
  /\ waiters' = [waiters EXCEPT ![k] = <<>>]
  /\ queue' = [queue EXCEPT ![k] = <<>>]
  /\ answer' = [answer EXCEPT ![k] = IF Contains(waiters[k], "live") THEN Noop
                                     ELSE @]
  /\ call' = [r \in Req |-> IF r \in Pending(k) THEN "failed" ELSE call[r]]

(* The session in the table is closed and s takes its place.               *)
ReplaceSession(s) ==
  /\ session' = s
  /\ IF session = None THEN UNCHANGED <<waiters, queue, answer, call>>
     ELSE closeIncomingSession(session)

-----------------------------------------------------------------------------
(* connect().                                                              *)

Idle(k) == loop[k] \in {"none", "over"}
Goto(k, l) == loop' = [loop EXCEPT ![k] = l]

Connect(k) ==
  /\ up
  /\ loop[k] = "none" /\ \A j \in Conn : j < k => loop[j] # "none"
  /\ alone' = (alone /\ \A j \in Conn : Idle(j))
  /\ Goto(k, "opening")
  /\ off' = FALSE
  /\ UNCHANGED <<up, entry, told, serving, serverVars, expired, answer,
                 closes, of, ran, kept, faults>>

(* Mutant: a session that is there already is kept.                        *)
OpenKeeping(k) ==
  /\ loop[k] = "opening"
  /\ IF session = None THEN ReplaceSession(k)
     ELSE UNCHANGED <<session, waiters, queue, answer, call>>
  /\ Goto(k, "saving") /\ kept' = IF up THEN k ELSE None
  /\ UNCHANGED <<up, entry, told, serving, expired, closes, of, ran, off,
                 faults, alone>>

(* handleReverseOpen() at the server, and the answer is back.              *)
Open(k) ==
  /\ loop[k] = "opening"
  /\ ReplaceSession(k)
  /\ Goto(k, "saving") /\ kept' = IF up THEN k ELSE None
  /\ UNCHANGED <<up, entry, told, serving, expired, closes, of, ran, off,
                 faults, alone>>

(* connect() throws: its call, or the answer to it, is lost.               *)
OpenFails(k) ==
  /\ Fault
  /\ loop[k] = "opening"
  /\ \/ ReplaceSession(k)
     \/ UNCHANGED <<session, waiters, queue, answer, call>>
  /\ Goto(k, "over")
  /\ UNCHANGED <<up, entry, told, serving, expired, closes, of, ran, ghosts>>

(* The peer and the intent are saved; the connection takes the place of an *)
(* earlier one, which is told to stop, and its loop begins.                *)
Install(k) ==
  /\ loop[k] = "saving"
  /\ told' = IF entry = None THEN told ELSE told \cup {entry}
  /\ IF up THEN entry' = k /\ Goto(k, "poll")
     ELSE entry' = None /\ Goto(k, "over")
  /\ UNCHANGED <<up, serving, serverVars, expired, answer, closes, of, ran,
                 ghosts, faults>>

-----------------------------------------------------------------------------
(* runReverseClient(), the loop of a connection.                           *)

MustEnd(k) == ~up \/ k \in told \/ k \in expired

(* Out of the loop: whatever connection the table holds is deleted.        *)
LoopEnds(k) ==
  /\ \/ loop[k] = "refused"
     \/ loop[k] = "poll" /\ MustEnd(k)
  /\ entry' = None
  /\ Goto(k, "over")
  /\ UNCHANGED <<up, told, serving, serverVars, expired, answer, closes, of,
                 ran, ghosts, faults>>

(* Mutant: the newest request in the queue is handed out first.            *)
PollNewest(k) ==
  /\ loop[k] = "poll" /\ ~MustEnd(k)
  /\ Goto(k, "polling")
  /\ IF session = k /\ queue[k] # <<>>
     THEN /\ answer' = [answer EXCEPT ![k] = Handed(Last(queue[k]))]
          /\ queue' = [queue EXCEPT ![k] = Front(@)]
          /\ UNCHANGED waiters
     ELSE IF session = k
     THEN /\ waiters' = [waiters EXCEPT ![k] = Append(@, "live")]
          /\ UNCHANGED <<queue, answer>>
     ELSE /\ answer' = [answer EXCEPT ![k] = Invalid]
          /\ UNCHANGED <<queue, waiters>>
  /\ UNCHANGED <<up, entry, told, serving, session, call, expired, closes,
                 of, ran, ghosts, faults>>

(* The poll, and handleReversePoll() at the server: a queued request is    *)
(* the answer, or else the poll waits.                                     *)
Poll(k) ==
  /\ loop[k] = "poll" /\ ~MustEnd(k)
  /\ Goto(k, "polling")
  /\ \/ /\ session # k
        /\ answer' = [answer EXCEPT ![k] = Invalid]
        /\ UNCHANGED <<queue, waiters>>
     \/ /\ session = k /\ queue[k] # <<>>
        /\ answer' = [answer EXCEPT ![k] = Handed(Head(queue[k]))]
        /\ queue' = [queue EXCEPT ![k] = Tail(@)]
        /\ UNCHANGED waiters
     \/ /\ session = k /\ queue[k] = <<>>
        /\ waiters' = [waiters EXCEPT ![k] = Append(@, "live")]
        /\ UNCHANGED <<queue, answer>>
  /\ UNCHANGED <<up, entry, told, serving, session, call, expired, closes,
                 of, ran, ghosts, faults>>

(* The poll arrives as the ttl passes: the session is closed.              *)
PollExpired(k) ==
  /\ loop[k] = "poll" /\ ~(~up \/ k \in told)
  /\ k \in expired /\ session = k
  /\ closeIncomingSession(k) /\ session' = None
  /\ Goto(k, "refused")
  /\ UNCHANGED <<up, entry, told, serving, expired, closes, of, ran, ghosts,
                 faults>>

(* The server's timer of a waiting poll fires.                             *)
WaitEnds(k) ==
  /\ \E i \in DOMAIN waiters[k] :
       /\ waiters' = [waiters EXCEPT ![k] = RemoveAt(@, i)]
       /\ answer' = IF waiters[k][i] = "live"
                    THEN [answer EXCEPT ![k] = Noop] ELSE answer
  /\ UNCHANGED <<clientVars, session, queue, call, expired, closes, of, ran,
                 ghosts, faults>>

Answered(k) ==
  /\ loop[k] = "polling" /\ answer[k] # NoAnswer
  /\ answer' = [answer EXCEPT ![k] = NoAnswer]
  /\ CASE answer[k].kind = "noop" -> Goto(k, "poll") /\ UNCHANGED serving
       [] answer[k].kind = "invalid" -> Goto(k, "refused") /\ UNCHANGED serving
       [] answer[k].kind = "request" ->
            /\ Goto(k, "serve")
            /\ serving' = [serving EXCEPT ![k] = answer[k].req]
  /\ UNCHANGED <<up, entry, told, serverVars, expired, closes, of, ran,
                 ghosts, faults>>

(* The poll does not get to the server.                                    *)
PollUnsent(k) ==
  /\ Fault
  /\ loop[k] = "poll" /\ ~MustEnd(k)
  /\ Goto(k, "polling")
  /\ UNCHANGED <<up, entry, told, serving, serverVars, expired, answer,
                 closes, of, ran, ghosts>>

(* The poll's connection breaks: its answer, and a request in it, is lost, *)
(* and the server goes on to count on the poll if it waits.                *)
PollLost(k) ==
  /\ Fault
  /\ loop[k] = "polling"
  /\ answer' = [answer EXCEPT ![k] = NoAnswer]
  /\ waiters' = [waiters EXCEPT ![k] = [i \in DOMAIN @ |-> "gone"]]
  /\ UNCHANGED <<clientVars, session, queue, call, expired, closes, of, ran,
                 ghosts>>

Hopeless(k) == /\ loop[k] = "polling" /\ answer[k] = NoAnswer
               /\ ~Contains(waiters[k], "live")

(* The client gives up a poll that cannot be answered any more; the loop   *)
(* pauses and polls again.                                                 *)
PollFails(k) ==
  /\ Hopeless(k)
  /\ Goto(k, "poll")
  /\ UNCHANGED <<up, entry, told, serving, serverVars, expired, answer,
                 closes, of, ran, ghosts, faults>>

(* handleReverseRequest(): the request is dispatched.                      *)
Serve(k) ==
  /\ loop[k] = "serve"
  /\ ran' = [ran EXCEPT ![serving[k]] = @ + 1]
  /\ Goto(k, "reply")
  /\ UNCHANGED <<up, entry, told, serving, serverVars, expired, answer,
                 closes, of, ghosts, faults>>

(* handleReverseReply() at the server settles the call, with a result or   *)
(* with the method's error, if it is there still; else it throws, and the  *)
(* loop goes on or, without a session, ends.                               *)
Resolve(k) ==
  call' = IF session = k /\ serving[k] \in Pending(k)
          THEN [call EXCEPT ![serving[k]] = "answered"] ELSE call

Reply(k) ==
  /\ loop[k] = "reply"
  /\ Resolve(k)
  /\ Goto(k, IF session = k THEN "poll" ELSE "refused")
  /\ serving' = [serving EXCEPT ![k] = None]
  /\ UNCHANGED <<up, entry, told, session, queue, waiters, expired, answer,
                 closes, of, ran, ghosts, faults>>

ReplyFails(k) ==
  /\ Fault
  /\ loop[k] = "reply"
  /\ Resolve(k) \/ UNCHANGED call
  /\ Goto(k, "poll")
  /\ serving' = [serving EXCEPT ![k] = None]
  /\ UNCHANGED <<up, entry, told, session, queue, waiters, expired, answer,
                 closes, of, ran, ghosts>>

-----------------------------------------------------------------------------
(* The server's calls.                                                     *)

(* Mutant: a call is queued although a poll waits.                         *)
CallQueued(r) ==
  /\ call[r] = "none" /\ \A q \in Req : q < r => call[q] # "none"
  /\ session \notin expired \cup {None}
  /\ call' = [call EXCEPT ![r] = "pending"]
  /\ of' = [of EXCEPT ![r] = session]
  /\ queue' = [queue EXCEPT ![session] = Append(@, r)]
  /\ UNCHANGED <<clientVars, session, waiters, answer, expired, closes, ran,
                 ghosts, faults>>

(* Mutant: the poll that is answered is left among those that wait.        *)
CallPeeking(r) ==
  /\ call[r] = "none" /\ \A q \in Req : q < r => call[q] # "none"
  /\ session \notin expired \cup {None}
  /\ call' = [call EXCEPT ![r] = "pending"]
  /\ of' = [of EXCEPT ![r] = session]
  /\ IF waiters[session] = <<>>
     THEN queue' = [queue EXCEPT ![session] = Append(@, r)] /\ UNCHANGED answer
     ELSE /\ answer' = IF Head(waiters[session]) = "live"
                       THEN [answer EXCEPT ![session] = Handed(r)] ELSE answer
          /\ UNCHANGED queue
  /\ UNCHANGED <<clientVars, session, waiters, expired, closes, ran, ghosts,
                 faults>>

(* callReverse(): the poll that waits longest is answered with the call,   *)
(* whether or not anybody listens to it; or else the call is queued.       *)
Call(r) ==
  /\ call[r] = "none" /\ \A q \in Req : q < r => call[q] # "none"
  /\ session \notin expired \cup {None}
  /\ call' = [call EXCEPT ![r] = "pending"]
  /\ of' = [of EXCEPT ![r] = session]
  /\ IF waiters[session] = <<>>
     THEN /\ queue' = [queue EXCEPT ![session] = Append(@, r)]
          /\ UNCHANGED <<waiters, answer>>
     ELSE /\ waiters' = [waiters EXCEPT ![session] = Tail(@)]
          /\ answer' = IF Head(waiters[session]) = "live"
                       THEN [answer EXCEPT ![session] = Handed(r)] ELSE answer
          /\ UNCHANGED queue
  /\ UNCHANGED <<clientVars, session, expired, closes, ran, ghosts, faults>>

(* The caller's timer fires; the request stays where it is.                *)
TimesOut(r) ==
  /\ call[r] = "pending"
  /\ call' = [call EXCEPT ![r] = "failed"]
  /\ UNCHANGED <<clientVars, session, queue, waiters, expired, answer,
                 closes, of, ran, ghosts, faults>>

(* getActiveIncomingSession() finds the session expired, or stale as its   *)
(* client has not polled for long: it serves a request, waits for a poll   *)
(* that was lost, or is gone.                                              *)
FindDead ==
  /\ session # None
  /\ \/ session \in expired /\ UNCHANGED <<faults, kept, alone>>
     \/ /\ loop[session] \notin {"poll", "polling"} \/ Hopeless(session)
        /\ Fault /\ kept' = None
  /\ ReplaceSession(None)
  /\ UNCHANGED <<clientVars, expired, closes, of, ran, off, alone>>

-----------------------------------------------------------------------------
(* Ends.                                                                   *)

Opening == \E k \in Conn : loop[k] \in {"opening", "saving"}

(* Mutant: the connection leaves the table and is not told to stop.        *)
DisconnectUntold ==
  /\ Fault
  /\ entry' = None
  /\ closes' = IF entry = None THEN closes ELSE closes \cup {entry}
  /\ kept' = None /\ off' = ~Opening
  /\ UNCHANGED <<up, told, loop, serving, serverVars, expired, answer, of,
                 ran, alone>>

(* disconnect() at the client: the connection in the table is told to stop *)
(* and its session is closed by a call of reverse.close.                   *)
Disconnect ==
  /\ Fault
  /\ entry' = None
  /\ IF entry = None THEN UNCHANGED <<told, closes>>
     ELSE told' = told \cup {entry} /\ closes' = closes \cup {entry}
  /\ kept' = None /\ off' = ~Opening
  /\ UNCHANGED <<up, loop, serving, serverVars, expired, answer, of, ran,
                 alone>>

(* handleReverseClose(), or the loss of the call.                          *)
Close(k) ==
  /\ k \in closes /\ closes' = closes \ {k}
  /\ IF session = k THEN ReplaceSession(None)
     ELSE UNCHANGED <<session, waiters, queue, answer, call>>
  /\ UNCHANGED <<clientVars, expired, of, ran, ghosts, faults>>

CloseLost(k) ==
  /\ Fault
  /\ k \in closes /\ closes' = closes \ {k}
  /\ UNCHANGED <<clientVars, serverVars, expired, answer, of, ran, ghosts>>

(* disconnect() at the server.                                             *)
ServerDisconnect ==
  /\ Fault
  /\ session # None /\ ReplaceSession(None)
  /\ kept' = None
  /\ UNCHANGED <<clientVars, expired, closes, of, ran, off, alone>>

(* The server's process is restarted: what it held in memory is lost, and  *)
(* the polls under way fail.                                               *)
ServerRestart ==
  /\ Fault
  /\ session' = None
  /\ queue' = [k \in Conn |-> <<>>] /\ waiters' = [k \in Conn |-> <<>>]
  /\ answer' = [k \in Conn |-> NoAnswer]
  /\ call' = [r \in Req |-> IF call[r] = "pending" THEN "failed" ELSE call[r]]
  /\ loop' = [k \in Conn |-> IF loop[k] = "polling" THEN "poll" ELSE loop[k]]
  /\ kept' = None
  /\ UNCHANGED <<up, entry, told, serving, expired, closes, of, ran, off,
                 alone>>

(* stop() of the client: the connections in the table are told to stop.    *)
Stop ==
  /\ Fault
  /\ up /\ up' = FALSE
  /\ told' = IF entry = None THEN told ELSE told \cup {entry}
  /\ entry' = None
  /\ kept' = None
  /\ UNCHANGED <<loop, serving, serverVars, expired, answer, closes, of, ran,
                 off, alone>>

Start ==
  /\ ~up /\ up' = TRUE
  /\ UNCHANGED <<entry, loop, told, serving, serverVars, expired, answer,
                 closes, of, ran, ghosts, faults>>

(* The ttl of a connection passes.                                         *)
Expire(k) ==
  /\ k \in Leased \ expired /\ loop[k] \notin {"none", "opening"}
  /\ expired' = expired \cup {k}
  /\ kept' = IF kept = k THEN None ELSE kept
  /\ UNCHANGED <<clientVars, serverVars, answer, closes, of, ran, off,
                 faults, alone>>

-----------------------------------------------------------------------------
Init ==
  /\ up = TRUE
  /\ entry = None
  /\ loop = [k \in Conn |-> "none"]
  /\ told = {} /\ expired = {}
  /\ serving = [k \in Conn |-> None]
  /\ answer = [k \in Conn |-> NoAnswer]
  /\ session = None
  /\ queue = [k \in Conn |-> <<>>] /\ waiters = [k \in Conn |-> <<>>]
  /\ closes = {}
  /\ call = [r \in Req |-> "none"]
  /\ of = [r \in Req |-> None]
  /\ ran = [r \in Req |-> 0]
  /\ kept = None /\ off = FALSE /\ alone = TRUE
  /\ faults = MaxFaults

(* What the client, the server's timers and the network do in the end.     *)
Progress(k) ==
  \/ Open(k) \/ Install(k)
  \/ Poll(k) \/ PollFails(k) \/ Answered(k)
  \/ Serve(k) \/ Reply(k) \/ LoopEnds(k)

Next ==
  \/ \E k \in Conn :
       \/ Connect(k) \/ OpenFails(k) \/ Progress(k)
       \/ PollExpired(k) \/ PollUnsent(k) \/ PollLost(k) \/ ReplyFails(k)
       \/ WaitEnds(k)
       \/ Close(k) \/ CloseLost(k) \/ Expire(k)
  \/ \E r \in Req : Call(r) \/ TimesOut(r)
  \/ FindDead
  \/ Disconnect \/ ServerDisconnect \/ ServerRestart \/ Stop \/ Start

Spec == Init /\ [][Next]_vars

Fairness ==
  \A k \in Conn : WF_vars(Progress(k)) /\ WF_vars(WaitEnds(k)) /\ WF_vars(Close(k))

FairSpec == Spec /\ Fairness

-----------------------------------------------------------------------------
(* Properties.                                                             *)

TypeOK ==
  /\ {up, off, alone} \subseteq BOOLEAN
  /\ {entry, session, kept} \subseteq Conn \cup {None}
  /\ loop \in [Conn -> LoopStates]
  /\ told \subseteq Conn /\ expired \subseteq Leased /\ closes \subseteq Conn
  /\ serving \in [Conn -> Req \cup {None}]
  /\ \A k \in Conn : loop[k] \in {"serve", "reply"} => serving[k] \in Req
  /\ answer \in [Conn -> Answer]
  /\ \A k \in Conn : answer[k] # NoAnswer => ~Contains(waiters[k], "live")
  /\ \A k \in Conn : queue[k] \in Seq(Req) /\ waiters[k] \in Seq({"live", "gone"})
  /\ call \in [Req -> {"none", "pending", "answered", "failed"}]
  /\ of \in [Req -> Conn \cup {None}]
  /\ ran \in [Req -> Nat]
  /\ faults \in Nat

(* Nobody waits on a session that is gone: no caller for a result, no poll *)
(* for a request.  (closeIncomingSession, from open, close, stop, expiry.) *)
ClosedIsQuiet ==
  \A k \in Conn : session # k => Pending(k) = {} /\ waiters[k] = <<>>

(* The requests of session k that the client may still run.                *)
Ahead(k) == ToSet(queue[k]) \cup {answer[k].req}
            \cup (IF loop[k] = "serve" THEN {serving[k]} ELSE {})

(* A request is run at most once, in the session it was made in, and not   *)
(* after one that was made later: through polls that were lost, calls that *)
(* timed out and sessions that were replaced.  A caller gets a result only *)
(* if its own request was run.                                             *)
RunsInOrder ==
  /\ \A r \in Req : ran[r] <= 1 /\ (call[r] = "answered" => ran[r] = 1)
  /\ \A k \in Conn : \A q \in Ahead(k) \cap Req :
       /\ ran[q] = 0 /\ of[q] = k
       /\ \A r \in Req : r > q /\ of[r] = k => ran[r] = 0

(* A poll does not wait while a request is queued in its session.          *)
NoneWaitsOnNone ==
  \A k \in Conn : waiters[k] # <<>> => queue[k] = <<>>

Linked(k) == session = k /\ loop[k] \in {"poll", "polling", "serve", "reply"}

(* A connection that connect() made lasts until somebody disconnects, the  *)
(* node stops, its ttl passes, or the server restarts or gives the client  *)
(* up, whatever else is lost, if connections are made one after another.   *)
LinkKept == <>[](alone /\ kept # None => Linked(kept))

AllIdle == \A k \in Conn : Idle(k)

(* After disconnect() every loop comes to its end, unless connect() is     *)
(* called again, if connections are made one after another: whichever      *)
(* calls, time-outs, losses and stops were under way.                      *)
LinkEndsAlone == off /\ alone ~> ~off \/ AllIdle

(* The same, however connections are made.  (README.md of cord, 10.4: a    *)
(* link with no ttl is kept "until disconnected".)                         *)
LinkEnds == off ~> ~off \/ AllIdle

=============================================================================
