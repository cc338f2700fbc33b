--------------------------- MODULE ReverseProofs ----------------------------
(* What TLAPS proves of the reverse link, for every set of connections     *)
(* and calls and any number of losses, closures, restarts and stops: that  *)
(* nobody waits on a closed session, that requests are run at most once    *)
(* and in order, and that a connection is not lost by itself. Typed says   *)
(* what each variable holds and that a poll is answered once; Ordered      *)
(* what is ahead of a session; LinkSafe what is true of the connection     *)
(* opened last.                                                            *)
EXTENDS ReverseLink, SequenceTheorems, TLAPS

USE ReverseLinkAssumption

(* What may be under way to a poll.                                        *)
Answers == {NoAnswer, Noop, Invalid} \cup {Handed(r) : r \in Req}

(* The polls of session k that wait and that somebody listens to.          *)
Live(k) == {i \in 1..Len(waiters[k]) : waiters[k][i] = "live"}

(* How a call of the server may stand.                                     *)
CallStates == {"none", "pending", "answered", "failed"}

(* The types of what the client keeps and of the bounds.                   *)
ClientTyped ==
  /\ up \in BOOLEAN /\ off \in BOOLEAN /\ alone \in BOOLEAN
  /\ entry \in Conn \cup {None} /\ kept \in Conn \cup {None}
  /\ loop \in [Conn -> LoopStates]
  /\ told \subseteq Conn /\ expired \subseteq Leased /\ closes \subseteq Conn
  /\ serving \in [Conn -> Req \cup {None}]
  /\ \A k \in Conn : loop[k] \in {"serve", "reply"} => serving[k] \in Req
  /\ ran \in [Req -> Nat]
  /\ faults \in Nat

(* The types of what the server keeps, and of what is under way.           *)
ServerTyped ==
  /\ session \in Conn \cup {None}
  /\ queue \in [Conn -> Seq(Req)]
  /\ waiters \in [Conn -> Seq({"live", "gone"})]
  /\ answer \in [Conn -> Answers]
  /\ call \in [Req -> CallStates]
  /\ of \in [Req -> Conn \cup {None}]

(* Only a connection that polls is answered, once, and of its polls at     *)
(* most one is still listened to: none when the answer is under way.       *)
Once(k) ==
  /\ loop[k] # "polling" => answer[k] = NoAnswer /\ Live(k) = {}
  /\ answer[k] # NoAnswer => Live(k) = {}
  /\ \A i, j \in Live(k) : i = j

PollsOnce == \A k \in Conn : Once(k)

(* The inductive invariant behind TypeOK.                                  *)
Typed == ClientTyped /\ ServerTyped /\ PollsOnce

-----------------------------------------------------------------------------
(* The answers to a poll are told apart.                                   *)
LEMMA AnswersDiffer ==
  /\ NoAnswer \in Answers /\ Noop \in Answers /\ Invalid \in Answers
  /\ NoAnswer # Noop /\ NoAnswer # Invalid /\ Noop # Invalid
  /\ \A r \in Req : Handed(r) \in Answers /\ Handed(r) # NoAnswer /\ Handed(r) # Invalid
BY DEF Answers, NoAnswer, Noop, Invalid, Handed, None

(* An answer is one of four, and only a request is for a call.             *)
LEMMA AnswerFields ==
  /\ None \notin Req
  /\ NoAnswer.req = None /\ Noop.req = None /\ Invalid.req = None
  /\ \A r \in Req : Handed(r).req = r
  /\ \A a \in Answers :
       \/ a = NoAnswer /\ a.kind = "none" /\ a.req = None
       \/ a = Noop /\ a.kind = "noop" /\ a.req = None
       \/ a = Invalid /\ a.kind = "invalid" /\ a.req = None
       \/ a = Handed(a.req) /\ a.kind = "request" /\ a.req \in Req
BY DEF Answers, NoAnswer, Noop, Invalid, Handed, None

(* A poll is live if its mark is in the sequence of those that wait.       *)
LEMMA LiveIs ==
  ASSUME NEW k
  PROVE  Live(k) = {} <=> ~Contains(waiters[k], "live")
BY DEF Live, Contains

(* What closing a session leaves of its state.                             *)
Closed(k) ==
  /\ \A j \in Conn : queue'[j] = IF j = k THEN <<>> ELSE queue[j]
  /\ \A j \in Conn : waiters'[j] = IF j = k THEN <<>> ELSE waiters[j]
  /\ \A j \in Conn : answer'[j] = IF j = k /\ Live(k) # {} THEN Noop ELSE answer[j]
  /\ \A r \in Req : call'[r] = IF call[r] = "pending" /\ of[r] = k THEN "failed" ELSE call[r]

(* closeIncomingSession empties one session and fails its calls, and       *)
(* touches nothing else.                                                   *)
LEMMA CloseIs ==
  ASSUME ServerTyped, NEW k \in Conn, closeIncomingSession(k)
  PROVE  /\ Closed(k)
         /\ queue' \in [Conn -> Seq(Req)]
         /\ waiters' \in [Conn -> Seq({"live", "gone"})]
         /\ answer' \in [Conn -> Answers]
         /\ call' \in [Req -> CallStates]
<1>1. queue' \in [Conn -> Seq(Req)] /\ waiters' \in [Conn -> Seq({"live", "gone"})]
  BY DEF ServerTyped, closeIncomingSession
<1>2. answer' \in [Conn -> Answers]
  BY AnswersDiffer DEF ServerTyped, closeIncomingSession
<1>3. call' \in [Req -> CallStates]
  BY DEF ServerTyped, closeIncomingSession, CallStates
<1>4. \A j \in Conn : answer'[j] = IF j = k /\ Live(k) # {} THEN Noop ELSE answer[j]
  BY LiveIs DEF ServerTyped, closeIncomingSession
<1>5. \A r \in Req : call'[r] = IF call[r] = "pending" /\ of[r] = k THEN "failed" ELSE call[r]
  BY DEF ServerTyped, closeIncomingSession, Pending
<1>6. \A j \in Conn : /\ queue'[j] = IF j = k THEN <<>> ELSE queue[j]
                      /\ waiters'[j] = IF j = k THEN <<>> ELSE waiters[j]
  BY DEF ServerTyped, closeIncomingSession
<1> QED BY <1>1, <1>2, <1>3, <1>4, <1>5, <1>6 DEF Closed

(* Replacing a session closes the one in the table, if there is one.       *)
LEMMA ReplaceIs ==
  ASSUME ServerTyped, NEW s \in Conn \cup {None}, ReplaceSession(s)
  PROVE  /\ session' = s
         /\ queue' \in [Conn -> Seq(Req)]
         /\ waiters' \in [Conn -> Seq({"live", "gone"})]
         /\ answer' \in [Conn -> Answers]
         /\ call' \in [Req -> CallStates]
         /\ \/ session = None /\ queue' = queue /\ waiters' = waiters
               /\ answer' = answer /\ call' = call
            \/ session \in Conn /\ Closed(session)
<1>1. CASE session = None
  BY <1>1 DEF ReplaceSession, ServerTyped
<1>2. CASE session # None
  <2>1. session \in Conn /\ closeIncomingSession(session) /\ session' = s
    BY <1>2 DEF ReplaceSession, ServerTyped
  <2> QED BY <2>1, CloseIs
<1> QED BY <1>1, <1>2

(* What becomes of a sequence when an element is taken out.                *)
LEMMA RemoveAtIs ==
  ASSUME NEW S, NEW s \in Seq(S), NEW i \in 1..Len(s)
  PROVE  /\ RemoveAt(s, i) \in Seq(S)
         /\ Len(RemoveAt(s, i)) = Len(s) - 1
         /\ \A j \in 1..(Len(s) - 1) : RemoveAt(s, i)[j] = IF j < i THEN s[j] ELSE s[j + 1]
<1> DEFINE a == SubSeq(s, 1, i - 1)
           b == SubSeq(s, i + 1, Len(s))
<1>1. a \in Seq(S) /\ Len(a) = i - 1 /\ \A j \in 1..(i - 1) : a[j] = s[j] OBVIOUS
<1>2. b \in Seq(S) /\ Len(b) = Len(s) - i /\ \A j \in 1..(Len(s) - i) : b[j] = s[i + j] OBVIOUS
<1>3. RemoveAt(s, i) = a \o b BY DEF RemoveAt
<1>4. Len(s) \in Nat /\ i \in Nat /\ (i - 1) + (Len(s) - i) = Len(s) - 1 OBVIOUS
<1> HIDE DEF a, b
<1>5. /\ a \o b \in Seq(S) /\ Len(a \o b) = Len(a) + Len(b)
      /\ \A j \in 1..(Len(a) + Len(b)) :
           (a \o b)[j] = IF j <= Len(a) THEN a[j] ELSE b[j - Len(a)]
  BY <1>1, <1>2, ConcatProperties
<1>6. ASSUME NEW j \in 1..(Len(s) - 1)
      PROVE  (a \o b)[j] = IF j < i THEN s[j] ELSE s[j + 1]
  <2>0. /\ Len(a) + Len(b) = Len(s) - 1
        /\ (a \o b)[j] = IF j <= i - 1 THEN a[j] ELSE b[j - (i - 1)]
    BY <1>1, <1>2, <1>4, <1>5
  <2>1. CASE j < i
    <3>1. j \in 1..(i - 1) /\ j <= i - 1 BY <1>4, <2>1
    <3> QED BY <1>1, <2>0, <2>1, <3>1
  <2>2. CASE ~(j < i)
    <3>1. ~(j <= i - 1) /\ j - (i - 1) \in 1..(Len(s) - i) /\ i + (j - (i - 1)) = j + 1
      BY <1>4, <2>2
    <3> QED BY <1>2, <2>0, <2>2, <3>1
  <2> QED BY <2>1, <2>2
<1>7. Len(a) + Len(b) = Len(s) - 1 BY <1>1, <1>2, <1>4
<1> QED BY <1>3, <1>5, <1>6, <1>7

-----------------------------------------------------------------------------
(* The first state is typed.                                               *)
LEMMA InitTyped == Init => Typed
<1> SUFFICES ASSUME Init PROVE Typed OBVIOUS
<1>1. ClientTyped BY DEF Init, ClientTyped, LoopStates, None
<1>2. ServerTyped
  <2>1. <<>> \in Seq(Req) /\ <<>> \in Seq({"live", "gone"}) OBVIOUS
  <2> QED BY <2>1, AnswersDiffer DEF Init, ServerTyped, CallStates, None
<1>3. PollsOnce BY DEF Init, PollsOnce, Once, Live
<1> QED BY <1>1, <1>2, <1>3 DEF Typed

(* Every step keeps the types of the client.                               *)
LEMMA ClientStep ==
  ASSUME ClientTyped, ServerTyped, Next PROVE ClientTyped'
<1> USE DEF ClientTyped, LoopStates, Goto, Fault, clientVars, ghosts, None
<1>1. ASSUME NEW k \in Conn, Connect(k) PROVE ClientTyped'
  BY <1>1 DEF Connect
<1>2. ASSUME NEW k \in Conn, Open(k) PROVE ClientTyped'
  BY <1>2 DEF Open
<1>3. ASSUME NEW k \in Conn, OpenFails(k) PROVE ClientTyped'
  BY <1>3 DEF OpenFails
<1>4. ASSUME NEW k \in Conn, Install(k) PROVE ClientTyped'
  BY <1>4 DEF Install
<1>5. ASSUME NEW k \in Conn, LoopEnds(k) PROVE ClientTyped'
  BY <1>5 DEF LoopEnds
<1>6. ASSUME NEW k \in Conn, Poll(k) PROVE ClientTyped'
  BY <1>6 DEF Poll
<1>7. ASSUME NEW k \in Conn, PollExpired(k) PROVE ClientTyped'
  BY <1>7 DEF PollExpired
<1>8. ASSUME NEW k \in Conn, WaitEnds(k) PROVE ClientTyped'
  BY <1>8 DEF WaitEnds
<1>9. ASSUME NEW k \in Conn, PollUnsent(k) PROVE ClientTyped'
  BY <1>9 DEF PollUnsent
<1>10. ASSUME NEW k \in Conn, PollLost(k) PROVE ClientTyped'
  BY <1>10 DEF PollLost
<1>11. ASSUME NEW k \in Conn, PollFails(k) PROVE ClientTyped'
  BY <1>11 DEF PollFails
<1>12. ASSUME NEW k \in Conn, Answered(k) PROVE ClientTyped'
  <2>1. answer[k] \in Answers BY DEF ServerTyped
  <2>2. answer[k].kind = "request" => answer[k].req \in Req
    BY <2>1, AnswerFields
  <2>3. /\ loop' \in [Conn -> LoopStates] /\ serving' \in [Conn -> Req \cup {None}]
        /\ loop' = [loop EXCEPT ![k] = loop'[k]]
        /\ \/ loop'[k] \in {"poll", "refused"} /\ serving' = serving
           \/ serving' = [serving EXCEPT ![k] = answer[k].req] /\ answer[k].req \in Req
    <3>1. CASE answer[k].kind = "noop" BY <1>12, <3>1 DEF Answered
    <3>2. CASE answer[k].kind = "invalid" BY <1>12, <3>2 DEF Answered
    <3>3. CASE answer[k].kind = "request" BY <1>12, <2>2, <3>3 DEF Answered
    <3>4. answer[k].kind \in {"noop", "invalid", "request"}
      BY <1>12, <2>1, AnswerFields DEF Answered
    <3> QED BY <3>1, <3>2, <3>3, <3>4
  <2> QED BY <1>12, <2>3 DEF Answered
<1>13. ASSUME NEW k \in Conn, Serve(k) PROVE ClientTyped'
  <2> DEFINE q == serving[k]
  <2>1. q \in Req /\ ran' = [ran EXCEPT ![q] = @ + 1] BY <1>13 DEF Serve
  <2>2. ran' \in [Req -> Nat]
    <3>1. ran \in [Req -> Nat] OBVIOUS
    <3> HIDE DEF q, ClientTyped
    <3>2. ran[q] + 1 \in Nat BY <2>1, <3>1
    <3> QED BY <2>1, <3>1, <3>2
  <2>3. /\ loop' \in [Conn -> LoopStates] /\ serving' = serving
        /\ \A j \in Conn : loop'[j] \in {"serve", "reply"} => serving'[j] \in Req
    BY <1>13, <2>1 DEF Serve
  <2> QED BY <1>13, <2>2, <2>3 DEF Serve
<1>14. ASSUME NEW k \in Conn, Reply(k) PROVE ClientTyped'
  BY <1>14 DEF Reply
<1>15. ASSUME NEW k \in Conn, ReplyFails(k) PROVE ClientTyped'
  BY <1>15 DEF ReplyFails
<1>16. ASSUME NEW k \in Conn, Close(k) PROVE ClientTyped'
  BY <1>16 DEF Close
<1>17. ASSUME NEW k \in Conn, CloseLost(k) PROVE ClientTyped'
  BY <1>17 DEF CloseLost
<1>18. ASSUME NEW k \in Conn, Expire(k) PROVE ClientTyped'
  BY <1>18 DEF Expire
<1>19. ASSUME NEW r \in Req, Call(r) PROVE ClientTyped'
  BY <1>19 DEF Call
<1>20. ASSUME NEW r \in Req, TimesOut(r) PROVE ClientTyped'
  BY <1>20 DEF TimesOut
<1>21. CASE FindDead
  BY <1>21 DEF FindDead
<1>22. CASE Disconnect
  <2>1. off' \in BOOLEAN BY <1>22, Zenon DEF Disconnect
  <2>2. told' \subseteq Conn /\ closes' \subseteq Conn BY <1>22 DEF Disconnect
  <2> QED BY <1>22, <2>1, <2>2 DEF Disconnect
<1>23. CASE ServerDisconnect
  BY <1>23 DEF ServerDisconnect
<1>24. CASE ServerRestart
  BY <1>24 DEF ServerRestart
<1>25. CASE Stop
  <2>1. told' \subseteq Conn BY <1>25 DEF Stop
  <2>2. up' \in BOOLEAN BY <1>25, Zenon DEF Stop
  <2>3. off' \in BOOLEAN /\ alone' \in BOOLEAN BY <1>25, Zenon DEF Stop
  <2> QED BY <1>25, <2>1, <2>2, <2>3 DEF Stop
<1>26. CASE Start
  BY <1>26 DEF Start
<1> HIDE DEF ClientTyped, Goto, Fault
<1> QED
  BY <1>1, <1>2, <1>3, <1>4, <1>5, <1>6, <1>7, <1>8, <1>9, <1>10, <1>11, <1>12, <1>13, <1>14, <1>15, <1>16, <1>17, <1>18, <1>19, <1>20, <1>21, <1>22, <1>23, <1>24, <1>25, <1>26
     DEF Next, Progress

(* Every step keeps the types of the server.                               *)
LEMMA ServerStep ==
  ASSUME ServerTyped, Next PROVE ServerTyped'
<1>1. ASSUME NEW s \in Conn \cup {None}, ReplaceSession(s), UNCHANGED of
      PROVE  ServerTyped'
  BY <1>1, ReplaceIs DEF ServerTyped
<1>2. ASSUME UNCHANGED <<session, waiters, queue, answer, call, of>>
      PROVE  ServerTyped'
  BY <1>2 DEF ServerTyped
<1>3. ASSUME NEW k \in Conn,
             \/ Connect(k) \/ Open(k) \/ OpenFails(k) \/ Install(k) \/ LoopEnds(k)
             \/ PollUnsent(k) \/ PollFails(k) \/ Serve(k)
             \/ Close(k) \/ CloseLost(k) \/ Expire(k)
      PROVE  ServerTyped'
  BY <1>1, <1>2, <1>3 DEF Connect, Open, OpenFails, Install, LoopEnds, PollUnsent,
     PollFails, Serve, Close, CloseLost, Expire, clientVars, serverVars
<1>4. ASSUME NEW k \in Conn, Poll(k) PROVE ServerTyped'
  <2> USE DEF ServerTyped
  <2>1. CASE session # k
    BY <1>4, <2>1, AnswersDiffer DEF Poll
  <2>2. CASE session = k /\ queue[k] # <<>>
    <3>1. Head(queue[k]) \in Req /\ Tail(queue[k]) \in Seq(Req) BY <2>2
    <3>2. Handed(Head(queue[k])) \in Answers BY <3>1, AnswersDiffer
    <3>3. /\ answer' = [answer EXCEPT ![k] = Handed(Head(queue[k]))]
          /\ queue' = [queue EXCEPT ![k] = Tail(queue[k])]
          /\ waiters' = waiters /\ session' = session /\ call' = call /\ of' = of
      BY <1>4, <2>2 DEF Poll
    <3> QED BY <3>1, <3>2, <3>3
  <2>3. CASE session = k /\ queue[k] = <<>>
    <3>1. Append(waiters[k], "live") \in Seq({"live", "gone"}) OBVIOUS
    <3> QED BY <1>4, <2>3, <3>1 DEF Poll
  <2> QED BY <1>4, <2>1, <2>2, <2>3
<1>5. ASSUME NEW k \in Conn, PollExpired(k) PROVE ServerTyped'
  BY <1>5, CloseIs DEF PollExpired, ServerTyped
<1>6. ASSUME NEW k \in Conn, WaitEnds(k) PROVE ServerTyped'
  <2>1. PICK i \in DOMAIN waiters[k] :
          /\ waiters' = [waiters EXCEPT ![k] = RemoveAt(@, i)]
          /\ answer' = IF waiters[k][i] = "live"
                       THEN [answer EXCEPT ![k] = Noop] ELSE answer
    BY <1>6 DEF WaitEnds
  <2>2. RemoveAt(waiters[k], i) \in Seq({"live", "gone"})
    BY RemoveAtIs DEF ServerTyped
  <2>3. waiters' \in [Conn -> Seq({"live", "gone"})] BY <2>1, <2>2 DEF ServerTyped
  <2>4. answer' \in [Conn -> Answers] BY <2>1, AnswersDiffer DEF ServerTyped
  <2> QED BY <1>6, <2>3, <2>4 DEF WaitEnds, ServerTyped
<1>7. ASSUME NEW k \in Conn, PollLost(k) PROVE ServerTyped'
  <2>1. [i \in DOMAIN waiters[k] |-> "gone"] \in Seq({"live", "gone"})
    <3>1. waiters[k] \in Seq({"live", "gone"}) BY DEF ServerTyped
    <3>2. DOMAIN waiters[k] = 1..Len(waiters[k]) /\ Len(waiters[k]) \in Nat BY <3>1
    <3> QED BY <3>2
  <2>2. waiters' \in [Conn -> Seq({"live", "gone"})] BY <1>7, <2>1 DEF PollLost, ServerTyped
  <2>3. answer' \in [Conn -> Answers] BY <1>7, AnswersDiffer DEF PollLost, ServerTyped
  <2> QED BY <1>7, <2>2, <2>3 DEF PollLost, ServerTyped
<1>8. ASSUME NEW k \in Conn, Answered(k) PROVE ServerTyped'
  BY <1>8, AnswersDiffer DEF Answered, ServerTyped, serverVars
<1>9. ASSUME NEW k \in Conn, Reply(k) \/ ReplyFails(k) PROVE ServerTyped'
  BY <1>9 DEF Reply, ReplyFails, Resolve, ServerTyped, CallStates
<1>10. ASSUME NEW r \in Req, Call(r) PROVE ServerTyped'
  <2> USE DEF ServerTyped
  <2>1. session \in Conn /\ session' = session BY <1>10 DEF Call, serverVars
  <2>2. call' \in [Req -> CallStates] /\ of' \in [Req -> Conn \cup {None}]
    BY <1>10, <2>1 DEF Call, CallStates
  <2>3. CASE waiters[session] = <<>>
    <3>1. Append(queue[session], r) \in Seq(Req) BY <2>1
    <3> QED BY <1>10, <2>1, <2>2, <2>3, <3>1 DEF Call
  <2>4. CASE waiters[session] # <<>>
    <3>1. Tail(waiters[session]) \in Seq({"live", "gone"}) BY <2>1, <2>4
    <3>2. answer' \in [Conn -> Answers] BY <1>10, <2>1, <2>4, AnswersDiffer DEF Call
    <3>3. queue' = queue /\ waiters' = [waiters EXCEPT ![session] = Tail(waiters[session])]
      BY <1>10, <2>4 DEF Call
    <3>4. waiters' \in [Conn -> Seq({"live", "gone"})] BY <2>1, <3>1, <3>3
    <3> QED BY <2>1, <2>2, <3>2, <3>3, <3>4
  <2> QED BY <2>3, <2>4
<1>11. ASSUME NEW r \in Req, TimesOut(r) PROVE ServerTyped'
  BY <1>11 DEF TimesOut, ServerTyped, CallStates
<1>12. CASE FindDead \/ ServerDisconnect
  BY <1>1, <1>12 DEF FindDead, ServerDisconnect
<1>13. CASE Disconnect \/ Stop \/ Start
  BY <1>2, <1>13 DEF Disconnect, Stop, Start, serverVars
<1>14. CASE ServerRestart
  <2>1. <<>> \in Seq(Req) /\ <<>> \in Seq({"live", "gone"}) OBVIOUS
  <2> QED BY <1>14, <2>1, AnswersDiffer DEF ServerRestart, ServerTyped, CallStates
<1> QED BY <1>3, <1>4, <1>5, <1>6, <1>7, <1>8, <1>9, <1>10, <1>11, <1>12, <1>13, <1>14
        DEF Next, Progress

(* A connection whose polls are not touched has them answered once.        *)
LEMMA OnceSame ==
  ASSUME NEW k, Once(k), waiters'[k] = waiters[k], answer'[k] = answer[k],
         loop'[k] = "polling" <=> loop[k] = "polling"
  PROVE  Once(k)'
BY DEF Once, Live

(* Closing a session answers the poll that waits, once.                    *)
LEMMA OnceReplace ==
  ASSUME Typed, NEW s \in Conn \cup {None}, ReplaceSession(s), NEW k \in Conn,
         loop'[k] = "polling" <=> loop[k] = "polling"
  PROVE  Once(k)'
<1>1. Once(k) /\ ServerTyped BY DEF Typed, PollsOnce
<1>2. CASE session = None \/ k # session
  <2>1. waiters'[k] = waiters[k] /\ answer'[k] = answer[k]
    <3>1. CASE session = None /\ waiters' = waiters /\ answer' = answer BY <3>1
    <3>2. CASE session \in Conn /\ Closed(session)
      <4>1. k # session BY <1>2, <3>2 DEF None
      <4> QED BY <3>2, <4>1 DEF Closed
    <3> QED BY <1>1, <3>1, <3>2, ReplaceIs
  <2> QED BY <1>1, <2>1, OnceSame
<1>3. CASE session # None /\ k = session
  <2>1. Closed(k) BY <1>1, <1>3, ReplaceIs
  <2>2. waiters'[k] = <<>> /\ answer'[k] = IF Live(k) # {} THEN Noop ELSE answer[k]
    BY <2>1 DEF Closed
  <2>3. Live(k)' = {} BY <2>2 DEF Live
  <2>4. loop'[k] # "polling" => answer'[k] = NoAnswer BY <1>1, <2>2 DEF Once
  <2> QED BY <2>3, <2>4 DEF Once
<1> QED BY <1>2, <1>3

(* No step leaves a poll that is answered among those that wait, or        *)
(* answers a connection that does not poll.                                *)
LEMMA OnceStep ==
  ASSUME Typed, ServerTyped', Next PROVE PollsOnce'
<1> SUFFICES ASSUME NEW j \in Conn PROVE Once(j)' BY DEF PollsOnce
<1>0. Once(j) /\ ClientTyped /\ ServerTyped BY DEF Typed, PollsOnce
<1> DEFINE Quiet == /\ waiters'[j] = waiters[j] /\ answer'[j] = answer[j]
                    /\ loop'[j] = "polling" <=> loop[j] = "polling"
<1>1. ASSUME Quiet PROVE Once(j)' BY <1>0, <1>1, OnceSame
<1>2. ASSUME NEW k \in Conn,
             Connect(k) \/ Install(k) \/ LoopEnds(k) \/ Serve(k) \/ CloseLost(k) \/ Expire(k)
             \/ Reply(k) \/ ReplyFails(k)
      PROVE  Once(j)'
  <2>1. Quiet
    BY <1>0, <1>2 DEF Connect, Install, LoopEnds, Serve, CloseLost, Expire, Reply, ReplyFails,
                    Goto, clientVars, serverVars, ClientTyped
  <2> QED BY <1>1, <2>1
<1>3. ASSUME NEW k \in Conn, Open(k) \/ OpenFails(k) \/ Close(k) PROVE Once(j)'
  <2>1. loop'[j] = "polling" <=> loop[j] = "polling"
    BY <1>0, <1>3 DEF Open, OpenFails, Close, Goto, clientVars, ClientTyped
  <2>2. CASE \E s \in Conn \cup {None} : ReplaceSession(s) BY <2>1, <2>2, OnceReplace
  <2>3. CASE UNCHANGED <<waiters, answer>> BY <1>1, <2>1, <2>3
  <2> QED BY <1>3, <2>2, <2>3 DEF Open, OpenFails, Close
<1>4. CASE FindDead \/ ServerDisconnect
  <2>1. loop' = loop /\ ReplaceSession(None)
    BY <1>4 DEF FindDead, ServerDisconnect, clientVars
  <2> QED BY <2>1, OnceReplace
<1>5. CASE Disconnect \/ Stop \/ Start \/ \E r \in Req : TimesOut(r)
  <2>1. Quiet BY <1>5 DEF Disconnect, Stop, Start, TimesOut, clientVars, serverVars
  <2> QED BY <1>1, <2>1
<1>6. CASE ServerRestart
  <2>1. waiters'[j] = <<>> /\ answer'[j] = NoAnswer BY <1>6 DEF ServerRestart
  <2> QED BY <2>1 DEF Once, Live
<1>7. ASSUME NEW k \in Conn, Poll(k) PROVE Once(j)'
  <2>1. CASE j # k
    <3>1. Quiet BY <1>0, <1>7, <2>1 DEF Poll, Goto, ClientTyped, ServerTyped
    <3> QED BY <1>1, <3>1
  <2>2. CASE j = k
    <3>1. loop[j] = "poll" /\ loop'[j] = "polling"
      BY <1>0, <1>7, <2>2 DEF Poll, Goto, ClientTyped
    <3>2. answer[j] = NoAnswer /\ Live(j) = {} BY <1>0, <3>1 DEF Once
    <3>3. CASE waiters' = waiters
      <4>1. Live(j)' = {} BY <3>2, <3>3 DEF Live
      <4> QED BY <3>1, <4>1 DEF Once
    <3>4. CASE waiters' = [waiters EXCEPT ![k] = Append(@, "live")] /\ answer' = answer
      <4> DEFINE s == waiters[j]
      <4>1. s \in Seq({"live", "gone"}) /\ waiters'[j] = Append(s, "live")
        BY <1>0, <2>2, <3>4 DEF ServerTyped
      <4>2. \A i \in 1..Len(s) : s[i] # "live" BY <3>2 DEF Live
      <4> HIDE DEF s
      <4>3. \A i \in 1..Len(Append(s, "live")) : Append(s, "live")[i] = "live" => i = Len(s) + 1
        BY <4>1, <4>2
      <4>4. \A i \in Live(j)' : i = Len(s) + 1 BY <4>1, <4>3 DEF Live
      <4> QED BY <3>1, <3>2, <3>4, <4>4 DEF Once
    <3> QED BY <1>7, <3>3, <3>4 DEF Poll
  <2> QED BY <2>1, <2>2
<1>8. ASSUME NEW k \in Conn, PollExpired(k) PROVE Once(j)'
  <2>1. Closed(k) BY <1>0, <1>8, CloseIs DEF PollExpired
  <2>2. loop' = [loop EXCEPT ![k] = "refused"] /\ loop[k] = "poll" BY <1>8 DEF PollExpired, Goto
  <2>3. CASE j # k
    <3>1. Quiet BY <1>0, <2>1, <2>2, <2>3 DEF Closed, ClientTyped
    <3> QED BY <1>1, <3>1
  <2>4. CASE j = k
    <3>1. Live(j) = {} /\ answer[j] = NoAnswer BY <1>0, <2>2, <2>4 DEF Once
    <3>2. waiters'[j] = <<>> /\ answer'[j] = NoAnswer BY <2>1, <2>4, <3>1 DEF Closed
    <3> QED BY <3>2 DEF Once, Live
  <2> QED BY <2>3, <2>4
<1>9. ASSUME NEW k \in Conn, WaitEnds(k) PROVE Once(j)'
  <2>1. CASE j # k
    <3>1. Quiet BY <1>0, <1>9, <2>1 DEF WaitEnds, clientVars, ServerTyped
    <3> QED BY <1>1, <3>1
  <2>2. CASE j = k
    <3>1. PICK i \in DOMAIN waiters[j] :
            /\ waiters'[j] = RemoveAt(waiters[j], i)
            /\ answer'[j] = IF waiters[j][i] = "live" THEN Noop ELSE answer[j]
      BY <1>0, <1>9, <2>2 DEF WaitEnds, ServerTyped
    <3> DEFINE s == waiters[j]
    <3>2. s \in Seq({"live", "gone"}) /\ i \in 1..Len(s)
      <4>1. s \in Seq({"live", "gone"}) BY <1>0 DEF ServerTyped
      <4>2. i \in DOMAIN s OBVIOUS
      <4> HIDE DEF s
      <4> QED BY <4>1, <4>2
    <3>3. loop'[j] = loop[j] BY <1>9 DEF WaitEnds, clientVars
    <3>4. \A n \in Live(j)' : IF n < i THEN n \in Live(j) ELSE n + 1 \in Live(j)
      <4> HIDE DEF s
      <4>1. /\ Len(RemoveAt(s, i)) = Len(s) - 1
            /\ \A n \in 1..(Len(s) - 1) : RemoveAt(s, i)[n] = IF n < i THEN s[n] ELSE s[n + 1]
        BY <3>2, RemoveAtIs
      <4>2. Live(j)' = {n \in 1..(Len(s) - 1) : RemoveAt(s, i)[n] = "live"}
        BY <3>1, <4>1 DEF s, Live
      <4>3. Live(j) = {n \in 1..Len(s) : s[n] = "live"} BY DEF s, Live
      <4>4. Len(s) \in Nat BY <3>2
      <4> QED BY <3>2, <4>1, <4>2, <4>3, <4>4
    <3>5. i \in Live(j) <=> waiters[j][i] = "live" BY <3>2 DEF Live
    <3>6. \A n \in Live(j)' : n \in Int /\ (n < i => n # i) /\ (~(n < i) => n + 1 # i)
      BY <3>2 DEF Live
    <3>7. i \in Live(j) => Live(j)' = {} BY <1>0, <3>4, <3>6 DEF Once
    <3>8. \A m, n \in Live(j)' : m = n
      <4> SUFFICES ASSUME NEW m \in Live(j)', NEW n \in Live(j)' PROVE m = n OBVIOUS
      <4>1. m \in Int /\ n \in Int /\ i \in Int BY <3>2, <3>6
      <4>2. \A a, b \in Live(j) : a = b BY <1>0 DEF Once
      <4>3. CASE m < i /\ n < i BY <3>4, <4>2, <4>3
      <4>4. CASE ~(m < i) /\ ~(n < i)
        <5>1. m + 1 = n + 1 BY <3>4, <4>2, <4>4
        <5> QED BY <4>1, <5>1
      <4>5. CASE m < i /\ ~(n < i)
        <5>1. m = n + 1 BY <3>4, <4>2, <4>5
        <5> QED BY <4>1, <4>5, <5>1
      <4>6. CASE ~(m < i) /\ n < i
        <5>1. m + 1 = n BY <3>4, <4>2, <4>6
        <5> QED BY <4>1, <4>6, <5>1
      <4> QED BY <4>3, <4>4, <4>5, <4>6
    <3>9. CASE i \in Live(j)
      <4>1. loop[j] = "polling" BY <1>0, <3>9 DEF Once
      <4> QED BY <3>3, <3>7, <3>9, <4>1 DEF Once
    <3>10. CASE i \notin Live(j)
      <4>1. answer'[j] = answer[j] BY <3>1, <3>5, <3>10
      <4>2. Live(j) = {} => Live(j)' = {} BY <3>4
      <4> QED BY <1>0, <3>3, <3>8, <4>1, <4>2 DEF Once
    <3> QED BY <3>9, <3>10
  <2> QED BY <2>1, <2>2
<1>10. ASSUME NEW k \in Conn, Answered(k) PROVE Once(j)'
  <2>1. CASE j # k
    <3>1. Quiet
      <4>1. loop'[j] = loop[j] /\ answer'[j] = answer[j] /\ waiters' = waiters
        <5>1. answer[k] \in Answers BY <1>0 DEF ServerTyped
        <5>2. answer[k].kind \in {"noop", "invalid", "request"}
          BY <1>10, <5>1, AnswerFields DEF Answered
        <5>3. \E l : loop' = [loop EXCEPT ![k] = l] BY <1>10, <5>2 DEF Answered, Goto
        <5> QED BY <1>0, <1>10, <2>1, <5>3 DEF Answered, serverVars, ClientTyped, ServerTyped
      <4> QED BY <4>1
    <3> QED BY <1>1, <3>1
  <2>2. CASE j = k
    <3>1. Live(j) = {} /\ waiters' = waiters BY <1>0, <1>10, <2>2 DEF Answered, Once, serverVars
    <3>2. answer'[j] = NoAnswer BY <1>0, <1>10, <2>2 DEF Answered, ServerTyped
    <3>3. Live(j)' = {} BY <3>1 DEF Live
    <3> QED BY <3>2, <3>3 DEF Once
  <2> QED BY <2>1, <2>2
<1>11. ASSUME NEW k \in Conn, PollUnsent(k) \/ PollFails(k) PROVE Once(j)'
  <2>1. waiters' = waiters /\ answer' = answer BY <1>11 DEF PollUnsent, PollFails, serverVars
  <2>2. CASE j # k
    <3>1. Quiet BY <1>0, <1>11, <2>1, <2>2 DEF PollUnsent, PollFails, Goto, ClientTyped
    <3> QED BY <1>1, <3>1
  <2>3. CASE j = k
    <3>1. answer[j] = NoAnswer /\ Live(j) = {}
      BY <1>0, <1>11, <2>3, LiveIs DEF PollUnsent, PollFails, Hopeless, Once
    <3>2. Live(j)' = {} BY <2>1, <3>1 DEF Live
    <3> QED BY <2>1, <3>1, <3>2 DEF Once
  <2> QED BY <2>2, <2>3
<1>12. ASSUME NEW k \in Conn, PollLost(k) PROVE Once(j)'
  <2>1. CASE j # k
    <3>1. Quiet BY <1>0, <1>12, <2>1 DEF PollLost, clientVars, ServerTyped
    <3> QED BY <1>1, <3>1
  <2>2. CASE j = k
    <3>1. answer'[j] = NoAnswer /\ waiters'[j] = [i \in DOMAIN waiters[j] |-> "gone"]
      BY <1>0, <1>12, <2>2 DEF PollLost, ServerTyped
    <3>2. waiters[j] \in Seq({"live", "gone"}) BY <1>0 DEF ServerTyped
    <3>3. waiters'[j] \in Seq({"live", "gone"}) BY DEF ServerTyped
    <3>4. \A i \in 1..Len(waiters'[j]) : waiters'[j][i] = "gone"
      <4>1. DOMAIN waiters'[j] = 1..Len(waiters'[j]) BY <3>3
      <4>2. DOMAIN waiters'[j] = DOMAIN waiters[j] BY <3>1
      <4> QED BY <3>1, <4>1, <4>2
    <3>5. Live(j)' = {} BY <3>4 DEF Live
    <3> QED BY <3>1, <3>5 DEF Once
  <2> QED BY <2>1, <2>2
<1>13. ASSUME NEW r \in Req, Call(r) PROVE Once(j)'
  <2>1. session \in Conn /\ loop' = loop BY <1>0, <1>13 DEF Call, clientVars, ServerTyped
  <2>2. CASE j # session \/ waiters[session] = <<>>
    <3>1. Quiet BY <1>0, <1>13, <2>1, <2>2 DEF Call, ServerTyped
    <3> QED BY <1>1, <3>1
  <2>3. CASE j = session /\ waiters[session] # <<>>
    <3> DEFINE s == waiters[j]
    <3>1. /\ s \in Seq({"live", "gone"}) /\ s # <<>> /\ waiters'[j] = Tail(s)
          /\ answer'[j] = IF Head(s) = "live" THEN Handed(r) ELSE answer[j]
      BY <1>0, <1>13, <2>1, <2>3 DEF Call, ServerTyped
    <3> HIDE DEF s
    <3>2. /\ Len(s) \in Nat /\ Len(s) >= 1 /\ Head(s) = s[1]
          /\ Len(Tail(s)) = Len(s) - 1 /\ \A i \in 1..(Len(s) - 1) : Tail(s)[i] = s[i + 1]
      BY <3>1
    <3>3. Live(j)' = {n \in 1..(Len(s) - 1) : Tail(s)[n] = "live"} BY <3>1, <3>2 DEF Live
    <3>4. Live(j) = {n \in 1..Len(s) : s[n] = "live"} BY DEF s, Live
    <3>5. \A n \in Live(j)' : n \in Nat \ {0} /\ n + 1 \in Live(j) BY <3>2, <3>3, <3>4
    <3>6. \A m, n \in Live(j)' : m = n
      <4> SUFFICES ASSUME NEW m \in Live(j)', NEW n \in Live(j)' PROVE m = n OBVIOUS
      <4>1. m + 1 = n + 1 BY <1>0, <3>5 DEF Once
      <4> QED BY <3>5, <4>1
    <3>7. CASE Head(s) = "live"
      <4>1. 1 \in Live(j) BY <3>2, <3>4, <3>7
      <4>2. Live(j)' = {}
        <5> SUFFICES ASSUME NEW n \in Live(j)' PROVE FALSE OBVIOUS
        <5>1. n + 1 = 1 BY <1>0, <3>5, <4>1 DEF Once
        <5> QED BY <3>5, <5>1
      <4>3. loop[j] = "polling" BY <1>0, <4>1 DEF Once
      <4> QED BY <2>1, <4>2, <4>3 DEF Once
    <3>8. CASE Head(s) # "live"
      <4>1. Live(j) = {} => Live(j)' = {} BY <3>5
      <4> QED BY <1>0, <2>1, <3>1, <3>6, <3>8, <4>1 DEF Once
    <3> QED BY <3>7, <3>8
  <2> QED BY <2>2, <2>3
<1> QED BY <1>2, <1>3, <1>4, <1>5, <1>6, <1>7, <1>8, <1>9, <1>10, <1>11, <1>12, <1>13
        DEF Next, Progress

(* Every variable has its type, and every poll is answered at most once.   *)
THEOREM AlwaysTyped == Spec => []Typed
<1>1. Typed /\ UNCHANGED vars => Typed'
  <2> SUFFICES ASSUME Typed, UNCHANGED vars PROVE Typed' OBVIOUS
  <2> USE DEF vars, clientVars, serverVars, ghosts
  <2>1. ClientTyped' BY DEF Typed, ClientTyped
  <2>2. ServerTyped' BY DEF Typed, ServerTyped
  <2>3. PollsOnce' BY DEF Typed, PollsOnce, Once, Live
  <2> QED BY <2>1, <2>2, <2>3 DEF Typed
<1>2. Typed /\ Next => Typed'
  BY ClientStep, ServerStep, OnceStep DEF Typed
<1> QED BY <1>1, <1>2, InitTyped, PTL DEF Spec

(* The inductive invariant implies the one the run checks.                 *)
LEMMA TypedIsTypeOK == Typed => TypeOK
<1> SUFFICES ASSUME Typed PROVE TypeOK OBVIOUS
<1>1. \A k \in Conn : answer[k] # NoAnswer => ~Contains(waiters[k], "live")
  BY LiveIs DEF Typed, PollsOnce, Once
<1>2. Answers \subseteq Answer
  BY DEF Answers, Answer, NoAnswer, Noop, Invalid, Handed
<1>3. answer \in [Conn -> Answer] BY <1>2 DEF Typed, ServerTyped
<1>4. {up, off, alone} \subseteq BOOLEAN BY Zenon DEF Typed, ClientTyped
<1>5. ClientTyped /\ ServerTyped BY DEF Typed
<1>6. {entry, session, kept} \subseteq Conn \cup {None} BY <1>5 DEF ClientTyped, ServerTyped
<1>7. \A k \in Conn : queue[k] \in Seq(Req) /\ waiters[k] \in Seq({"live", "gone"})
  BY <1>5 DEF ServerTyped
<1>8. /\ call \in [Req -> {"none", "pending", "answered", "failed"}]
      /\ of \in [Req -> Conn \cup {None}]
  BY <1>5 DEF ServerTyped, CallStates
<1>9. /\ loop \in [Conn -> LoopStates]
      /\ told \subseteq Conn /\ expired \subseteq Leased /\ closes \subseteq Conn
      /\ serving \in [Conn -> Req \cup {None}]
      /\ \A k \in Conn : loop[k] \in {"serve", "reply"} => serving[k] \in Req
      /\ ran \in [Req -> Nat]
      /\ faults \in Nat
  BY <1>5 DEF ClientTyped
<1> QED BY <1>1, <1>3, <1>4, <1>6, <1>7, <1>8, <1>9 DEF TypeOK

(* Every variable of the reverse link keeps its type, and a poll whose     *)
(* answer is under way is no longer waited for.                            *)
THEOREM TypeCorrect == Spec => []TypeOK
BY AlwaysTyped, TypedIsTypeOK, PTL

-----------------------------------------------------------------------------
(* Nobody waits on session k.                                              *)
QuietAt(k) == Pending(k) = {} /\ waiters[k] = <<>>

(* No step lets anybody wait on a session that is not in the table: open,  *)
(* close, stop, expiry and restart reject the calls of the one they end.   *)
LEMMA QuietStep ==
  ASSUME Typed, ClosedIsQuiet, Next PROVE ClosedIsQuiet'
<1>0. ClientTyped /\ ServerTyped BY DEF Typed
<1> SUFFICES ASSUME NEW j \in Conn, session' # j PROVE QuietAt(j)'
  BY DEF ClosedIsQuiet, QuietAt
<1>1. session # j => QuietAt(j) BY DEF ClosedIsQuiet, QuietAt
<1>2. ASSUME waiters'[j] = waiters[j] \/ waiters'[j] = <<>>, session' = session, of' = of,
             \A r \in Req : call'[r] = "pending" => call[r] = "pending"
      PROVE  QuietAt(j)'
  BY <1>1, <1>2 DEF QuietAt, Pending
<1>3. ASSUME NEW k \in Conn, Closed(k), k = j \/ session # j, of' = of PROVE QuietAt(j)'
  <2>1. Pending(j)' = {} BY <1>1, <1>3 DEF Closed, QuietAt, Pending
  <2>2. waiters'[j] = <<>> BY <1>0, <1>1, <1>3 DEF Closed, QuietAt, ServerTyped
  <2> QED BY <2>1, <2>2 DEF QuietAt
<1>4. ASSUME NEW s \in Conn \cup {None}, ReplaceSession(s), of' = of PROVE QuietAt(j)'
  <2>1. CASE session = None
    <3>1. session # j BY <2>1 DEF None
    <3>2. waiters' = waiters /\ call' = call BY <2>1, <1>4 DEF ReplaceSession
    <3> QED BY <1>1, <1>4, <3>1, <3>2 DEF QuietAt, Pending
  <2>2. CASE session # None
    <3>1. session \in Conn /\ Closed(session) BY <1>0, <1>4, <2>2, ReplaceIs
    <3> QED BY <1>3, <1>4, <3>1
  <2> QED BY <2>1, <2>2
<1>5. ASSUME NEW k \in Conn,
             \/ Connect(k) \/ Install(k) \/ LoopEnds(k) \/ PollUnsent(k) \/ PollFails(k)
             \/ Serve(k) \/ CloseLost(k) \/ Expire(k) \/ Answered(k)
      PROVE  QuietAt(j)'
  <2>1. UNCHANGED <<session, waiters, call, of>>
    BY <1>5 DEF Connect, Install, LoopEnds, PollUnsent, PollFails, Serve, CloseLost, Expire,
                Answered, serverVars
  <2> QED BY <1>2, <2>1
<1>6. ASSUME NEW k \in Conn, Open(k) \/ OpenFails(k) \/ Close(k) PROVE QuietAt(j)'
  <2>1. UNCHANGED of BY <1>6 DEF Open, OpenFails, Close
  <2>2. CASE \E s \in Conn \cup {None} : ReplaceSession(s) BY <1>4, <2>1, <2>2
  <2>3. CASE UNCHANGED <<session, waiters, call>> BY <1>2, <2>1, <2>3
  <2> QED BY <1>6, <2>2, <2>3 DEF Open, OpenFails, Close
<1>7. ASSUME NEW k \in Conn, Poll(k) \/ PollLost(k) \/ WaitEnds(k) PROVE QuietAt(j)'
  <2>1. UNCHANGED <<session, call, of>> BY <1>7 DEF Poll, PollLost, WaitEnds
  <2>2. waiters[j] = <<>> BY <1>1, <2>1 DEF QuietAt
  <2>3. waiters'[j] = waiters[j]
    <3>1. CASE Poll(k) BY <1>0, <2>1, <3>1 DEF Poll, ServerTyped
    <3>2. CASE PollLost(k)
      <4>1. [i \in DOMAIN <<>> |-> "gone"] = <<>> OBVIOUS
      <4> QED BY <1>0, <2>2, <3>2, <4>1 DEF PollLost, ServerTyped
    <3>3. CASE WaitEnds(k)
      <4>1. PICK i \in DOMAIN waiters[k] : waiters' = [waiters EXCEPT ![k] = RemoveAt(@, i)]
        BY <3>3 DEF WaitEnds
      <4>2. j # k BY <2>2, <4>1
      <4> QED BY <1>0, <4>1, <4>2 DEF ServerTyped
    <3> QED BY <1>7, <3>1, <3>2, <3>3
  <2> QED BY <1>2, <2>1, <2>3
<1>8. ASSUME NEW k \in Conn, PollExpired(k) PROVE QuietAt(j)'
  <2>1. Closed(k) /\ session = k /\ of' = of BY <1>0, <1>8, CloseIs DEF PollExpired
  <2> QED BY <1>3, <2>1
<1>9. ASSUME NEW k \in Conn, Reply(k) \/ ReplyFails(k) PROVE QuietAt(j)'
  <2>1. UNCHANGED <<session, waiters, of>> BY <1>9 DEF Reply, ReplyFails
  <2>2. \A r \in Req : call'[r] = "pending" => call[r] = "pending"
    BY <1>0, <1>9 DEF Reply, ReplyFails, Resolve, ServerTyped
  <2> QED BY <1>2, <2>1, <2>2
<1>10. ASSUME NEW r \in Req, Call(r) PROVE QuietAt(j)'
  <2>1. session' = session /\ session # j BY <1>10 DEF Call
  <2>2. waiters'[j] = waiters[j] BY <1>0, <1>10, <2>1 DEF Call, ServerTyped
  <2>3. \A q \in Req : call'[q] = "pending" /\ of'[q] = j => call[q] = "pending" /\ of[q] = j
    BY <1>0, <1>10, <2>1 DEF Call, ServerTyped
  <2> QED BY <1>1, <2>1, <2>2, <2>3 DEF QuietAt, Pending
<1>11. ASSUME NEW r \in Req, TimesOut(r) PROVE QuietAt(j)'
  BY <1>0, <1>2, <1>11 DEF TimesOut, ServerTyped
<1>12. CASE FindDead \/ ServerDisconnect BY <1>4, <1>12 DEF FindDead, ServerDisconnect
<1>13. CASE Disconnect \/ Stop \/ Start
  <2>1. UNCHANGED <<session, waiters, call, of>>
    BY <1>13 DEF Disconnect, Stop, Start, serverVars
  <2> QED BY <1>2, <2>1
<1>14. CASE ServerRestart
  BY <1>0, <1>14 DEF ServerRestart, QuietAt, Pending, ServerTyped
<1> QED BY <1>5, <1>6, <1>7, <1>8, <1>9, <1>10, <1>11, <1>12, <1>13, <1>14 DEF Next, Progress

-----------------------------------------------------------------------------
(* No step lets a poll wait while a request is queued.                     *)
LEMMA NoneWaitsStep ==
  ASSUME Typed, NoneWaitsOnNone, Next PROVE NoneWaitsOnNone'
<1>0. ClientTyped /\ ServerTyped BY DEF Typed
<1> SUFFICES ASSUME NEW j \in Conn PROVE waiters'[j] # <<>> => queue'[j] = <<>>
  BY DEF NoneWaitsOnNone
<1>1. waiters[j] # <<>> => queue[j] = <<>> BY DEF NoneWaitsOnNone
<1> DEFINE Goal == waiters'[j] # <<>> => queue'[j] = <<>>
<1>2. ASSUME queue'[j] = queue[j] \/ queue'[j] = <<>>,
             waiters[j] = <<>> => waiters'[j] = <<>>
      PROVE  Goal
  BY <1>1, <1>2
<1>3. ASSUME NEW s \in Conn \cup {None}, ReplaceSession(s) PROVE Goal
  <2>1. CASE session = None BY <1>1, <1>3, <2>1 DEF ReplaceSession
  <2>2. CASE session # None
    <3>1. Closed(session) BY <1>0, <1>3, <2>2, ReplaceIs
    <3> QED BY <1>1, <3>1 DEF Closed
  <2> QED BY <2>1, <2>2
<1> HIDE DEF Goal
<1>4. ASSUME NEW k \in Conn,
             \/ Connect(k) \/ Install(k) \/ LoopEnds(k) \/ PollUnsent(k) \/ PollFails(k)
             \/ Serve(k) \/ CloseLost(k) \/ Expire(k) \/ Answered(k)
             \/ Reply(k) \/ ReplyFails(k)
      PROVE  Goal
  <2>1. UNCHANGED <<queue, waiters>>
    BY <1>4 DEF Connect, Install, LoopEnds, PollUnsent, PollFails, Serve, CloseLost, Expire,
                Answered, Reply, ReplyFails, serverVars
  <2> QED BY <1>2, <2>1
<1>5. ASSUME NEW k \in Conn, Open(k) \/ OpenFails(k) \/ Close(k) PROVE Goal
  <2>1. CASE \E s \in Conn \cup {None} : ReplaceSession(s) BY <1>3, <2>1
  <2>2. CASE UNCHANGED <<queue, waiters>> BY <1>2, <2>2
  <2> QED BY <1>5, <2>1, <2>2 DEF Open, OpenFails, Close
<1>6. ASSUME NEW k \in Conn, Poll(k) PROVE Goal
  <2>1. CASE queue' = queue /\ waiters' = waiters BY <1>2, <2>1
  <2>2. CASE /\ queue[k] # <<>> /\ queue' = [queue EXCEPT ![k] = Tail(@)]
             /\ waiters' = waiters
    <3>1. CASE j = k
      <4>1. waiters'[j] = <<>> BY <1>1, <2>2, <3>1
      <4> QED BY <4>1 DEF Goal
    <3>2. CASE j # k
      <4>1. queue'[j] = queue[j] BY <1>0, <2>2, <3>2 DEF ServerTyped
      <4> QED BY <1>2, <2>2, <4>1
    <3> QED BY <3>1, <3>2
  <2>3. CASE queue[k] = <<>> /\ queue' = queue /\ waiters' = [waiters EXCEPT ![k] = Append(@, "live")]
    <3>1. CASE j = k BY <2>3, <3>1 DEF Goal
    <3>2. CASE j # k
      <4>1. waiters'[j] = waiters[j] BY <1>0, <2>3, <3>2 DEF ServerTyped
      <4> QED BY <1>2, <2>3, <4>1
    <3> QED BY <3>1, <3>2
  <2> QED BY <1>6, <2>1, <2>2, <2>3 DEF Poll
<1>7. ASSUME NEW k \in Conn, PollExpired(k) PROVE Goal
  <2>1. Closed(k) BY <1>0, <1>7, CloseIs DEF PollExpired
  <2> QED BY <1>1, <2>1 DEF Closed, Goal
<1>8. ASSUME NEW k \in Conn, WaitEnds(k) \/ PollLost(k) PROVE Goal
  <2>1. queue' = queue BY <1>8 DEF WaitEnds, PollLost
  <2>2. waiters[j] = <<>> => waiters'[j] = <<>>
    <3>1. CASE PollLost(k)
      <4>1. [i \in DOMAIN <<>> |-> "gone"] = <<>> OBVIOUS
      <4> QED BY <1>0, <3>1, <4>1 DEF PollLost, ServerTyped
    <3>2. CASE WaitEnds(k)
      <4>1. PICK i \in DOMAIN waiters[k] : waiters' = [waiters EXCEPT ![k] = RemoveAt(@, i)]
        BY <3>2 DEF WaitEnds
      <4>2. waiters[j] = <<>> => j # k BY <4>1
      <4> QED BY <1>0, <4>1, <4>2 DEF ServerTyped
    <3> QED BY <1>8, <3>1, <3>2
  <2> QED BY <1>2, <2>1, <2>2
<1>9. ASSUME NEW r \in Req, Call(r) PROVE Goal
  <2>1. session \in Conn BY <1>0, <1>9 DEF Call, ServerTyped
  <2>2. CASE waiters[session] = <<>>
    <3>1. waiters' = waiters /\ queue' = [queue EXCEPT ![session] = Append(@, r)]
      BY <1>9, <2>2 DEF Call
    <3>2. CASE j = session
      <4>1. waiters'[j] = <<>> BY <2>2, <3>1, <3>2
      <4> QED BY <4>1 DEF Goal
    <3>3. CASE j # session
      <4>1. queue'[j] = queue[j] BY <1>0, <3>1, <3>3 DEF ServerTyped
      <4> QED BY <1>2, <3>1, <4>1
    <3> QED BY <3>2, <3>3
  <2>3. CASE waiters[session] # <<>>
    <3>1. queue' = queue /\ waiters' = [waiters EXCEPT ![session] = Tail(@)]
      BY <1>9, <2>3 DEF Call
    <3>2. waiters[j] = <<>> => j # session BY <2>3
    <3>3. waiters[j] = <<>> => waiters'[j] = <<>> BY <1>0, <3>1, <3>2 DEF ServerTyped
    <3> QED BY <1>2, <3>1, <3>3
  <2> QED BY <2>2, <2>3
<1>10. CASE FindDead \/ ServerDisconnect BY <1>3, <1>10 DEF FindDead, ServerDisconnect, Goal
<1>11. CASE Disconnect \/ Stop \/ Start \/ \E r \in Req : TimesOut(r)
  <2>1. UNCHANGED <<queue, waiters>>
    BY <1>11 DEF Disconnect, Stop, Start, TimesOut, serverVars
  <2> QED BY <1>2, <2>1 DEF Goal
<1>12. CASE ServerRestart BY <1>12 DEF ServerRestart, Goal
<1> QED BY <1>4, <1>5, <1>6, <1>7, <1>8, <1>9, <1>10, <1>11, <1>12 DEF Next, Progress, Goal

-----------------------------------------------------------------------------
(* Calls are made in their order.                                          *)
CallsMade ==
  \A r \in Req :
    /\ call[r] = "none" => of[r] = None /\ ran[r] = 0
    /\ call[r] # "none" => \A q \in Req : q < r => call[q] # "none"

(* Requests that were handed out come before those that are queued, and    *)
(* those in the order they were made; what is answered was run.            *)
Orderly(k) ==
  /\ \A i, j \in 1..Len(queue[k]) : i < j => queue[k][i] < queue[k][j]
  /\ \A i \in 1..Len(queue[k]) :
       answer[k].req < queue[k][i] /\ (loop[k] = "serve" => serving[k] < queue[k][i])
  /\ loop[k] = "reply" => ran[serving[k]] = 1

(* The second part of RunsInOrder, for session k.                          *)
AheadOk(k) ==
  \A q \in Ahead(k) \cap Req :
    /\ ran[q] = 0 /\ of[q] = k
    /\ \A r \in Req : r > q /\ of[r] = k => ran[r] = 0

(* The first part of RunsInOrder.                                          *)
RanOnce == \A r \in Req : ran[r] <= 1 /\ (call[r] = "answered" => ran[r] = 1)

(* The inductive invariant behind RunsInOrder.                             *)
Ordered == CallsMade /\ RanOnce /\ \A k \in Conn : Orderly(k) /\ AheadOk(k)

(* It implies what the run checks.                                         *)
LEMMA OrderedIsInOrder == Ordered => RunsInOrder
BY DEF Ordered, RanOnce, AheadOk, RunsInOrder

(* The requests of a queue are the elements at its indices.                *)
LEMMA QueueHas ==
  ASSUME ServerTyped, NEW k \in Conn
  PROVE  ToSet(queue[k]) = {queue[k][i] : i \in 1..Len(queue[k])}
<1> DEFINE s == queue[k]
<1>1. s \in Seq(Req) BY DEF ServerTyped
<1>2. DOMAIN s = 1..Len(s) BY <1>1
<1> QED BY <1>2 DEF ToSet

(* Nothing is added to what session k has ahead.                           *)
Fewer(k) ==
  /\ queue'[k] = queue[k] \/ queue'[k] = <<>>
  /\ answer'[k] = answer[k] \/ answer'[k].req = None
  /\ loop'[k] = "serve" => loop[k] = "serve" /\ serving'[k] = serving[k]
  /\ loop'[k] = "reply" => loop[k] = "reply" /\ serving'[k] = serving[k]

(* With nothing added ahead of a session, its order stays.                 *)
LEMMA FewerOk ==
  ASSUME ServerTyped, NEW k \in Conn, Orderly(k), AheadOk(k), Fewer(k), ran' = ran, of' = of
  PROVE  Orderly(k)' /\ AheadOk(k)'
<1>1. queue[k] \in Seq(Req) BY DEF ServerTyped
<1>2. \A i \in 1..Len(queue[k]) : queue[k][i] \in Nat \ {0}
  <2> DEFINE s == queue[k]
  <2>1. s \in Seq(Req) BY <1>1
  <2> HIDE DEF s
  <2>2. \A i \in 1..Len(s) : s[i] \in Req BY <2>1
  <2> QED BY <2>2 DEF s
<1>3. Orderly(k)'
  BY <1>1, <1>2 DEF Orderly, Fewer, None
<1>4. ToSet(queue'[k]) \subseteq ToSet(queue[k])
  <2>1. ToSet(<<>>) = {} BY DEF ToSet
  <2> QED BY <2>1 DEF Fewer
<1>5. Ahead(k)' \cap Req \subseteq Ahead(k)
  <2>1. None \notin Req BY DEF None
  <2> QED BY <1>4, <2>1 DEF Ahead, Fewer
<1>6. AheadOk(k)' BY <1>5 DEF AheadOk
<1> QED BY <1>3, <1>6

(* The calls stay in order when none is made or answered.                  *)
LEMMA CallsSame ==
  ASSUME CallsMade, RanOnce, ran' = ran, of' = of,
         \A r \in Req : /\ call'[r] = "none" <=> call[r] = "none"
                        /\ call'[r] = "answered" => call[r] = "answered"
  PROVE  CallsMade' /\ RanOnce'
BY DEF CallsMade, RanOnce

(* A step that adds nothing ahead of any session keeps the order.          *)
LEMMA OrderedSame ==
  ASSUME ServerTyped, Ordered, \A k \in Conn : Fewer(k), ran' = ran, of' = of,
         \A r \in Req : /\ call'[r] = "none" <=> call[r] = "none"
                        /\ call'[r] = "answered" => call[r] = "answered"
  PROVE  Ordered'
<1>1. CallsMade' /\ RanOnce' BY CallsSame DEF Ordered
<1>2. ASSUME NEW k \in Conn PROVE Orderly(k)' /\ AheadOk(k)'
  BY FewerOk DEF Ordered
<1> QED BY <1>1, <1>2 DEF Ordered

(* Closing a session adds nothing ahead of any session.                    *)
LEMMA CloseFewer ==
  ASSUME ServerTyped, NEW s \in Conn, Closed(s), serving' = serving,
         \A k \in Conn : loop'[k] \in {"serve", "reply"} => loop'[k] = loop[k]
  PROVE  /\ \A k \in Conn : Fewer(k)
         /\ \A r \in Req : /\ call'[r] = "none" <=> call[r] = "none"
                           /\ call'[r] = "answered" => call[r] = "answered"
BY AnswerFields DEF Closed, Fewer

(* Requests are numbered from one.                                         *)
LEMMA ReqIsPositive == \A r \in Req : r \in Nat /\ 0 < r
OBVIOUS

(* A request that is handed on, from the queue to the answer or from the   *)
(* answer to the client, stays ahead of those behind it.                   *)
LEMMA HandedOnOk ==
  ASSUME Typed, Ordered, NEW k \in Conn, ran' = ran, of' = of,
         \/ /\ loop[k] = "poll" /\ loop'[k] = "polling" /\ queue[k] # <<>>
            /\ queue'[k] = Tail(queue[k]) /\ answer'[k] = Handed(Head(queue[k]))
         \/ /\ answer[k] \in Answers /\ answer[k].req \in Req /\ loop'[k] = "serve"
            /\ queue'[k] = queue[k] /\ answer'[k] = NoAnswer
            /\ serving'[k] = answer[k].req
  PROVE  Orderly(k)' /\ AheadOk(k)'
<1> DEFINE s == queue[k]
<1>1. /\ s \in Seq(Req) /\ answer[k] \in Answers
      /\ ToSet(s) = {s[i] : i \in 1..Len(s)}
  BY QueueHas DEF Typed, ServerTyped
<1>2. Orderly(k) /\ AheadOk(k) BY DEF Ordered
<1>3. \A i, j \in 1..Len(s) : i < j => s[i] < s[j] BY <1>2 DEF Orderly
<1>4. CASE /\ loop'[k] = "polling" /\ s # <<>>
           /\ queue'[k] = Tail(s) /\ answer'[k] = Handed(Head(s))
  <2> DEFINE t == queue'[k]
  <2> HIDE DEF s
  <2>1. /\ Len(s) \in Nat /\ Len(s) >= 1 /\ Head(s) = s[1] /\ t \in Seq(Req)
        /\ Len(t) = Len(s) - 1 /\ \A i \in 1..Len(t) : t[i] = s[i + 1]
    BY <1>1, <1>4
  <2>2. answer'[k].req = s[1] /\ s[1] \in Req
    <3>1. s[1] \in Req BY <1>1, <2>1
    <3> QED BY <1>4, <2>1, <3>1, AnswerFields
  <2>3. Orderly(k)'
    <3> HIDE DEF t
    <3>1. \A i, j \in 1..Len(t) : i < j => t[i] < t[j] BY <1>3, <2>1
    <3>2. \A i \in 1..Len(t) : s[1] < t[i] BY <1>3, <2>1
    <3> QED BY <1>4, <2>2, <3>1, <3>2 DEF Orderly, t
  <2>4. Ahead(k)' \subseteq Ahead(k)
    <3>1. ToSet(t) \subseteq ToSet(s)
      <4> HIDE DEF t
      <4>1. DOMAIN t = 1..Len(t) BY <2>1
      <4>2. \A i \in DOMAIN t : i + 1 \in 1..Len(s) BY <2>1, <4>1
      <4>3. ToSet(t) = {t[i] : i \in DOMAIN t} BY DEF ToSet
      <4> QED BY <1>1, <2>1, <4>1, <4>2, <4>3
    <3>2. s[1] \in ToSet(s) BY <1>1, <2>1
    <3> QED BY <1>4, <2>2, <3>1, <3>2 DEF Ahead, s, t
  <2>5. AheadOk(k)' BY <1>2, <2>4 DEF AheadOk
  <2> QED BY <2>3, <2>5
<1>5. CASE /\ answer[k].req \in Req /\ loop'[k] = "serve"
           /\ queue'[k] = queue[k] /\ answer'[k] = NoAnswer
           /\ serving'[k] = answer[k].req
  <2>1. \A i \in 1..Len(s) : s[i] \in Nat /\ 0 < s[i]
    <3> HIDE DEF s
    <3>1. \A i \in 1..Len(s) : s[i] \in Req BY <1>1
    <3> QED BY <3>1, ReqIsPositive
  <2>2. answer'[k].req = 0 BY <1>5, AnswerFields DEF None
  <2>3. Orderly(k)' BY <1>2, <1>5, <2>1, <2>2 DEF Orderly
  <2>4. Ahead(k)' \cap Req \subseteq Ahead(k)
    <3>1. answer'[k].req \notin Req BY <2>2
    <3> QED BY <1>5, <3>1 DEF Ahead
  <2>5. AheadOk(k)' BY <1>2, <2>4 DEF AheadOk
  <2> QED BY <2>3, <2>5
<1> QED BY <1>4, <1>5

(* What the client runs it has not run before, and nothing later.          *)
LEMMA ServeOrdered ==
  ASSUME Typed, Ordered, NEW k \in Conn, Serve(k)
  PROVE  Ordered'
<1> DEFINE p == serving[k]
<1>1. /\ loop[k] = "serve" /\ p \in Req /\ ran \in [Req -> Nat]
      /\ loop \in [Conn -> LoopStates]
  BY DEF Serve, Typed, ClientTyped
<1>2. /\ ran' = [ran EXCEPT ![p] = @ + 1] /\ loop' = [loop EXCEPT ![k] = "reply"]
      /\ UNCHANGED <<serving, queue, answer, call, of>>
  BY DEF Serve, Goto, serverVars
<1>3. \A j \in Conn : Orderly(j) /\ AheadOk(j) BY DEF Ordered
<1>4. p \in Ahead(k) \cap Req BY <1>1 DEF Ahead
<1>5. ran[p] = 0 /\ of[p] = k BY <1>3, <1>4 DEF AheadOk
<1>6. ran'[p] = 1 /\ \A r \in Req \ {p} : ran'[r] = ran[r]
  <2> HIDE DEF p
  <2> QED BY <1>1, <1>2, <1>5
<1>7. answer[k] = NoAnswer /\ answer[k].req = None
  BY <1>1, AnswerFields DEF Typed, PollsOnce, Once
<1>8. ASSUME NEW j \in Conn PROVE Orderly(j)'
  <2>1. CASE j = k BY <1>1, <1>2, <1>3, <1>6, <2>1 DEF Orderly
  <2>2. CASE j # k
    <3>1. loop'[j] = loop[j] BY <1>1, <1>2, <2>2
    <3>2. loop[j] = "reply" => serving[j] \in Req /\ ran[serving[j]] = 1
      BY <1>3 DEF Orderly, Typed, ClientTyped
    <3>3. loop[j] = "reply" => ran'[serving[j]] = 1 BY <1>5, <1>6, <3>2
    <3> HIDE DEF p
    <3> QED BY <1>2, <1>3, <3>1, <3>3 DEF Orderly
  <2> QED BY <2>1, <2>2
<1>9. ASSUME NEW j \in Conn PROVE AheadOk(j)'
  <2>1. CASE j = k
    <3>1. Ahead(j)' \cap Req \subseteq ToSet(queue[k])
      <4>1. None \notin Req BY DEF None
      <4> QED BY <1>1, <1>2, <1>7, <2>1, <4>1 DEF Ahead
    <3>2. \A q \in ToSet(queue[k]) : q \in Req /\ p < q
      <4> DEFINE s == queue[k]
      <4>1. ServerTyped /\ s \in Seq(Req) BY DEF Typed, ServerTyped
      <4>2. \A i \in 1..Len(s) : p < s[i] BY <1>1, <1>3 DEF Orderly
      <4>3. ToSet(s) = {s[i] : i \in 1..Len(s)} BY <4>1, QueueHas
      <4> HIDE DEF s, p
      <4>4. \A i \in 1..Len(s) : s[i] \in Req BY <4>1
      <4> QED BY <4>2, <4>3, <4>4 DEF s
    <3>3. ASSUME NEW q \in ToSet(queue[k])
          PROVE  /\ ran'[q] = 0 /\ of'[q] = k
                 /\ \A r \in Req : r > q /\ of'[r] = k => ran'[r] = 0
      <4>1. q \in Req /\ q \in Nat /\ p \in Nat /\ p < q /\ q # p
        <5>1. q \in Req /\ p \in Req /\ p < q BY <1>1, <3>2
        <5> HIDE DEF p
        <5> QED BY <5>1, ReqIsPositive
      <4>2. q \in Ahead(k) \cap Req BY <4>1 DEF Ahead
      <4>3. ran[q] = 0 /\ of[q] = k /\ \A r \in Req : r > q /\ of[r] = k => ran[r] = 0
        BY <1>3, <4>2 DEF AheadOk
      <4>4. \A r \in Req : r > q => r # p BY <4>1
      <4> HIDE DEF p
      <4> QED BY <1>2, <1>6, <4>1, <4>3, <4>4
    <3> QED BY <2>1, <3>1, <3>3 DEF AheadOk
  <2>2. CASE j # k
    <3>1. Ahead(j)' = Ahead(j) BY <1>1, <1>2, <2>2 DEF Ahead
    <3>2. \A r \in Req : of[r] = j => r # p BY <1>5, <2>2
    <3> SUFFICES ASSUME NEW q \in Ahead(j) \cap Req
                 PROVE  /\ ran'[q] = 0 /\ of'[q] = j
                        /\ \A r \in Req : r > q /\ of'[r] = j => ran'[r] = 0
      BY <3>1 DEF AheadOk
    <3>3. /\ ran[q] = 0 /\ of[q] = j
          /\ \A r \in Req : r > q /\ of[r] = j => ran[r] = 0
      BY <1>3 DEF AheadOk
    <3> HIDE DEF p
    <3> QED BY <1>2, <1>6, <3>2, <3>3
  <2> QED BY <2>1, <2>2
<1>10. call[p] # "none"
  BY <1>1, <1>5 DEF Ordered, CallsMade, None
<1>11. CallsMade' /\ RanOnce'
  <2> HIDE DEF p
  <2>1. CallsMade' BY <1>2, <1>6, <1>10 DEF Ordered, CallsMade
  <2>2. RanOnce' BY <1>1, <1>2, <1>6 DEF Ordered, RanOnce
  <2> QED BY <2>1, <2>2
<1> QED BY <1>8, <1>9, <1>11 DEF Ordered

(* A new call is the latest of its session, whether it is queued, handed   *)
(* to a poll, or lost with a poll that nobody listens to.                  *)
LEMMA CallOrdered ==
  ASSUME Typed, NoneWaitsOnNone, Ordered, NEW r \in Req, Call(r)
  PROVE  Ordered'
<1>0. PICK k \in Conn : k = session BY DEF Call, Typed, ServerTyped
<1>1. /\ k \in Conn /\ r \in Nat \ {0}
      /\ call[r] = "none" /\ of[r] = None /\ ran[r] = 0
      /\ \A q \in Req : q < r => call[q] # "none"
  BY <1>0 DEF Call, Typed, ServerTyped, Ordered, CallsMade
<1>2. /\ call' = [call EXCEPT ![r] = "pending"] /\ of' = [of EXCEPT ![r] = k]
      /\ UNCHANGED <<loop, serving, ran>>
      /\ call \in [Req -> CallStates] /\ of \in [Req -> Conn \cup {None}]
  BY <1>0 DEF Call, clientVars, Typed, ServerTyped
<1>3. \A j \in Conn : Orderly(j) /\ AheadOk(j) BY DEF Ordered
<1>4. CallsMade BY DEF Ordered
<1>5. \A q \in Req : of[q] # None => q < r
  <2> SUFFICES ASSUME NEW q \in Req, of[q] # None PROVE q < r OBVIOUS
  <2>1. call[q] # "none" BY <1>4 DEF CallsMade
  <2>2. ~(r < q) BY <1>1, <1>4, <2>1 DEF CallsMade
  <2>3. q # r BY <1>1
  <2> QED BY <1>1, <2>2, <2>3
<1>6. \A q \in Req : q # r => of'[q] = of[q] /\ call'[q] = call[q] BY <1>2
<1>7. of'[r] = k /\ call'[r] = "pending" BY <1>1, <1>2
<1>8. CallsMade' /\ RanOnce'
  <2>1. RanOnce BY DEF Ordered
  <2>2. RanOnce' BY <1>2, <1>6, <1>7, <2>1 DEF RanOnce
  <2>3. CallsMade' BY <1>1, <1>2, <1>4, <1>6, <1>7 DEF CallsMade
  <2> QED BY <2>2, <2>3
<1>9. ServerTyped BY DEF Typed
<1>10. ASSUME NEW j \in Conn, j # k PROVE Orderly(j)' /\ AheadOk(j)'
  <2>1. queue'[j] = queue[j] /\ answer'[j] = answer[j]
    BY <1>0, <1>9, <1>10 DEF Call, ServerTyped
  <2>2. Orderly(j)' BY <1>2, <1>3, <2>1 DEF Orderly
  <2>3. Ahead(j)' = Ahead(j) BY <1>2, <2>1 DEF Ahead
  <2>4. \A q \in Req : of'[q] = j <=> of[q] = j BY <1>1, <1>6, <1>7, <1>10 DEF None
  <2>5. AheadOk(j)' BY <1>2, <1>3, <2>3, <2>4 DEF AheadOk
  <2> QED BY <2>2, <2>5
<1>11. \A q \in Ahead(k) \cap Req : of[q] = k /\ of[q] # None /\ q < r
  BY <1>1, <1>3, <1>5 DEF AheadOk, None
<1>12. ASSUME Ahead(k)' \subseteq Ahead(k) \cup {r} PROVE AheadOk(k)'
  <2> SUFFICES ASSUME NEW q \in Ahead(k)' \cap Req
               PROVE  /\ ran[q] = 0 /\ of'[q] = k
                      /\ \A m \in Req : m > q /\ of'[m] = k => ran[m] = 0
    BY <1>2 DEF AheadOk
  <2>1. CASE q = r
    <3>1. \A m \in Req : m > r => of'[m] # k
      <4> SUFFICES ASSUME NEW m \in Req, m > r, of'[m] = k PROVE FALSE OBVIOUS
      <4>1. m # r /\ of[m] = k /\ of[m] # None BY <1>1, <1>6 DEF None
      <4>2. m < r BY <1>5, <4>1
      <4> QED BY <1>1, <4>2
    <3> QED BY <1>1, <1>7, <2>1, <3>1
  <2>2. CASE q # r
    <3>1. q \in Ahead(k) \cap Req BY <1>12, <2>2
    <3>2. ran[q] = 0 /\ of[q] = k /\ \A m \in Req : m > q /\ of[m] = k => ran[m] = 0
      BY <1>1, <1>3, <3>1 DEF AheadOk
    <3> QED BY <1>1, <1>6, <2>2, <3>2
  <2> QED BY <2>1, <2>2
<1> DEFINE s == queue[k]
<1>13. s \in Seq(Req) /\ ToSet(s) = {s[i] : i \in 1..Len(s)} BY <1>1, <1>9, QueueHas DEF ServerTyped
<1>14. CASE waiters[k] = <<>>
  <2>1. queue' = [queue EXCEPT ![k] = Append(s, r)] /\ answer' = answer
    BY <1>0, <1>14 DEF Call
  <2>2. queue'[k] = Append(s, r) BY <1>1, <1>9, <2>1 DEF ServerTyped
  <2> DEFINE t == Append(s, r)
  <2>3. /\ Len(s) \in Nat /\ Len(t) = Len(s) + 1 /\ DOMAIN t = 1..Len(t)
        /\ \A i \in 1..Len(s) : t[i] = s[i] /\ s[i] \in Req
        /\ t[Len(s) + 1] = r
    <3> HIDE DEF s
    <3> QED BY <1>13
  <2>4. \A i \in 1..Len(s) : s[i] < r
    <3>1. \A i \in 1..Len(s) : s[i] \in Ahead(k) \cap Req BY <1>13, <2>3 DEF Ahead
    <3> QED BY <1>11, <3>1
  <2>5. answer[k].req < r
    <3>1. answer[k].req \in Req \cup {None} BY <1>1, <1>9, AnswerFields DEF ServerTyped
    <3>2. answer[k].req \in Ahead(k) BY DEF Ahead
    <3> QED BY <1>1, <1>11, <3>1, <3>2 DEF None
  <2>6. loop[k] = "serve" => serving[k] < r
    <3>1. loop[k] = "serve" => serving[k] \in Ahead(k) \cap Req
      BY <1>1 DEF Ahead, Typed, ClientTyped
    <3> QED BY <1>11, <3>1
  <2>7. Ahead(k)' \subseteq Ahead(k) \cup {r}
    <3>1. ToSet(t) \subseteq ToSet(s) \cup {r}
      <4>1. \A i \in DOMAIN t : i \in 1..Len(s) \/ i = Len(s) + 1 BY <2>3
      <4> HIDE DEF t, s
      <4>2. ToSet(t) = {t[i] : i \in DOMAIN t} BY DEF ToSet
      <4> QED BY <1>13, <2>3, <4>1, <4>2
    <3>2. queue'[k] = t /\ answer'[k] = answer[k] /\ loop' = loop /\ serving' = serving
      BY <1>2, <2>1, <2>2
    <3> HIDE DEF t
    <3> QED BY <3>1, <3>2 DEF Ahead
  <2>8. Orderly(k)'
    <3>2. queue'[k] = t /\ answer'[k] = answer[k] /\ loop' = loop /\ serving' = serving /\ ran' = ran
      BY <1>2, <2>1, <2>2
    <3>3. Orderly(k) BY <1>1, <1>3
    <3>4. \A i \in 1..Len(t) : i \in 1..Len(s) \/ (i = Len(s) + 1 /\ t[i] = r) BY <2>3
    <3>5. /\ \A i, j \in 1..Len(s) : i < j => s[i] < s[j]
          /\ \A i \in 1..Len(s) : answer[k].req < s[i] /\ (loop[k] = "serve" => serving[k] < s[i])
          /\ loop[k] = "reply" => ran[serving[k]] = 1
      BY <3>3 DEF Orderly
    <3> HIDE DEF t, s
    <3>6. \A i, j \in 1..Len(t) : i < j => t[i] < t[j] BY <2>3, <2>4, <3>4, <3>5
    <3>7. \A i \in 1..Len(t) : answer[k].req < t[i] /\ (loop[k] = "serve" => serving[k] < t[i])
      BY <2>3, <2>5, <2>6, <3>4, <3>5
    <3> QED BY <3>2, <3>5, <3>6, <3>7 DEF Orderly
  <2> QED BY <1>3, <1>8, <1>10, <1>12, <2>7, <2>8 DEF Ordered
<1>15. CASE waiters[k] # <<>>
  <2>1. s = <<>> /\ queue' = queue BY <1>0, <1>15 DEF NoneWaitsOnNone, Call
  <2>2. answer'[k] = answer[k] \/ answer'[k] = Handed(r)
    BY <1>0, <1>9, <1>15 DEF Call, ServerTyped
  <2>4. Orderly(k)'
    <3>1. Len(queue'[k]) = 0 /\ 1..0 = {} BY <2>1
    <3>2. loop[k] = "reply" => ran[serving[k]] = 1 BY <1>1, <1>3 DEF Orderly
    <3> QED BY <1>2, <3>1, <3>2 DEF Orderly
  <2>5. Ahead(k)' \subseteq Ahead(k) \cup {r}
    <3>1. answer'[k].req \in {answer[k].req, r} BY <2>2, AnswerFields
    <3> QED BY <1>2, <2>1, <3>1 DEF Ahead
  <2> QED BY <1>3, <1>8, <1>10, <1>12, <2>4, <2>5 DEF Ordered
<1> QED BY <1>14, <1>15

(* Every step keeps the order.                                             *)
LEMMA OrderedStep ==
  ASSUME Typed, NoneWaitsOnNone, Ordered, Next PROVE Ordered'
<1>0. ClientTyped /\ ServerTyped BY DEF Typed
<1> DEFINE Settled ==
             \A r \in Req : /\ call'[r] = "none" <=> call[r] = "none"
                            /\ call'[r] = "answered" => call[r] = "answered"
           Loops == \A k \in Conn : loop'[k] \in {"serve", "reply"} => loop'[k] = loop[k]
<1>1. ASSUME \A k \in Conn : Fewer(k), Settled, ran' = ran, of' = of PROVE Ordered'
  BY <1>0, <1>1, OrderedSame
<1>2. ASSUME Loops, serving' = serving, ran' = ran, of' = of, call' = call,
             \A k \in Conn : queue'[k] = queue[k],
             \A k \in Conn : answer'[k] = answer[k] \/ answer'[k].req = None
      PROVE  Ordered'
  <2>1. \A k \in Conn : Fewer(k) BY <1>2 DEF Fewer
  <2> QED BY <1>1, <1>2, <2>1
<1>3. ASSUME NEW s \in Conn, Closed(s), Loops, serving' = serving, ran' = ran, of' = of
      PROVE  Ordered'
  BY <1>0, <1>1, <1>3, CloseFewer
<1>4. ASSUME NEW s \in Conn \cup {None}, ReplaceSession(s), Loops,
             serving' = serving, ran' = ran, of' = of
      PROVE  Ordered'
  <2>1. CASE session = None
    BY <1>2, <1>4, <2>1 DEF ReplaceSession
  <2>2. CASE session # None
    <3>1. session \in Conn /\ Closed(session) BY <1>0, <1>4, <2>2, ReplaceIs
    <3> QED BY <1>3, <1>4, <3>1
  <2> QED BY <2>1, <2>2
<1>5. ASSUME NEW k \in Conn,
             \/ Connect(k) \/ Install(k) \/ LoopEnds(k) \/ PollUnsent(k) \/ PollFails(k)
             \/ CloseLost(k) \/ Expire(k)
      PROVE  Ordered'
  <2>1. Loops
    BY <1>0, <1>5 DEF Connect, Install, LoopEnds, PollUnsent, PollFails, CloseLost, Expire,
                    Goto, clientVars, ClientTyped
  <2>2. UNCHANGED <<serving, ran, of, call, queue, answer>>
    BY <1>5 DEF Connect, Install, LoopEnds, PollUnsent, PollFails, CloseLost, Expire,
                clientVars, serverVars
  <2> QED BY <1>2, <2>1, <2>2
<1>6. ASSUME NEW k \in Conn, Open(k) \/ OpenFails(k) \/ Close(k) PROVE Ordered'
  <2>1. Loops BY <1>0, <1>6 DEF Open, OpenFails, Close, Goto, clientVars, ClientTyped
  <2>2. UNCHANGED <<serving, ran, of>> BY <1>6 DEF Open, OpenFails, Close, clientVars
  <2>3. CASE \E s \in Conn \cup {None} : ReplaceSession(s) BY <1>4, <2>1, <2>2, <2>3
  <2>4. CASE UNCHANGED <<queue, answer, call>> BY <1>2, <2>1, <2>2, <2>4
  <2> QED BY <1>6, <2>3, <2>4 DEF Open, OpenFails, Close
<1>7. CASE FindDead \/ ServerDisconnect
  <2>1. /\ ReplaceSession(None) /\ UNCHANGED <<loop, serving, ran, of>>
    BY <1>7 DEF FindDead, ServerDisconnect, clientVars
  <2> QED BY <1>4, <2>1
<1>8. CASE Disconnect \/ Stop \/ Start
  <2>1. UNCHANGED <<loop, serving, ran, of, call, queue, answer>>
    BY <1>8 DEF Disconnect, Stop, Start, serverVars
  <2> QED BY <1>2, <2>1
<1>9. ASSUME NEW r \in Req, TimesOut(r) PROVE Ordered'
  <2>1. UNCHANGED <<loop, serving, ran, of, queue, answer>>
    BY <1>9 DEF TimesOut, clientVars
  <2>2. Settled BY <1>0, <1>9 DEF TimesOut, ServerTyped
  <2>3. \A k \in Conn : Fewer(k) BY <2>1 DEF Fewer
  <2> QED BY <1>1, <2>1, <2>2, <2>3
<1>10. CASE ServerRestart
  <2>1. UNCHANGED <<serving, ran, of>> BY <1>10 DEF ServerRestart
  <2>2. Settled BY <1>0, <1>10 DEF ServerRestart, ServerTyped
  <2>3. \A k \in Conn : Fewer(k)
    BY <1>0, <1>10, AnswerFields DEF ServerRestart, Fewer, ClientTyped
  <2> QED BY <1>1, <2>1, <2>2, <2>3
<1>11. ASSUME NEW k \in Conn, WaitEnds(k) \/ PollLost(k) PROVE Ordered'
  <2>1. UNCHANGED <<loop, serving, ran, of, queue, call>>
    BY <1>11 DEF WaitEnds, PollLost, clientVars
  <2>2. \A j \in Conn : answer'[j] = answer[j] \/ answer'[j].req = None
    BY <1>0, <1>11, AnswerFields DEF WaitEnds, PollLost, ServerTyped
  <2> QED BY <1>2, <2>1, <2>2
<1>12. ASSUME NEW k \in Conn, PollExpired(k) PROVE Ordered'
  <2>1. Closed(k) /\ UNCHANGED <<serving, ran, of>> BY <1>0, <1>12, CloseIs DEF PollExpired
  <2>2. Loops BY <1>0, <1>12 DEF PollExpired, Goto, ClientTyped
  <2> QED BY <1>3, <2>1, <2>2
<1>13. ASSUME NEW k \in Conn,
              Orderly(k)' /\ AheadOk(k)', \A j \in Conn \ {k} : Fewer(j),
              call' = call, ran' = ran, of' = of
       PROVE  Ordered'
  <2>1. CallsMade' /\ RanOnce' BY <1>13, CallsSame DEF Ordered
  <2>2. \A j \in Conn : Orderly(j)' /\ AheadOk(j)' BY <1>0, <1>13, FewerOk DEF Ordered
  <2> QED BY <2>1, <2>2 DEF Ordered
<1>14. ASSUME NEW k \in Conn, Poll(k) PROVE Ordered'
  <2>1. UNCHANGED <<serving, ran, of, call>> /\ loop' = [loop EXCEPT ![k] = "polling"]
        /\ loop[k] = "poll"
    BY <1>14 DEF Poll, Goto
  <2>2. Loops BY <1>0, <2>1 DEF ClientTyped
  <2>3. CASE /\ queue[k] # <<>>
             /\ answer' = [answer EXCEPT ![k] = Handed(Head(queue[k]))]
             /\ queue' = [queue EXCEPT ![k] = Tail(@)]
    <3>1. /\ loop'[k] = "polling" /\ queue'[k] = Tail(queue[k])
          /\ answer'[k] = Handed(Head(queue[k]))
      BY <1>0, <2>1, <2>3 DEF ClientTyped, ServerTyped
    <3>2. Orderly(k)' /\ AheadOk(k)' BY <2>1, <2>3, <3>1, HandedOnOk
    <3>3. \A j \in Conn \ {k} : Fewer(j)
      BY <1>0, <2>1, <2>3 DEF Fewer, ClientTyped, ServerTyped
    <3> QED BY <1>13, <2>1, <3>2, <3>3
  <2>4. CASE queue' = queue /\ (answer' = answer \/ answer' = [answer EXCEPT ![k] = Invalid])
    <3>1. \A j \in Conn : answer'[j] = answer[j] \/ answer'[j].req = None
      BY <1>0, <2>4, AnswerFields DEF ServerTyped
    <3> QED BY <1>2, <2>1, <2>2, <2>4, <3>1
  <2> QED BY <1>14, <2>3, <2>4 DEF Poll
<1>15. ASSUME NEW k \in Conn, Answered(k) PROVE Ordered'
  <2>1. answer' = [answer EXCEPT ![k] = NoAnswer] /\ UNCHANGED <<queue, ran, of, call>>
    BY <1>15 DEF Answered, serverVars
  <2>2. answer[k] \in Answers BY <1>0 DEF ServerTyped
  <2>3. CASE answer[k].kind = "request"
    <3>1. loop' = [loop EXCEPT ![k] = "serve"] /\ serving' = [serving EXCEPT ![k] = answer[k].req]
      BY <1>15, <2>3 DEF Answered, Goto
    <3>2. answer[k].req \in Req BY <2>2, <2>3, AnswerFields
    <3>3. /\ loop'[k] = "serve" /\ serving'[k] = answer[k].req
          /\ answer'[k] = NoAnswer /\ queue'[k] = queue[k]
      BY <1>0, <2>1, <3>1 DEF ClientTyped, ServerTyped
    <3>4. Orderly(k)' /\ AheadOk(k)' BY <2>1, <2>2, <3>2, <3>3, HandedOnOk
    <3>5. \A j \in Conn \ {k} : Fewer(j)
      BY <1>0, <2>1, <3>1 DEF Fewer, ClientTyped, ServerTyped
    <3> QED BY <1>13, <2>1, <3>4, <3>5
  <2>4. CASE answer[k].kind # "request"
    <3>1. answer[k].kind \in {"noop", "invalid"} BY <1>15, <2>2, <2>4, AnswerFields DEF Answered
    <3>2. (loop' = [loop EXCEPT ![k] = "poll"] \/ loop' = [loop EXCEPT ![k] = "refused"])
          /\ serving' = serving
      BY <1>15, <3>1 DEF Answered, Goto
    <3>3. Loops BY <1>0, <3>2 DEF ClientTyped
    <3>4. \A j \in Conn : answer'[j] = answer[j] \/ answer'[j].req = None
      BY <1>0, <2>1, AnswerFields DEF ServerTyped
    <3> QED BY <1>2, <2>1, <3>2, <3>3, <3>4
  <2> QED BY <2>3, <2>4
<1>16. ASSUME NEW k \in Conn, Serve(k) PROVE Ordered' BY <1>16, ServeOrdered
<1>17. ASSUME NEW k \in Conn, Reply(k) \/ ReplyFails(k) PROVE Ordered'
  <2> DEFINE p == serving[k]
  <2>1. /\ loop[k] = "reply" /\ UNCHANGED <<queue, answer, ran, of>>
        /\ loop' = [loop EXCEPT ![k] = "poll"] \/ loop' = [loop EXCEPT ![k] = "refused"]
        /\ serving' = [serving EXCEPT ![k] = None]
        /\ call' = call \/ (call[p] = "pending" /\ call' = [call EXCEPT ![p] = "answered"])
    BY <1>17 DEF Reply, ReplyFails, Resolve, Goto, Pending
  <2>2. p \in Req /\ ran[p] = 1 BY <1>0, <2>1 DEF ClientTyped, Ordered, Orderly
  <2>3. \A j \in Conn : Fewer(j) BY <1>0, <2>1 DEF Fewer, ClientTyped
  <2>4. \A j \in Conn : Orderly(j)' /\ AheadOk(j)' BY <1>0, <2>1, <2>3, FewerOk DEF Ordered
  <2>5. \A r \in Req : /\ call'[r] = "none" <=> call[r] = "none"
                       /\ call'[r] = "answered" => call[r] = "answered" \/ r = p
    <3> HIDE DEF p
    <3> QED BY <1>0, <2>1, <2>2 DEF ServerTyped
  <2>6. CallsMade' /\ RanOnce'
    <3> HIDE DEF p
    <3>1. CallsMade' BY <2>1, <2>5 DEF Ordered, CallsMade
    <3>2. RanOnce' BY <2>1, <2>2, <2>5 DEF Ordered, RanOnce
    <3> QED BY <3>1, <3>2
  <2> QED BY <2>4, <2>6 DEF Ordered
<1>18. ASSUME NEW r \in Req, Call(r) PROVE Ordered' BY <1>18, CallOrdered
<1> QED BY <1>5, <1>6, <1>7, <1>8, <1>9, <1>10, <1>11, <1>12, <1>14, <1>15, <1>16, <1>17, <1>18
        DEF Next, Progress

(* The first state is safe.                                                *)
LEMMA InitSafe == Init => ClosedIsQuiet /\ NoneWaitsOnNone /\ Ordered
<1> SUFFICES ASSUME Init PROVE ClosedIsQuiet /\ NoneWaitsOnNone /\ Ordered OBVIOUS
<1>1. ClosedIsQuiet /\ NoneWaitsOnNone BY DEF Init, ClosedIsQuiet, NoneWaitsOnNone, Pending
<1>2. CallsMade /\ RanOnce BY DEF Init, CallsMade, RanOnce
<1>3. ASSUME NEW k \in Conn PROVE Orderly(k) /\ AheadOk(k)
  <2>1. Orderly(k) BY DEF Init, Orderly
  <2>2. ToSet(queue[k]) = {} BY DEF Init, ToSet
  <2>3. Ahead(k) \cap Req = {} BY <2>2, AnswerFields DEF Init, Ahead
  <2> QED BY <2>1, <2>3 DEF AheadOk
<1> QED BY <1>1, <1>2, <1>3 DEF Ordered

(* The safety of sessions, polls and requests.                             *)
Safe == ClosedIsQuiet /\ NoneWaitsOnNone /\ Ordered

(* It holds in every reachable state.                                      *)
THEOREM AlwaysSafe == Spec => []Safe
<1>1. Init => Safe BY InitSafe DEF Safe
<1>2. Safe /\ UNCHANGED vars => Safe'
  BY DEF Safe, ClosedIsQuiet, NoneWaitsOnNone, Ordered, CallsMade, RanOnce, Orderly, AheadOk,
         Ahead, Pending, vars, clientVars, serverVars, ghosts
<1>3. Typed /\ Safe /\ Next => Safe' BY QuietStep, NoneWaitsStep, OrderedStep DEF Safe
<1> QED BY <1>1, <1>2, <1>3, AlwaysTyped, PTL DEF Spec

(* No caller and no poll waits on a session that is gone, however it       *)
(* went.                                                                   *)
THEOREM ClosedIsQuietAlways == Spec => []ClosedIsQuiet
<1>1. Safe => ClosedIsQuiet BY DEF Safe
<1> QED BY <1>1, AlwaysSafe, PTL

(* No poll waits while a request is queued in its session.                 *)
THEOREM NoneWaitsOnNoneAlways == Spec => []NoneWaitsOnNone
<1>1. Safe => NoneWaitsOnNone BY DEF Safe
<1> QED BY <1>1, AlwaysSafe, PTL

(* A request runs at most once, in the session it was made in, never       *)
(* after a later one, and a caller has a result only if its own request    *)
(* was run.                                                                *)
THEOREM RunsInOrderAlways == Spec => []RunsInOrder
<1>1. Safe => RunsInOrder BY OrderedIsInOrder DEF Safe
<1> QED BY <1>1, AlwaysSafe, PTL

-----------------------------------------------------------------------------
(* What ends a connection was said of one that had begun.                  *)
Begun ==
  /\ \A k \in told \cup closes : loop[k] \notin {"none", "opening", "saving"}
  /\ entry # None => loop[entry] \notin {"none", "opening", "saving"}
  /\ \A k \in expired : loop[k] \notin {"none", "opening"}

(* While connections are made one after another, only one is in use.       *)
OneByOne == alone => \A i, j \in Conn : Idle(i) \/ Idle(j) \/ i = j

(* Connection c stands, and nothing that would end it is under way.        *)
Holds(c) ==
  /\ session = c /\ up /\ c \notin told \cup closes \cup expired
  /\ \/ loop[c] = "saving"
     \/ entry = c /\ loop[c] \in {"poll", "polling", "serve", "reply"}
  /\ \A j \in Conn \ {c} : Idle(j)
  /\ answer[c] # Invalid

(* The connection opened last, and ended by nothing since, has its         *)
(* session in the table of the server and a loop that has not ended.       *)
LinkUp ==
  alone /\ kept # None =>
    session = kept /\ loop[kept] \in {"saving", "poll", "polling", "serve", "reply"}

(* The inductive invariant behind LinkUp.                                  *)
LinkSafe == Begun /\ OneByOne /\ (alone /\ kept # None => Holds(kept))

(* Every step keeps Begun.                                                 *)
LEMMA BegunStep == ASSUME Typed, Begun, Next PROVE Begun'
<1>0. ClientTyped /\ entry \in Conn \cup {None} /\ loop \in [Conn -> LoopStates]
  BY DEF Typed, ClientTyped
<1> USE DEF Begun
<1>1. ASSUME NEW k \in Conn, Connect(k) PROVE Begun'
  BY <1>0, <1>1 DEF Connect, Goto, ClientTyped
<1>2. ASSUME NEW k \in Conn, Open(k) \/ OpenFails(k) PROVE Begun'
  BY <1>0, <1>2 DEF Open, OpenFails, Goto, ClientTyped
<1>3. ASSUME NEW k \in Conn, Install(k) PROVE Begun'
  <2>1. CASE up
    <3>1. /\ entry' = k /\ loop' = [loop EXCEPT ![k] = "poll"] /\ loop[k] = "saving"
          /\ closes' = closes /\ expired' = expired
          /\ told' = IF entry = None THEN told ELSE told \cup {entry}
      BY <1>3, <2>1 DEF Install, Goto
    <3>2. /\ \A j \in Conn : loop'[j] = IF j = k THEN "poll" ELSE loop[j]
      BY <1>0, <3>1
    <3> QED BY <1>0, <3>1, <3>2 DEF ClientTyped
  <2>2. CASE ~up
    <3>1. /\ entry' = None /\ loop' = [loop EXCEPT ![k] = "over"] /\ loop[k] = "saving"
          /\ closes' = closes /\ expired' = expired
          /\ told' = IF entry = None THEN told ELSE told \cup {entry}
      BY <1>3, <2>2 DEF Install, Goto
    <3>2. /\ \A j \in Conn : loop'[j] = IF j = k THEN "over" ELSE loop[j]
      BY <1>0, <3>1
    <3> QED BY <1>0, <3>1, <3>2 DEF ClientTyped
  <2> QED BY <2>1, <2>2
<1>4. ASSUME NEW k \in Conn, LoopEnds(k) PROVE Begun'
  BY <1>0, <1>4 DEF LoopEnds, Goto, ClientTyped, None
<1>5. ASSUME NEW k \in Conn,
             Poll(k) \/ PollUnsent(k) \/ PollFails(k) \/ PollExpired(k)
      PROVE  Begun'
  <2>1. UNCHANGED <<entry, told, closes, expired>>
        /\ \E l \in {"poll", "polling", "refused"} : loop' = [loop EXCEPT ![k] = l]
    BY <1>5 DEF Poll, PollUnsent, PollFails, PollExpired, Goto
  <2> QED BY <1>0, <2>1 DEF ClientTyped
<1>6. ASSUME NEW k \in Conn, Serve(k) \/ Reply(k) \/ ReplyFails(k) PROVE Begun'
  <2>1. UNCHANGED <<entry, told, closes, expired>>
        /\ \E l \in {"reply", "poll", "refused"} : loop' = [loop EXCEPT ![k] = l]
    BY <1>6 DEF Serve, Reply, ReplyFails, Goto
  <2> QED BY <1>0, <2>1 DEF ClientTyped
<1>7. ASSUME NEW k \in Conn, Answered(k) PROVE Begun'
  <2>1. answer[k].kind \in {"noop", "invalid", "request"}
    BY <1>7, AnswerFields DEF Answered, Typed, ServerTyped
  <2>2. UNCHANGED <<entry, told, closes, expired>>
        /\ \E l \in {"poll", "refused", "serve"} : loop' = [loop EXCEPT ![k] = l]
    BY <1>7, <2>1 DEF Answered, Goto
  <2> QED BY <1>0, <2>2 DEF ClientTyped
<1>8. ASSUME NEW k \in Conn, PollLost(k) \/ WaitEnds(k) PROVE Begun'
  BY <1>8 DEF PollLost, WaitEnds, clientVars
<1>9. ASSUME NEW k \in Conn, Close(k) \/ CloseLost(k) \/ Expire(k) PROVE Begun'
  BY <1>9 DEF Close, CloseLost, Expire, clientVars
<1>10. ASSUME NEW r \in Req, Call(r) \/ TimesOut(r) PROVE Begun'
  BY <1>10 DEF Call, TimesOut, clientVars
<1>11. CASE FindDead \/ ServerDisconnect
  BY <1>11 DEF FindDead, ServerDisconnect, clientVars
<1>12. CASE Disconnect
  BY <1>0, <1>12 DEF Disconnect
<1>13. CASE ServerRestart
  BY <1>0, <1>13 DEF ServerRestart, ClientTyped
<1>14. CASE Stop \/ Start
  BY <1>0, <1>14 DEF Stop, Start
<1> HIDE DEF Begun
<1> QED BY <1>1, <1>2, <1>3, <1>4, <1>5, <1>6, <1>7, <1>8, <1>9, <1>10, <1>11, <1>12, <1>13, <1>14
        DEF Next, Progress

(* Every step keeps OneByOne.                                              *)
LEMMA OneByOneStep == ASSUME Typed, OneByOne, Next PROVE OneByOne'
<1>0. loop \in [Conn -> LoopStates] BY DEF Typed, ClientTyped
<1> SUFFICES ASSUME alone' PROVE (\A i, j \in Conn : Idle(i) \/ Idle(j) \/ i = j)'
  BY DEF OneByOne
<1>1. ASSUME NEW k \in Conn, Connect(k)
      PROVE  (\A i, j \in Conn : Idle(i) \/ Idle(j) \/ i = j)'
  <2>1. \A j \in Conn : Idle(j) BY <1>1 DEF Connect
  <2>2. \A j \in Conn \ {k} : loop'[j] = loop[j] BY <1>0, <1>1 DEF Connect, Goto
  <2> QED BY <2>1, <2>2 DEF Idle
<1>2. ASSUME alone, \A j \in Conn : Idle(j) => Idle(j)'
      PROVE  (\A i, j \in Conn : Idle(i) \/ Idle(j) \/ i = j)'
  <2>1. \A i, j \in Conn : Idle(i) \/ Idle(j) \/ i = j BY <1>2 DEF OneByOne
  <2> QED BY <1>2, <2>1
<1>3. CASE ~\E k \in Conn : Connect(k)
  <2>1. alone' = alone
    BY <1>3 DEF Next, Progress, Open, OpenFails, Install, LoopEnds, Poll, PollExpired, WaitEnds,
       Answered, PollUnsent, PollLost, PollFails, Serve, Reply, ReplyFails, Call, TimesOut,
       FindDead, Disconnect, Close, CloseLost, ServerDisconnect, ServerRestart, Stop, Start,
       Expire, ghosts
  <2>2. \/ loop' = loop
        \/ \E k \in Conn, l \in LoopStates : ~Idle(k) /\ loop' = [loop EXCEPT ![k] = l]
        \/ ServerRestart
    <3>1. ASSUME NEW k \in Conn,
                 Open(k) \/ OpenFails(k) \/ Install(k) \/ LoopEnds(k) \/ Poll(k)
                 \/ PollExpired(k) \/ PollUnsent(k) \/ PollFails(k) \/ Serve(k)
                 \/ Reply(k) \/ ReplyFails(k) \/ Answered(k)
          PROVE  ~Idle(k)
      BY <3>1 DEF Open, OpenFails, Install, LoopEnds, Poll, PollExpired, PollUnsent, PollFails,
         Hopeless, Serve, Reply, ReplyFails, Answered, Idle
    <3>2. ASSUME NEW k \in Conn,
                 Open(k) \/ OpenFails(k) \/ Install(k) \/ LoopEnds(k) \/ Poll(k)
                 \/ PollExpired(k) \/ PollUnsent(k) \/ PollFails(k) \/ Serve(k)
                 \/ Reply(k) \/ ReplyFails(k)
          PROVE  \E l \in LoopStates : loop' = [loop EXCEPT ![k] = l]
      BY <3>2 DEF Open, OpenFails, Install, LoopEnds, Poll, PollExpired, PollUnsent, PollFails,
         Serve, Reply, ReplyFails, Goto, LoopStates
    <3>3. ASSUME NEW k \in Conn, Answered(k)
          PROVE  \E l \in LoopStates : loop' = [loop EXCEPT ![k] = l]
      <4>1. answer[k].kind \in {"noop", "invalid", "request"}
        BY <3>3, AnswerFields DEF Answered, Typed, ServerTyped
      <4> QED BY <3>3, <4>1 DEF Answered, Goto, LoopStates
    <3>4. ASSUME NEW k \in Conn,
                 WaitEnds(k) \/ PollLost(k) \/ Close(k) \/ CloseLost(k) \/ Expire(k)
          PROVE  loop' = loop
      BY <3>4 DEF WaitEnds, PollLost, Close, CloseLost, Expire, clientVars
    <3>5. CASE FindDead \/ Disconnect \/ ServerDisconnect \/ Stop \/ Start
               \/ \E r \in Req : Call(r) \/ TimesOut(r)
      BY <3>5 DEF FindDead, Disconnect, ServerDisconnect, Stop, Start, Call, TimesOut, clientVars
    <3> QED BY <1>3, <3>1, <3>2, <3>3, <3>4, <3>5 DEF Next, Progress
  <2>3. \A j \in Conn : Idle(j) => Idle(j)'
    <3>1. CASE loop' = loop BY <3>1 DEF Idle
    <3>2. CASE \E k \in Conn, l \in LoopStates : ~Idle(k) /\ loop' = [loop EXCEPT ![k] = l]
      BY <1>0, <3>2 DEF Idle
    <3>3. CASE ServerRestart BY <1>0, <3>3 DEF ServerRestart, Idle
    <3> QED BY <2>2, <3>1, <3>2, <3>3
  <2> QED BY <1>2, <2>1, <2>3
<1> QED BY <1>1, <1>3

(* No step ends the connection opened last: no loss of a poll or a reply,  *)
(* no late close or end of an earlier connection, no session that          *)
(* expired.                                                                *)
LEMMA HoldsStep ==
  ASSUME Typed, LinkSafe, Next, alone', kept' # None PROVE Holds(kept)'
<1>0. /\ ClientTyped /\ ServerTyped /\ loop \in [Conn -> LoopStates]
      /\ answer \in [Conn -> Answers]
  BY DEF Typed, ClientTyped, ServerTyped
<1>1. ASSUME NEW k \in Conn, Open(k) PROVE Holds(kept)'
  <2>1. /\ kept' = k /\ up /\ up' = up /\ alone /\ loop[k] = "opening"
        /\ loop' = [loop EXCEPT ![k] = "saving"] /\ ReplaceSession(k)
        /\ UNCHANGED <<told, closes, expired>>
    BY <1>1 DEF Open, Goto
  <2>2. k \notin told \cup closes \cup expired BY <2>1 DEF LinkSafe, Begun
  <2>3. \A j \in Conn \ {k} : Idle(j) BY <2>1 DEF LinkSafe, OneByOne, Idle
  <2>4. answer'[k] # Invalid
    <3>1. answer[k] = NoAnswer BY <2>1 DEF Typed, PollsOnce, Once
    <3>2. answer'[k] = answer[k] \/ answer'[k] = Noop
      <4>1. CASE answer' = answer BY <4>1
      <4>2. CASE Closed(session) BY <4>2 DEF Closed
      <4> QED BY <1>0, <2>1, <4>1, <4>2, ReplaceIs
    <3> QED BY <3>1, <3>2, AnswersDiffer
  <2>5. session' = k BY <2>1 DEF ReplaceSession
  <2>6. loop'[k] = "saving" /\ \A j \in Conn \ {k} : loop'[j] = loop[j] BY <1>0, <2>1
  <2>7. Holds(k)' BY <2>1, <2>2, <2>3, <2>4, <2>5, <2>6 DEF Holds, Idle
  <2> QED BY <2>1, <2>7 DEF Holds, Idle
<1>2. ASSUME NEW k \in Conn, Connect(k) PROVE FALSE
  <2>1. /\ alone /\ kept # None /\ \A j \in Conn : Idle(j)
        /\ kept' = kept
    BY <1>2 DEF Connect, ghosts
  <2>2. Holds(kept) /\ kept \in Conn BY <1>0, <2>1 DEF LinkSafe, ClientTyped
  <2> QED BY <2>1, <2>2 DEF Holds, Idle
<1>3. ASSUME alone, kept' = kept, \A c \in Conn : Holds(c) => Holds(c)' PROVE Holds(kept)'
  <2>1. PICK c \in Conn : c = kept BY <1>0, <1>3 DEF ClientTyped
  <2>2. Holds(c) BY <1>3, <2>1 DEF LinkSafe
  <2>3. Holds(c)' BY <1>3, <2>2
  <2>4. kept' = c BY <1>3, <2>1
  <2> QED BY <2>3, <2>4 DEF Holds, Idle
<1>4. ASSUME NEW k \in Conn, Install(k) PROVE Holds(kept)'
  <2>1. /\ UNCHANGED <<up, closes, expired, session, answer, alone, kept>>
        /\ loop[k] = "saving"
        /\ told' = IF entry = None THEN told ELSE told \cup {entry}
        /\ up => entry' = k /\ loop' = [loop EXCEPT ![k] = "poll"]
    BY <1>4 DEF Install, Goto, serverVars, ghosts
  <2>2. ASSUME NEW c \in Conn, Holds(c) PROVE Holds(c)'
    <3>1. c = k BY <2>1, <2>2 DEF Holds, Idle
    <3>2. loop'[k] = "poll" /\ \A j \in Conn \ {k} : loop'[j] = loop[j]
      BY <1>0, <2>1, <2>2 DEF Holds
    <3>3. entry # k BY <1>0, <2>1 DEF LinkSafe, Begun, None
    <3>4. k \notin told' BY <2>1, <2>2, <3>1, <3>3 DEF Holds
    <3> QED BY <2>1, <2>2, <3>1, <3>2, <3>4 DEF Holds, Idle
  <2> QED BY <1>3, <2>1, <2>2
<1>5. ASSUME NEW k \in Conn, OpenFails(k) \/ LoopEnds(k) \/ PollExpired(k) PROVE Holds(kept)'
  <2>1. /\ UNCHANGED <<alone, kept>>
        /\ \/ loop[k] \in {"opening", "refused"}
           \/ loop[k] = "poll" /\ (MustEnd(k) \/ k \in expired)
    BY <1>5 DEF OpenFails, LoopEnds, PollExpired, ghosts
  <2>2. ASSUME NEW c \in Conn, Holds(c) PROVE FALSE
    <3>1. c # k => Idle(k) BY <2>2 DEF Holds
    <3>2. c = k BY <2>1, <3>1 DEF Idle
    <3> QED BY <2>1, <2>2, <3>2 DEF Holds, MustEnd
  <2> QED BY <1>3, <2>1, <2>2
<1>6. ASSUME NEW l \in {"poll", "polling", "serve", "reply"}, NEW k \in Conn,
             loop[k] \in {"poll", "polling", "serve", "reply"},
             loop' = [loop EXCEPT ![k] = l], answer'[k] # Invalid,
             \A j \in Conn \ {k} : answer'[j] = answer[j],
             UNCHANGED <<session, up, entry, told, closes, expired, alone, kept>>
      PROVE  Holds(kept)'
  <2>1. ASSUME NEW c \in Conn, Holds(c) PROVE Holds(c)'
    <3>1. c = k BY <1>6, <2>1 DEF Holds, Idle
    <3>2. loop'[k] = l /\ \A j \in Conn \ {k} : loop'[j] = loop[j] BY <1>0, <1>6
    <3> QED BY <1>6, <2>1, <3>1, <3>2 DEF Holds, Idle
  <2> QED BY <1>3, <1>6, <2>1
<1>7. ASSUME loop' = loop, UNCHANGED <<session, up, entry, told, closes, expired, alone, kept>>,
             \A j \in Conn : answer[j] # Invalid => answer'[j] # Invalid
      PROVE  Holds(kept)'
  <2>1. ASSUME NEW c \in Conn, Holds(c) PROVE Holds(c)'
    BY <1>7, <2>1 DEF Holds, Idle
  <2> QED BY <1>3, <1>7, <2>1
<1>8. ASSUME NEW k \in Conn, loop[k] \in {"poll", "polling", "serve", "reply"}, alone' = alone, kept' = kept
      PROVE  session = k /\ Holds(k)
  <2>1. PICK c \in Conn : c = kept BY <1>0, <1>8 DEF ClientTyped
  <2>2. Holds(c) BY <1>8, <2>1 DEF LinkSafe
  <2>3. c = k BY <1>8, <2>2 DEF Holds, Idle
  <2> QED BY <2>2, <2>3 DEF Holds
<1>9. ASSUME NEW k \in Conn, Poll(k) PROVE Holds(kept)'
  <2>1. /\ loop[k] = "poll" /\ loop' = [loop EXCEPT ![k] = "polling"]
        /\ UNCHANGED <<session, up, entry, told, closes, expired, alone, kept>>
    BY <1>9 DEF Poll, Goto, ghosts
  <2>2. session = k /\ Holds(k) BY <1>8, <2>1
  <2>3. answer'[k] # Invalid /\ \A j \in Conn \ {k} : answer'[j] = answer[j]
    <3>1. CASE answer' = answer BY <2>2, <3>1 DEF Holds
    <3>2. CASE queue[k] # <<>> /\ answer' = [answer EXCEPT ![k] = Handed(Head(queue[k]))]
      <4>1. Head(queue[k]) \in Req BY <1>0, <3>2 DEF ServerTyped
      <4> QED BY <1>0, <3>2, <4>1, AnswersDiffer
    <3> QED BY <1>9, <2>2, <3>1, <3>2 DEF Poll
  <2> QED BY <1>6, <2>1, <2>3
<1>10. ASSUME NEW k \in Conn, PollUnsent(k) \/ PollFails(k) PROVE Holds(kept)'
  <2>1. /\ loop[k] \in {"poll", "polling"} /\ answer' = answer
        /\ loop' = [loop EXCEPT ![k] = "polling"] \/ loop' = [loop EXCEPT ![k] = "poll"]
        /\ UNCHANGED <<session, up, entry, told, closes, expired, alone, kept>>
    BY <1>10 DEF PollUnsent, PollFails, Hopeless, Goto, serverVars, ghosts
  <2>2. answer[k] # Invalid BY <1>8, <2>1 DEF Holds
  <2> QED BY <1>6, <2>1, <2>2
<1>11. ASSUME NEW k \in Conn, Serve(k) \/ Reply(k) \/ ReplyFails(k) PROVE Holds(kept)'
  <2>1. /\ loop[k] \in {"serve", "reply"} /\ answer' = answer
        /\ UNCHANGED <<session, up, entry, told, closes, expired, alone, kept>>
    BY <1>11 DEF Serve, Reply, ReplyFails, serverVars, ghosts
  <2>2. session = k /\ answer[k] # Invalid BY <1>8, <2>1 DEF Holds
  <2>3. loop' = [loop EXCEPT ![k] = "reply"] \/ loop' = [loop EXCEPT ![k] = "poll"]
    BY <1>11, <2>2 DEF Serve, Reply, ReplyFails, Goto
  <2> QED BY <1>6, <2>1, <2>2, <2>3
<1>12. ASSUME NEW k \in Conn, Answered(k) PROVE Holds(kept)'
  <2>1. /\ loop[k] = "polling" /\ answer' = [answer EXCEPT ![k] = NoAnswer]
        /\ UNCHANGED <<session, up, entry, told, closes, expired, alone, kept>>
    BY <1>12 DEF Answered, serverVars, ghosts
  <2>2. answer[k] # Invalid BY <1>8, <2>1 DEF Holds
  <2>3. answer[k].kind \in {"noop", "request"}
    BY <1>0, <1>12, <2>2, AnswerFields DEF Answered
  <2>4. loop' = [loop EXCEPT ![k] = "poll"] \/ loop' = [loop EXCEPT ![k] = "serve"]
    BY <1>12, <2>3 DEF Answered, Goto
  <2>5. answer'[k] # Invalid /\ \A j \in Conn \ {k} : answer'[j] = answer[j]
    BY <1>0, <2>1, AnswersDiffer
  <2> QED BY <1>6, <2>1, <2>4, <2>5
<1>13. ASSUME NEW k \in Conn, PollLost(k) \/ WaitEnds(k) \/ CloseLost(k) PROVE Holds(kept)'
  <2>1. UNCHANGED <<loop, session, up, entry, told, expired, alone, kept>> /\ closes' \subseteq closes
    BY <1>13 DEF PollLost, WaitEnds, CloseLost, clientVars, serverVars, ghosts
  <2>2. \A j \in Conn : answer[j] # Invalid => answer'[j] # Invalid
    BY <1>0, <1>13, AnswersDiffer DEF PollLost, WaitEnds, CloseLost
  <2>3. ASSUME NEW c \in Conn, Holds(c) PROVE Holds(c)' BY <2>1, <2>2, <2>3 DEF Holds, Idle
  <2> QED BY <1>3, <2>1, <2>3
<1>14. ASSUME NEW k \in Conn, Close(k) PROVE Holds(kept)'
  <2>1. /\ UNCHANGED <<loop, up, entry, told, expired, alone, kept>> /\ closes' \subseteq closes
        /\ k \in closes /\ (session # k => UNCHANGED <<session, answer>>)
    BY <1>14 DEF Close, clientVars, ghosts
  <2>2. ASSUME NEW c \in Conn, Holds(c) PROVE Holds(c)'
    <3>1. session # k BY <2>1, <2>2 DEF Holds
    <3> QED BY <2>1, <2>2, <3>1 DEF Holds, Idle
  <2> QED BY <1>3, <2>1, <2>2
<1>15. ASSUME NEW k \in Conn, Expire(k) PROVE Holds(kept)'
  <2>1. /\ UNCHANGED <<loop, up, entry, told, closes, session, answer, alone>>
        /\ expired' = expired \cup {k} /\ kept' = kept /\ kept # k
    BY <1>15 DEF Expire, clientVars, serverVars
  <2>2. PICK c \in Conn : c = kept BY <1>0, <2>1 DEF ClientTyped
  <2>3. Holds(c) BY <2>1, <2>2 DEF LinkSafe
  <2>4. Holds(c)' BY <2>1, <2>2, <2>3 DEF Holds, Idle
  <2>5. kept' = c BY <2>1, <2>2
  <2> QED BY <2>4, <2>5 DEF Holds, Idle
<1>16. ASSUME NEW r \in Req, Call(r) \/ TimesOut(r) PROVE Holds(kept)'
  <2>1. UNCHANGED <<loop, session, up, entry, told, closes, expired, alone, kept>>
    BY <1>16 DEF Call, TimesOut, clientVars, ghosts
  <2>2. \A j \in Conn : answer[j] # Invalid => answer'[j] # Invalid
    BY <1>0, <1>16, AnswersDiffer DEF Call, TimesOut
  <2> QED BY <1>7, <2>1, <2>2
<1>17. CASE FindDead
  <2>1. /\ session \in expired /\ UNCHANGED <<kept, alone>>
    BY <1>17 DEF FindDead
  <2>2. ASSUME NEW c \in Conn, Holds(c) PROVE FALSE BY <2>1, <2>2 DEF Holds
  <2> QED BY <1>3, <2>1, <2>2
<1>18. CASE Disconnect \/ ServerDisconnect \/ ServerRestart \/ Stop
  BY <1>18 DEF Disconnect, ServerDisconnect, ServerRestart, Stop
<1>19. CASE Start
  <2>1. ~up /\ UNCHANGED <<kept, alone>> BY <1>19 DEF Start, ghosts
  <2>2. ASSUME NEW c \in Conn, Holds(c) PROVE FALSE BY <2>1, <2>2 DEF Holds
  <2> QED BY <1>3, <2>1, <2>2
<1> QED BY <1>1, <1>2, <1>4, <1>5, <1>9, <1>10, <1>11, <1>12, <1>13, <1>14, <1>15, <1>16, <1>17,
           <1>18, <1>19 DEF Next, Progress

(* The first state is link-safe.                                           *)
LEMMA InitLink == Init => LinkSafe
BY DEF Init, LinkSafe, Begun, OneByOne, Idle, None

(* The safety half of LinkKept: while connections are made one after       *)
(* another, the one opened last stands until somebody disconnects, the     *)
(* node stops, its ttl passes, or the server restarts or gives the client  *)
(* up.                                                                     *)
THEOREM LinkIsUp == Spec => []LinkUp
<1>1. LinkSafe /\ UNCHANGED vars => LinkSafe'
  BY DEF LinkSafe, Begun, OneByOne, Holds, Idle, vars, clientVars, serverVars, ghosts
<1>2. Typed /\ LinkSafe /\ Next => LinkSafe'
  <2> SUFFICES ASSUME Typed, LinkSafe, Next PROVE LinkSafe' OBVIOUS
  <2>1. Begun' /\ OneByOne' BY BegunStep, OneByOneStep DEF LinkSafe
  <2>2. alone' /\ kept' # None => Holds(kept)' BY HoldsStep
  <2> QED BY <2>1, <2>2 DEF LinkSafe
<1>3. LinkSafe => LinkUp BY DEF LinkSafe, LinkUp, Holds
<1> QED BY <1>1, <1>2, <1>3, InitLink, AlwaysTyped, PTL DEF Spec

=============================================================================
