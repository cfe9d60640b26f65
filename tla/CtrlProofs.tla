------------------------------ MODULE CtrlProofs ------------------------------
(***************************************************************************)
(* As long as the network only loses datagrams, and neither doubles them   *)
(* nor keeps them for longer than a client waits, what a call returns is   *)
(* its own answer.                                                         *)
(***************************************************************************)
EXTENDS Ctrl, TLAPS

(* What the server sends for a request are datagrams. *)
LEMMA AnswerType ==
    ASSUME NEW d \in Datagrams
    PROVE  Answer(d) \subseteq Datagrams
BY DEF Answer, Datagrams, Mismatch, Single, Part, Datagram

LEMMA TypeInit == Init => TypeOK
<1> SUFFICES ASSUME Init PROVE TypeOK
  OBVIOUS
<1>1. NetType /\ ServerType
  BY DEF Init, NetType, ServerType
<1>2. CallType
  BY DEF Init, CallType
<1>3. ClientType
  BY SizeAssumption DEF Init, ClientType, Trials, SizeAssumption
<1> QED BY <1>1, <1>2, <1>3 DEF TypeOK

LEMMA NetTypeStep == TypeOK /\ [Next]_vars => NetType' /\ ServerType'
<1> SUFFICES ASSUME TypeOK, [Next]_vars PROVE NetType' /\ ServerType'
  OBVIOUS
<1> USE DEF TypeOK, NetType, ServerType, srvVars, netVars
<1>1. ASSUME NEW d \in net, Lose(d) \/ Refuse(d) PROVE NetType' /\ ServerType'
  BY <1>1 DEF Lose, Refuse
<1>2. CASE Start \/ Stop
  <2>1. CASE Start
    <3>1. starts' \in Nat /\ srv' \in {"up", "down"}
      BY <2>1 DEF Start
    <3> QED BY <2>1, <3>1 DEF Start
  <2>2. CASE Stop
    BY <2>2 DEF Stop
  <2> QED BY <1>2, <2>1, <2>2
<1>3. ASSUME NEW d \in net, NEW keep \in BOOLEAN, Handle(d, keep)
      PROVE  NetType' /\ ServerType'
  <2>1. Answer(d) \subseteq Datagrams
    BY AnswerType
  <2>2. net' \subseteq Datagrams
    BY <1>3, <2>1 DEF Handle, Deliver
  <2>3. served' \subseteq Clients \X Nat
    BY <1>3 DEF Handle, Datagrams
  <2> QED BY <1>3, <2>2, <2>3 DEF Handle, Deliver
<1>4. ASSUME NEW waiting \in SUBSET Requests, Quit(waiting)
      PROVE  NetType' /\ ServerType'
  BY <1>4 DEF Quit
<1>5. ASSUME NEW c \in Clients, NEW k \in Kinds, NEW l \in Lens, Call(c, k, l)
      PROVE  NetType' /\ ServerType'
  <2>1. Request(c, call[c] + 1, k, l) \in Datagrams
    BY KindAssumption, SizeAssumption
       DEF KindAssumption, SizeAssumption, Request, Datagram, Datagrams, CallType
  <2> QED BY <1>5, <2>1 DEF Call
<1>6. ASSUME NEW c \in Clients, RecvError(c) \/ Timeout(c)
      PROVE  NetType' /\ ServerType'
  BY <1>6 DEF RecvError, Timeout
<1>7. ASSUME NEW c \in Clients, NEW d \in net, NEW keep \in BOOLEAN,
             RecvOne(c, d, keep) \/ RecvSeq(c, d, keep)
      PROVE  NetType' /\ ServerType'
  BY <1>7 DEF RecvOne, RecvSeq, Deliver
<1>8. CASE UNCHANGED vars
  BY <1>8 DEF vars
<1> QED BY <1>1, <1>2, <1>3, <1>4, <1>5, <1>6, <1>7, <1>8
        DEF Next, Network, Server, Receive

LEMMA ClientTypeStep == TypeOK /\ [Next]_vars => CallType' /\ ClientType'
<1> SUFFICES ASSUME TypeOK, [Next]_vars PROVE CallType' /\ ClientType'
  OBVIOUS
<1> USE DEF TypeOK, CallType, ClientType, reqVars
<1>1. ASSUME NEW d \in net, Lose(d) \/ Refuse(d) PROVE CallType' /\ ClientType'
  BY <1>1 DEF Lose, Refuse
<1>2. CASE Start \/ Stop
  BY <1>2 DEF Start, Stop
<1>3. ASSUME NEW d \in net, NEW keep \in BOOLEAN, Handle(d, keep)
      PROVE  CallType' /\ ClientType'
  BY <1>3 DEF Handle
<1>4. ASSUME NEW waiting \in SUBSET Requests, Quit(waiting)
      PROVE  CallType' /\ ClientType'
  BY <1>4 DEF Quit
<1>5. ASSUME NEW c \in Clients, NEW k \in Kinds, NEW l \in Lens, Call(c, k, l)
      PROVE  CallType' /\ ClientType'
  <2>1. k \in {"one", "seq", "goc", "write"} /\ l \in Nat \ {0} /\ NodeMax \in Nat
    BY KindAssumption, SizeAssumption DEF KindAssumption, SizeAssumption
  <2>2. CallType'
    BY <1>5, <2>1 DEF Call
  <2>3. /\ trial' \in [Clients -> 0..Trials] /\ num' \in [Clients -> 0..NodeMax]
        /\ got' \in [Clients -> SUBSET Datagrams]
    BY <1>5, <2>1 DEF Call, Trials
  <2>4. /\ pc' \in [Clients -> {"idle", "recv"}]
        /\ outcome' \in [Clients -> {"none", "ok", "fail"}]
        /\ err' \in [Clients -> BOOLEAN]
    BY <1>5 DEF Call
  <2>5. ASSUME NEW e \in Clients, pc'[e] = "recv" PROVE trial'[e] < Trials
    BY <1>5, <2>5 DEF Call, Trials
  <2> QED BY <2>2, <2>3, <2>4, <2>5
<1>6. ASSUME NEW c \in Clients, RecvError(c) PROVE CallType' /\ ClientType'
  BY <1>6 DEF RecvError, End
<1>7. ASSUME NEW c \in Clients, Timeout(c) PROVE CallType' /\ ClientType'
  <2>1. pc[c] = "recv" /\ trial[c] + 1 \in 0..Trials
    BY <1>7 DEF Timeout, Trials
  <2>2. /\ trial' \in [Clients -> 0..Trials]
        /\ pc' \in [Clients -> {"idle", "recv"}]
        /\ outcome' \in [Clients -> {"none", "ok", "fail"}]
    BY <1>7, <2>1 DEF Timeout, CountTrial, End
  <2>3. ASSUME NEW e \in Clients, pc'[e] = "recv" PROVE trial'[e] < Trials
    BY <1>7, <2>1, <2>3 DEF Timeout, CountTrial, GivesUp, Trials, End
  <2> QED BY <1>7, <2>2, <2>3 DEF Timeout
<1>8. ASSUME NEW c \in Clients, NEW d \in net, NEW keep \in BOOLEAN,
             RecvOne(c, d, keep)
      PROVE  CallType' /\ ClientType'
  <2>1. d \in Datagrams
    BY DEF NetType
  <2> QED BY <1>8, <2>1 DEF RecvOne, End
<1>9. ASSUME NEW c \in Clients, NEW d \in net, NEW keep \in BOOLEAN,
             RecvSeq(c, d, keep)
      PROVE  CallType' /\ ClientType'
  <2>1. d \in Datagrams
    BY DEF NetType
  <2>2. CASE d.what = "md5" \/ ~Acceptable(c, d)
    BY <1>9, <2>2 DEF RecvSeq, End
  <2>3. CASE ~(d.what = "md5" \/ ~Acceptable(c, d))
    <3>1. Num(d) \in 0..NodeMax
      <4>1. 1 <= Num(d) /\ Num(d) <= NodeMax
        BY <2>3 DEF Acceptable
      <4>2. Num(d) \in Int /\ NodeMax \in Nat
        BY <2>1, SizeAssumption DEF Num, Datagrams, SizeAssumption
      <4> QED BY <4>1, <4>2
    <3>2. /\ num' \in [Clients -> 0..NodeMax]
          /\ got' \in [Clients -> SUBSET Datagrams]
          /\ trial' \in [Clients -> 0..Trials]
          /\ CallType'
      BY <1>9, <2>1, <2>3, <3>1 DEF RecvSeq, Trials
    <3>3. /\ pc' \in [Clients -> {"idle", "recv"}]
          /\ outcome' \in [Clients -> {"none", "ok", "fail"}]
          /\ err' \in [Clients -> BOOLEAN]
      BY <1>9, <2>3 DEF RecvSeq, End
    <3>4. ASSUME NEW e \in Clients, pc'[e] = "recv" PROVE trial'[e] < Trials
      BY <1>9, <2>3, <3>4 DEF RecvSeq, Trials, End
    <3> QED BY <3>2, <3>3, <3>4
  <2> QED BY <2>2, <2>3
<1>10. CASE UNCHANGED vars
  BY <1>10 DEF vars
<1> QED BY <1>1, <1>2, <1>3, <1>4, <1>5, <1>6, <1>7, <1>8, <1>9, <1>10
        DEF Next, Network, Server, Receive

(* The types of the variables of the control interface: the server and any *)
(* number of clients, however the network behaves; in particular           *)
(* client_recv tries no more than three times.                             *)
THEOREM TypeCorrect == Spec => []TypeOK
<1>1. TypeOK /\ [Next]_vars => TypeOK'
  BY NetTypeStep, ClientTypeStep DEF TypeOK
<1> QED BY TypeInit, <1>1, PTL DEF Spec

-----------------------------------------------------------------------------
(* What the proof of OwnReply assumes. The network and the server have done *)
(* what they do within the three periods that client_recv waits, or count  *)
(* as late; the clients only read, as the Python bindings do (a "write"    *)
(* has no answer that would tell when it has been handled); and no answer  *)
(* is longer than the 32 datagrams that a client takes.                    *)
Timely == Patience <= Trials
ReadOnly == "write" \notin Kinds
Short == Lens \subseteq 1..NodeMax

(* The calls are of this kind. *)
Plain(c) == kind[c] # "write" /\ len[c] <= NodeMax
AllPlain == \A c \in Clients : Plain(c)
CalmInv == TypeOK /\ AllPlain /\ AllFresh

(* Every datagram of an answer goes to the client that has asked. *)
LEMMA AnswerAddress ==
    ASSUME NEW d, NEW e \in Answer(d)
    PROVE  e.to = "client" /\ e.client = d.client
BY DEF Answer, Mismatch, Single, Part, Datagram

(* The request of a client's present call, field by field. *)
LEMMA PendingFields ==
    ASSUME NEW c \in Clients
    PROVE  /\ Pending(c).to = "server" /\ Pending(c).client = c
           /\ Pending(c).call = call[c] /\ Pending(c).what = kind[c]
           /\ Pending(c).len = len[c]
BY DEF Pending, Request, Datagram

(* The datagrams of a sequence are told apart by their ids, which eight    *)
(* bits hold.                                                              *)
LEMMA PartFields ==
    ASSUME NEW c, NEW n, NEW l \in 1..NodeMax, NEW i \in 0..(l - 1)
    PROVE  /\ Num(Part(c, n, l, i)) = l /\ Id(Part(c, n, l, i)) = i
           /\ Part(c, n, l, i).what = "part" /\ Part(c, n, l, i).len = l
           /\ Part(c, n, l, i).call = n
<1>1. NodeMax \in Nat /\ NumMod \in Nat \ {0} /\ NodeMax < NumMod
  BY SizeAssumption DEF SizeAssumption
<1>2. l % NumMod = l /\ i % NumMod = i
  BY <1>1
<1>3. /\ Part(c, n, l, i).what = "part" /\ Part(c, n, l, i).len = l
      /\ Part(c, n, l, i).call = n /\ Part(c, n, l, i).part = i
  BY DEF Part, Datagram
<1> QED BY <1>2, <1>3 DEF Num, Id

(* The answer to a client's present call, by its kind. *)
LEMMA AnswerOne ==
    ASSUME NEW c \in Clients, kind[c] = "one", c \notin Foreign
    PROVE  Answer(Pending(c)) = {Single(c, call[c])}
BY PendingFields DEF Answer

LEMMA AnswerForeign ==
    ASSUME NEW c \in Clients, c \in Foreign
    PROVE  Answer(Pending(c)) = {Mismatch(c, call[c])}
BY PendingFields DEF Answer

LEMMA AnswerSeq ==
    ASSUME NEW c \in Clients, kind[c] \in {"seq", "goc"}, c \notin Foreign
    PROVE  /\ Answer(Pending(c)) = {Part(c, call[c], len[c], i) : i \in 0..(len[c] - 1)}
           /\ Answer(Pending(c)) = Reply(c)
<1>1. kind[c] # "one" /\ kind[c] # "write"
  OBVIOUS
<1> QED BY <1>1, PendingFields DEF Answer, Reply

(* A step that does nothing to client e, and puts nothing of it on the     *)
(* network, leaves its part of the invariant.                              *)
LEMMA Frame ==
    ASSUME NEW e \in Clients, Fresh(e),
           pc'[e] = pc[e], call'[e] = call[e], kind'[e] = kind[e],
           len'[e] = len[e], num'[e] = num[e], got'[e] = got[e],
           outcome'[e] = outcome[e], err'[e] = err[e],
           \A d \in net' : d.client = e => d \in net
    PROVE  Fresh(e)'
<1>1. Pending(e)' = Pending(e)
  BY DEF Pending
<1>2. Answer(Pending(e))' = Answer(Pending(e))
  BY <1>1 DEF Answer
<1>3. Reply(e)' = Reply(e)
  BY DEF Reply
<1>4. ASSUME NEW d \in net', d.client = e
      PROVE  /\ pc'[e] = "recv" /\ ~err'[e]
             /\ d = Pending(e)' \/ d \in Answer(Pending(e))'
             /\ Pending(e)' \in net' => d = Pending(e)' /\ got'[e] = {}
  <2>1. d \in net
    BY <1>4
  <2>2. Pending(e) \in net' => Pending(e) \in net
    BY PendingFields
  <2> QED BY <1>1, <1>2, <1>4, <2>1, <2>2 DEF Fresh
<1>5. ASSUME pc'[e] = "recv"
      PROVE  /\ outcome'[e] = "none" /\ num'[e] \in {0, len'[e]}
             /\ got'[e] \subseteq Answer(Pending(e))' \ net'
  <2>1. /\ outcome[e] = "none" /\ num[e] \in {0, len[e]}
        /\ got[e] \subseteq Answer(Pending(e)) \ net
    BY <1>5 DEF Fresh
  <2>2. ASSUME NEW d \in got[e] PROVE d \notin net'
    <3>1. d \in Answer(Pending(e)) /\ d \notin net
      BY <2>1
    <3>2. d.client = e
      BY <3>1, AnswerAddress, PendingFields
    <3> QED BY <3>1, <3>2
  <2> QED BY <1>2, <2>1, <2>2
<1>6. outcome'[e] = "ok" => got'[e] = Reply(e)'
  BY <1>3 DEF Fresh
<1> QED BY <1>4, <1>5, <1>6 DEF Fresh

(* A client of whom nothing is under way and that does not wait only has   *)
(* to have returned the right answer.                                      *)
LEMMA Rest ==
    ASSUME NEW e \in Clients, \A d \in net : d.client # e, pc[e] = "idle",
           outcome[e] = "ok" => got[e] = Reply(e)
    PROVE  Fresh(e)
BY DEF Fresh

(* A request that is under way is the client's present one, and nothing    *)
(* else of that client is under way.                                       *)
LEMMA RequestAlone ==
    ASSUME CalmInv, NEW d \in Requests
    PROVE  /\ d.client \in Clients /\ d = Pending(d.client)
           /\ pc[d.client] = "recv" /\ ~err[d.client] /\ got[d.client] = {}
           /\ \A e \in net : e.client = d.client => e = d
<1>1. d \in net /\ d.to = "server" /\ d.client \in Clients
  BY DEF Requests, CalmInv, TypeOK, NetType, Datagrams
<1>2. Fresh(d.client)
  BY <1>1 DEF CalmInv, AllFresh
<1>3. d = Pending(d.client)
  BY <1>1, <1>2, AnswerAddress DEF Fresh
<1> QED BY <1>1, <1>2, <1>3 DEF Fresh

(* A datagram for a client is part of the answer to its present call.      *)
LEMMA ReplyOwn ==
    ASSUME CalmInv, NEW c \in Clients, NEW d \in For(c)
    PROVE  /\ d \in net /\ d.client = c /\ d \in Answer(Pending(c))
           /\ \A e \in net : e.client = c => e \in Answer(Pending(c))
<1>1. d \in net /\ d.to = "client" /\ d.client = c
  BY DEF For
<1>2. Fresh(c)
  BY DEF CalmInv, AllFresh
<1>3. d # Pending(c)
  BY <1>1, PendingFields
<1>4. Pending(c) \notin net
  BY <1>1, <1>2, <1>3 DEF Fresh
<1> QED BY <1>1, <1>2, <1>3, <1>4 DEF Fresh

-----------------------------------------------------------------------------
(* The steps of the network and of the server. *)

LEMMA NetworkStep == CalmInv /\ Network => AllFresh'
<1> SUFFICES ASSUME CalmInv, NEW d \in net, Lose(d) \/ Refuse(d), NEW e \in Clients
             PROVE  Fresh(e)'
  BY DEF Network, AllFresh
<1>0. Fresh(e) /\ err \in [Clients -> BOOLEAN]
  BY DEF CalmInv, AllFresh, TypeOK, ClientType
<1>1. CASE Lose(d)
  BY <1>0, <1>1, Frame DEF Lose, reqVars
<1>2. CASE Refuse(d) /\ e # d.client
  <2>1. err'[e] = err[e]
    BY <1>0, <1>2 DEF Refuse
  <2> QED BY <1>0, <1>2, <2>1, Frame DEF Refuse, reqVars
<1>3. CASE Refuse(d) /\ e = d.client
  <2>1. d \in Requests
    BY <1>3 DEF Refuse
  <2>2. \A x \in net' : x.client # e
    BY <1>3, <2>1, RequestAlone DEF Refuse
  <2>3. pc[e] = "recv"
    BY <1>3, <2>1, RequestAlone
  <2>4. /\ outcome[e] = "none" /\ num[e] \in {0, len[e]}
        /\ got[e] = {}
    BY <1>0, <1>3, <2>1, <2>3, RequestAlone DEF Fresh
  <2>5. outcome' = outcome /\ num' = num /\ got' = got /\ len' = len /\ pc' = pc
    BY <1>3 DEF Refuse, reqVars
  <2> QED BY <2>2, <2>4, <2>5 DEF Fresh
<1> QED BY <1>1, <1>2, <1>3

LEMMA ServerStep == CalmInv /\ Server /\ Calm' => AllFresh'
<1> SUFFICES ASSUME CalmInv, Server, Calm', NEW e \in Clients PROVE Fresh(e)'
  BY DEF AllFresh
<1>0. Fresh(e) /\ dup \in Nat
  BY DEF CalmInv, AllFresh, TypeOK, NetType
<1>1. CASE Start \/ Stop
  BY <1>0, <1>1, Frame DEF Start, Stop, reqVars
<1>2. ASSUME NEW waiting \in SUBSET Requests, Quit(waiting) PROVE Fresh(e)'
  BY <1>0, <1>2, Frame DEF Quit, reqVars
<1>3. ASSUME NEW d \in net, NEW keep \in BOOLEAN, Handle(d, keep) PROVE Fresh(e)'
  <2>1. d \in Requests /\ UNCHANGED <<pc, call, kind, len, num, got, outcome, err>>
    BY <1>3 DEF Handle, reqVars
  <2>2. net' = (net \ {d}) \cup Answer(d)
    <3>1. keep = FALSE
      BY <1>0, <1>3 DEF Handle, Deliver, Calm
    <3> QED BY <1>3, <3>1 DEF Handle, Deliver
  <2>3. CASE e # d.client
    <3>1. \A x \in net' : x.client = e => x \in net
      BY <2>2, <2>3, AnswerAddress
    <3> QED BY <1>0, <2>1, <3>1, Frame
  <2>4. CASE e = d.client
    <3>1. d = Pending(e) /\ pc[e] = "recv" /\ ~err[e] /\ got[e] = {}
      BY <2>1, <2>4, RequestAlone
    <3>2. \A x \in net' : x.client = e => x \in Answer(Pending(e))
      BY <2>1, <2>2, <2>4, <3>1, RequestAlone
    <3>3. Pending(e) \notin net'
      BY <2>2, <3>1, PendingFields, AnswerAddress
    <3>4. outcome[e] = "none" /\ num[e] \in {0, len[e]}
      BY <1>0, <3>1 DEF Fresh
    <3>5. Pending(e)' = Pending(e) /\ Answer(Pending(e))' = Answer(Pending(e))
      BY <2>1 DEF Pending, Answer
    <3> QED BY <2>1, <3>1, <3>2, <3>3, <3>4, <3>5 DEF Fresh
  <2> QED BY <2>3, <2>4
<1> QED BY <1>1, <1>2, <1>3 DEF Server

(* A new call: nothing of an earlier one is left. *)
LEMMA CallStep ==
    ASSUME ReadOnly, NEW c \in Clients, NEW k \in Kinds, NEW l \in Lens
    PROVE  CalmInv /\ Call(c, k, l) => AllFresh'
<1> SUFFICES ASSUME CalmInv, Call(c, k, l), NEW e \in Clients PROVE Fresh(e)'
  BY DEF AllFresh
<1>0. /\ Fresh(e)
      /\ call \in [Clients -> Nat] /\ kind \in [Clients -> {"one", "seq", "goc", "write"}]
      /\ len \in [Clients -> Nat \ {0}] /\ num \in [Clients -> 0..NodeMax]
      /\ pc \in [Clients -> {"idle", "recv"}] /\ got \in [Clients -> SUBSET Datagrams]
      /\ outcome \in [Clients -> {"none", "ok", "fail"}] /\ err \in [Clients -> BOOLEAN]
  BY DEF CalmInv, AllFresh, TypeOK, CallType, ClientType
<1>1. k # "write"
  BY DEF ReadOnly
<1>r. /\ Request(c, call[c] + 1, k, l).client = c
      /\ Request(c, call[c] + 1, k, l).to = "server"
  BY DEF Request, Datagram
<1>2. CASE e # c
  <2>1. \A x \in net' : x.client = e => x \in net
    BY <1>2, <1>r DEF Call
  <2>2. /\ pc'[e] = pc[e] /\ call'[e] = call[e] /\ kind'[e] = kind[e]
        /\ len'[e] = len[e]
    BY <1>0, <1>2 DEF Call
  <2>3. /\ num'[e] = num[e] /\ got'[e] = got[e]
        /\ outcome'[e] = outcome[e] /\ err'[e] = err[e]
    BY <1>0, <1>2 DEF Call
  <2> QED BY <1>0, <2>1, <2>2, <2>3, Frame
<1>3. CASE e = c
  <2>1. \A x \in net : x.client # c
    BY <1>0, <1>3 DEF Call, Fresh
  <2>2. CASE err[c]
    <3>1. net' = net /\ pc'[c] = "idle" /\ outcome'[c] = "fail"
      BY <1>0, <2>2 DEF Call
    <3> QED BY <1>3, <2>1, <3>1 DEF Fresh
  <2>3. CASE ~err[c]
    <3>1. Pending(c)' = Request(c, call[c] + 1, k, l)
      BY <1>0 DEF Call, Pending
    <3>2. /\ net' = net \cup {Pending(c)'} /\ pc'[c] = "recv" /\ ~err'[c]
          /\ outcome'[c] = "none" /\ num'[c] = 0 /\ got'[c] = {}
      BY <1>0, <1>1, <2>3, <3>1 DEF Call
    <3> QED BY <1>3, <2>1, <3>2 DEF Fresh
  <2> QED BY <2>2, <2>3
<1> QED BY <1>2, <1>3

-----------------------------------------------------------------------------
(* The steps of a client that waits. *)

(* Whatever one client receives, the others keep their part.               *)
LEMMA OthersKeep ==
    ASSUME CalmInv, NEW c \in Clients, NEW e \in Clients, e # c,
           UNCHANGED <<call, kind, len>>, net' \subseteq net,
           pc'[e] = pc[e], num'[e] = num[e], got'[e] = got[e],
           outcome'[e] = outcome[e], err'[e] = err[e]
    PROVE  Fresh(e)'
<1>1. Fresh(e)
  BY DEF CalmInv, AllFresh
<1> QED BY <1>1, Frame

LEMMA RecvErrorStep ==
    ASSUME NEW c \in Clients
    PROVE  CalmInv /\ RecvError(c) => AllFresh'
<1> SUFFICES ASSUME CalmInv, RecvError(c), NEW e \in Clients PROVE Fresh(e)'
  BY DEF AllFresh
<1>0. /\ Fresh(e) /\ pc \in [Clients -> {"idle", "recv"}]
      /\ outcome \in [Clients -> {"none", "ok", "fail"}] /\ err \in [Clients -> BOOLEAN]
  BY DEF CalmInv, AllFresh, TypeOK, ClientType
<1>1. CASE e # c
  BY <1>0, <1>1, OthersKeep DEF RecvError, End, reqVars
<1>2. CASE e = c
  <2>1. \A x \in net : x.client # e
    BY <1>0, <1>2 DEF RecvError, Fresh
  <2>2. net' = net /\ pc'[e] = "idle" /\ outcome'[e] = "fail"
    BY <1>0, <1>2 DEF RecvError, End
  <2> QED BY <2>1, <2>2 DEF Fresh
<1> QED BY <1>1, <1>2

(* The client gives up only when nothing of the call is under way.         *)
LEMMA TimeoutStep ==
    ASSUME Timely, NEW c \in Clients
    PROVE  CalmInv /\ Timeout(c) /\ Calm' => AllFresh'
<1> SUFFICES ASSUME CalmInv, Timeout(c), Calm', NEW e \in Clients PROVE Fresh(e)'
  BY DEF AllFresh
<1>0. /\ Fresh(e) /\ pc \in [Clients -> {"idle", "recv"}] /\ late \in Nat
      /\ outcome \in [Clients -> {"none", "ok", "fail"}]
      /\ trial \in [Clients -> 0..Trials] /\ Patience \in Nat
  BY BoundAssumption
     DEF CalmInv, AllFresh, TypeOK, NetType, ClientType, BoundAssumption
<1>u. UNCHANGED <<net, call, kind, len, num, got, err>>
  BY DEF Timeout, reqVars
<1>1. CASE e # c
  BY <1>0, <1>1, <1>u, OthersKeep DEF Timeout, End
<1>2. CASE e = c /\ ~GivesUp(trial[c] + 1)
  BY <1>0, <1>2, <1>u, Frame DEF Timeout
<1>3. CASE e = c /\ GivesUp(trial[c] + 1)
  <2>1. ~Overdue(c)
    BY <1>0 DEF Timeout, Calm
  <2>2. trial[c] + 1 >= Patience
    BY <1>0, <1>3 DEF GivesUp, Timely, Trials
  <2>3. \A x \in net : x.client # c
    BY <2>1, <2>2 DEF Overdue, UnderWay
  <2>4. pc'[e] = "idle" /\ outcome'[e] = "fail"
    BY <1>0, <1>3 DEF Timeout, End
  <2> QED BY <1>3, <1>u, <2>3, <2>4 DEF Fresh
<1> QED BY <1>1, <1>2, <1>3

(* A one-datagram answer leaves nothing behind.                            *)
LEMMA RecvOneStep ==
    ASSUME NEW c \in Clients, NEW d \in net, NEW keep \in BOOLEAN
    PROVE  CalmInv /\ RecvOne(c, d, keep) /\ Calm' => AllFresh'
<1> SUFFICES ASSUME CalmInv, RecvOne(c, d, keep), Calm', NEW e \in Clients PROVE Fresh(e)'
  BY DEF AllFresh
<1>0. /\ Fresh(e) /\ dup \in Nat /\ pc \in [Clients -> {"idle", "recv"}]
      /\ outcome \in [Clients -> {"none", "ok", "fail"}]
      /\ got \in [Clients -> SUBSET Datagrams]
  BY DEF CalmInv, AllFresh, TypeOK, NetType, ClientType
<1>1. net' = net \ {d} /\ d \in For(c) /\ kind[c] = "one"
  <2>1. keep = FALSE
    BY <1>0 DEF RecvOne, Deliver, Calm
  <2> QED BY <2>1 DEF RecvOne, Deliver
<1>2. UNCHANGED <<call, kind, len, num, err>>
  BY DEF RecvOne, reqVars
<1>3. CASE e # c
  BY <1>0, <1>1, <1>2, <1>3, OthersKeep DEF RecvOne, End
<1>4. CASE e = c
  <2>1. \E x : Answer(Pending(c)) = {x}
    BY <1>1, AnswerOne, AnswerForeign
  <2>2. \A x \in net' : x.client # c
    BY <1>1, <2>1, ReplyOwn
  <2>3. pc'[c] = "idle"
    BY <1>0 DEF RecvOne, End
  <2>4. outcome'[c] = "ok" => got'[c] = Reply(c)
    <3>1. SUFFICES ASSUME outcome'[c] = "ok" PROVE got'[c] = Reply(c)
      OBVIOUS
    <3>2. d.what # "md5" /\ got'[c] = {d}
      BY <1>0, <3>1 DEF RecvOne, End
    <3>3. c \notin Foreign
      <4>1. Mismatch(c, call[c]).what = "md5"
        BY DEF Mismatch, Datagram
      <4> QED BY <1>1, <3>2, <4>1, ReplyOwn, AnswerForeign
    <3>4. d = Single(c, call[c])
      BY <1>1, <3>3, ReplyOwn, AnswerOne
    <3> QED BY <1>1, <3>2, <3>4 DEF Reply
  <2>5. Reply(c)' = Reply(c)
    BY <1>2 DEF Reply
  <2> QED BY <1>4, <2>2, <2>3, <2>4, <2>5 DEF Fresh
<1> QED BY <1>3, <1>4

(* A sequence is accepted datagram by datagram, and when all the ids are   *)
(* there the array is the answer and nothing of it is left.                *)
LEMMA RecvSeqStep ==
    ASSUME NEW c \in Clients, NEW d \in net, NEW keep \in BOOLEAN
    PROVE  CalmInv /\ RecvSeq(c, d, keep) /\ Calm' => AllFresh'
<1> SUFFICES ASSUME CalmInv, RecvSeq(c, d, keep), Calm', NEW e \in Clients PROVE Fresh(e)'
  BY DEF AllFresh
<1>0. /\ Fresh(c) /\ dup \in Nat /\ pc \in [Clients -> {"idle", "recv"}]
      /\ outcome \in [Clients -> {"none", "ok", "fail"}]
      /\ got \in [Clients -> SUBSET Datagrams] /\ num \in [Clients -> 0..NodeMax]
      /\ len \in [Clients -> Nat \ {0}]
  BY DEF CalmInv, AllFresh, TypeOK, NetType, CallType, ClientType
<1>1. /\ net' = net \ {d} /\ d \in For(c) /\ kind[c] \in {"seq", "goc"}
      /\ pc[c] = "recv" /\ ~err[c]
  <2>1. keep = FALSE
    BY <1>0 DEF RecvSeq, Deliver, Calm
  <2> QED BY <2>1 DEF RecvSeq, Deliver
<1>2. UNCHANGED <<call, kind, len, err>>
  BY DEF RecvSeq, reqVars
<1>n. num[c] \in {0, len[c]} /\ got[c] \subseteq Answer(Pending(c)) \ net
  BY <1>0, <1>1 DEF Fresh
<1>3. CASE e # c
  <2>1. /\ pc'[e] = pc[e] /\ num'[e] = num[e] /\ got'[e] = got[e]
        /\ outcome'[e] = outcome[e]
    BY <1>0, <1>3 DEF RecvSeq, End
  <2> QED BY <1>1, <1>2, <1>3, <2>1, OthersKeep
<1>4. CASE e = c /\ c \in Foreign
  <2>1. d = Mismatch(c, call[c])
    BY <1>1, <1>4, ReplyOwn, AnswerForeign
  <2>2. d.what = "md5"
    BY <2>1 DEF Mismatch, Datagram
  <2>3. pc'[c] = "idle" /\ outcome'[c] = "fail"
    BY <1>0, <2>2 DEF RecvSeq, End
  <2>4. \A x \in net' : x.client # c
    BY <1>1, <1>4, <2>1, ReplyOwn, AnswerForeign
  <2> QED BY <1>4, <2>3, <2>4 DEF Fresh
<1>5. CASE e = c /\ c \notin Foreign
  <2> DEFINE P(i) == Part(c, call[c], len[c], i)
             array == got[c] \cup {d}
  <2>0. /\ Answer(Pending(c)) = {P(i) : i \in 0..(len[c] - 1)}
        /\ Answer(Pending(c)) = Reply(c)
    BY <1>1, <1>5, AnswerSeq
  <2>l. len[c] \in 1..NodeMax
    BY <1>0, SizeAssumption DEF CalmInv, AllPlain, Plain, SizeAssumption
  <2>1. \A i \in 0..(len[c] - 1) :
           Num(P(i)) = len[c] /\ Id(P(i)) = i /\ P(i).what = "part"
    BY <2>l, PartFields
  <2>a. array \subseteq Answer(Pending(c)) /\ d \in Answer(Pending(c))
    BY <1>1, <1>n, ReplyOwn
  <2>2. PICK i \in 0..(len[c] - 1) : d = P(i)
    BY <2>0, <2>a
  <2>3. Acceptable(c, d) /\ d.what # "md5" /\ Num(d) = len[c]
    <3>1. Num(d) = len[c] /\ Id(d) = i /\ d.what = "part"
      BY <2>1, <2>2
    <3>2. \A x \in got[c] : Id(x) # Id(d)
      <4> SUFFICES ASSUME NEW x \in got[c], Id(x) = Id(d) PROVE FALSE
        OBVIOUS
      <4>1. PICK j \in 0..(len[c] - 1) : x = P(j)
        BY <2>0, <2>a
      <4>2. j = i
        BY <2>1, <3>1, <4>1
      <4> QED BY <1>n, <2>2, <4>1, <4>2
    <3>3. 1 <= Num(d) /\ Num(d) <= NodeMax /\ Id(d) < Num(d)
      BY <2>l, <3>1
    <3> QED BY <1>n, <3>1, <3>2, <3>3 DEF Acceptable
  <2>4. got'[c] = array /\ num'[c] = len[c]
    BY <1>0, <2>3 DEF RecvSeq
  <2>5. /\ Pending(c)' = Pending(c) /\ Reply(c)' = Reply(c)
        /\ Answer(Pending(c))' = Answer(Pending(c))
    BY <1>2 DEF Pending, Reply, Answer
  <2>6. array \cap net' = {}
    BY <1>1, <1>n
  <2>7. \A x \in net' : x.client = c => x \in Answer(Pending(c)) /\ x \in net
    BY <1>1, ReplyOwn
  <2>8. CASE ~Whole(array, len[c])
    <3>1. pc' = pc /\ outcome' = outcome
      BY <2>3, <2>8 DEF RecvSeq
    <3>2. Pending(c) \notin net'
      <4>1. Pending(c) \notin Answer(Pending(c))
        BY PendingFields, AnswerAddress
      <4> QED BY <2>7, <4>1, PendingFields
    <3>3. outcome[c] = "none"
      BY <1>0, <1>1 DEF Fresh
    <3> QED BY <1>1, <1>2, <1>5, <2>4, <2>5, <2>6, <2>7, <2>a, <3>1, <3>2, <3>3
            DEF Fresh
  <2>9. CASE Whole(array, len[c])
    <3>1. Answer(Pending(c)) \subseteq array
      <4> SUFFICES ASSUME NEW j \in 0..(len[c] - 1) PROVE P(j) \in array
        BY <2>0
      <4>1. PICK x \in array : Id(x) = j
        BY <2>9 DEF Whole
      <4>2. PICK m \in 0..(len[c] - 1) : x = P(m)
        BY <2>0, <2>a
      <4>3. m = j
        BY <2>1, <4>1, <4>2
      <4> QED BY <4>1, <4>2, <4>3
    <3>2. \A x \in net' : x.client # c
      BY <2>6, <2>7, <3>1
    <3>3. array = Reply(c)
      BY <2>0, <2>a, <3>1
    <3>4. pc'[c] = "idle"
      BY <1>0, <2>3, <2>9 DEF RecvSeq, End
    <3> QED BY <1>5, <2>4, <2>5, <3>2, <3>3, <3>4 DEF Fresh
  <2> QED BY <2>8, <2>9
<1> QED BY <1>3, <1>4, <1>5

-----------------------------------------------------------------------------
LEMMA PlainStep ==
    ASSUME ReadOnly, Short
    PROVE  TypeOK /\ AllPlain /\ [Next]_vars => AllPlain'
<1> SUFFICES ASSUME TypeOK, AllPlain, [Next]_vars PROVE AllPlain'
  OBVIOUS
<1>0. AllPlain /\ kind \in [Clients -> {"one", "seq", "goc", "write"}]
      /\ len \in [Clients -> Nat \ {0}] /\ NodeMax \in Nat
  BY SizeAssumption DEF TypeOK, CallType, SizeAssumption
<1>1. ASSUME NEW c \in Clients, NEW k \in Kinds, NEW l \in Lens, Call(c, k, l)
      PROVE  AllPlain'
  <2>1. k # "write" /\ l \in 1..NodeMax
    BY DEF ReadOnly, Short
  <2> QED BY <1>0, <1>1, <2>1 DEF Call, AllPlain, Plain
<1>2. CASE UNCHANGED <<kind, len>>
  BY <1>0, <1>2 DEF AllPlain, Plain
<1>3. CASE Network \/ Server
  <2>1. UNCHANGED <<kind, len>>
    BY <1>3 DEF Network, Server, Lose, Refuse, Start, Stop, Handle, Quit, reqVars
  <2> QED BY <1>2, <2>1
<1>4. ASSUME NEW c \in Clients, Receive(c) PROVE AllPlain'
  <2>1. UNCHANGED <<kind, len>>
    BY <1>4 DEF Receive, RecvError, Timeout, RecvOne, RecvSeq, reqVars
  <2> QED BY <1>2, <2>1
<1>5. CASE UNCHANGED vars
  BY <1>2, <1>5 DEF vars, reqVars
<1> QED BY <1>1, <1>3, <1>4, <1>5 DEF Next

LEMMA FreshInit == Init => AllPlain /\ AllFresh
BY SizeAssumption
   DEF Init, AllPlain, Plain, AllFresh, Fresh, SizeAssumption

(* What the network has done it has done for good. *)
LEMMA CalmBefore == TypeOK /\ [Next]_vars /\ Calm' => Calm
<1> SUFFICES ASSUME TypeOK, [Next]_vars, Calm' PROVE Calm
  OBVIOUS
<1> USE DEF Calm, TypeOK, NetType, netVars
<1>1. CASE Network \/ Server
  BY <1>1 DEF Network, Server, Lose, Refuse, Start, Stop, Handle, Deliver, Quit
<1>2. ASSUME NEW c \in Clients, Receive(c) PROVE Calm
  <2>1. CASE RecvError(c)
    BY <2>1 DEF RecvError
  <2>2. CASE Timeout(c)
    <3>1. dup' = dup /\ late' = IF Overdue(c) THEN late + 1 ELSE late
      BY <2>2 DEF Timeout
    <3> QED BY <3>1
  <2>3. ASSUME NEW d \in net, NEW keep \in BOOLEAN,
               RecvOne(c, d, keep) \/ RecvSeq(c, d, keep)
        PROVE  Calm
    <3>1. late' = late /\ dup' = IF keep THEN dup + 1 ELSE dup
      BY <2>3 DEF RecvOne, RecvSeq, Deliver
    <3> QED BY <3>1
  <2> QED BY <1>2, <2>1, <2>2, <2>3 DEF Receive
<1>3. ASSUME NEW c \in Clients, NEW k \in Kinds, NEW l \in Lens, Call(c, k, l)
      PROVE  Calm
  BY <1>3 DEF Call
<1>4. CASE UNCHANGED vars
  BY <1>4 DEF vars
<1> QED BY <1>1, <1>2, <1>3, <1>4 DEF Next

LEMMA FreshStep ==
    ASSUME Timely, ReadOnly
    PROVE  CalmInv /\ [Next]_vars /\ Calm' => AllFresh'
<1> SUFFICES ASSUME CalmInv, [Next]_vars, Calm' PROVE AllFresh'
  OBVIOUS
<1>1. CASE Network \/ Server
  BY <1>1, NetworkStep, ServerStep
<1>2. ASSUME NEW c \in Clients, Receive(c) PROVE AllFresh'
  BY <1>2, RecvErrorStep, TimeoutStep, RecvOneStep, RecvSeqStep DEF Receive
<1>3. ASSUME NEW c \in Clients, NEW k \in Kinds, NEW l \in Lens, Call(c, k, l)
      PROVE  AllFresh'
  BY <1>3, CallStep
<1>4. CASE UNCHANGED vars
  BY <1>4, Frame DEF vars, reqVars, CalmInv, AllFresh
<1> QED BY <1>1, <1>2, <1>3, <1>4 DEF Next

(* The inductive invariant. *)
IInv == TypeOK /\ AllPlain /\ NothingStale

LEMMA Inductive ==
    ASSUME Timely, ReadOnly, Short
    PROVE  (Init => IInv) /\ (IInv /\ [Next]_vars => IInv')
<1>1. Init => IInv
  BY TypeInit, FreshInit DEF IInv, NothingStale
<1>2. ASSUME IInv, [Next]_vars PROVE IInv'
  <2>1. TypeOK' /\ AllPlain'
    BY <1>2, NetTypeStep, ClientTypeStep, PlainStep DEF IInv, TypeOK
  <2>2. ASSUME Calm' PROVE AllFresh'
    <3>1. CalmInv
      BY <1>2, <2>2, CalmBefore DEF IInv, NothingStale, CalmInv
    <3> QED BY <1>2, <2>2, <3>1, FreshStep
  <2> QED BY <2>1, <2>2 DEF IInv, NothingStale
<1> QED BY <1>1, <1>2

(* Nothing of an earlier call is under way or in the client's socket, for  *)
(* any number of clients of either version, calls, and starts and stops of *)
(* the server, and however many datagrams are lost.                        *)
THEOREM NothingIsStale ==
    ASSUME Timely, ReadOnly, Short
    PROVE  Spec => []NothingStale
<1>1. IInv => NothingStale
  BY DEF IInv
<1> QED BY <1>1, Inductive, PTL DEF Spec

(* What client_send_recv and client_send_recv_seq return is the whole      *)
(* answer to the very call.                                                *)
THEOREM CallsGetTheirAnswers ==
    ASSUME Timely, ReadOnly, Short
    PROVE  Spec => []OwnReply
<1>1. IInv => OwnReply
  BY DEF IInv, NothingStale, AllFresh, Fresh, OwnReply
<1> QED BY <1>1, Inductive, PTL DEF Spec
-----------------------------------------------------------------------------
(* However the network behaves: every datagram for a client, under way or   *)
(* collected, is part of the answer to a call that the server has handled.  *)
Authentic(d) == <<d.client, d.call>> \in served
Sent == \A d \in net : d.to = "client" => Authentic(d)
Collected == \A c \in Clients : \A d \in got[c] : d.client = c /\ Authentic(d)
ServedInv == Sent /\ Collected /\ GocExecuted

(* A call that waits has not returned. *)
Waits == \A c \in Clients : pc[c] = "recv" => outcome[c] = "none"

LEMMA WaitsStep == TypeOK /\ Waits /\ [Next]_vars => Waits'
<1> SUFFICES ASSUME TypeOK, Waits, [Next]_vars PROVE Waits'
  OBVIOUS
<1>0. /\ pc \in [Clients -> {"idle", "recv"}]
      /\ outcome \in [Clients -> {"none", "ok", "fail"}]
  BY DEF TypeOK, ClientType
<1>1. CASE Network \/ Server
  <2>1. UNCHANGED <<pc, outcome>>
    BY <1>1 DEF Network, Server, Lose, Refuse, Start, Stop, Handle, Quit
  <2> QED BY <2>1 DEF Waits
<1>2. ASSUME NEW c \in Clients, Receive(c) PROVE Waits'
  <2>1. UNCHANGED <<pc, outcome>> \/ \E how : End(c, how)
    BY <1>2 DEF Receive, RecvError, Timeout, RecvOne, RecvSeq
  <2> QED BY <1>0, <2>1 DEF End, Waits
<1>3. ASSUME NEW c \in Clients, NEW k \in Kinds, NEW l \in Lens, Call(c, k, l)
      PROVE  Waits'
  BY <1>0, <1>3 DEF Call, Waits
<1>4. CASE UNCHANGED vars
  BY <1>4 DEF vars, Waits
<1> QED BY <1>1, <1>2, <1>3, <1>4 DEF Next

(* The answer to a request belongs to the call that the request is from. *)
LEMMA AnswerCall ==
    ASSUME NEW d, NEW e \in Answer(d)
    PROVE  e.client = d.client /\ e.call = d.call
BY DEF Answer, Mismatch, Single, Part, Datagram

(* The array of a sequence that unpacks has the datagram with the id of the *)
(* goc call in it.                                                          *)
LEMMA WholeHasFirst ==
    ASSUME NEW c \in Clients, NEW array, NEW n \in Nat \ {0}, Whole(array, n),
           Unpacks(c, array, n), kind[c] = "goc"
    PROVE  \E d \in array : d.call = call[c]
<1>1. 0 \in 0..(n - 1)
  OBVIOUS
<1>2. PICK d \in array : Id(d) = 0
  BY <1>1 DEF Whole
<1>3. OwnId(c, d)
  BY <1>2 DEF Unpacks
<1> QED BY <1>2, <1>3 DEF OwnId

(* Steps that add to "served" at most, and nothing to the network or to what *)
(* the clients have.                                                        *)
LEMMA ServedFrame ==
    ASSUME ServedInv, served \subseteq served',
           \A d \in net' : d.to = "client" => d \in net,
           UNCHANGED <<got, outcome, kind, call>>
    PROVE  ServedInv'
<1>1. Sent'
  BY DEF ServedInv, Sent, Authentic
<1>2. Collected'
  BY DEF ServedInv, Collected, Authentic
<1>3. GocExecuted'
  BY DEF ServedInv, GocExecuted
<1> QED BY <1>1, <1>2, <1>3 DEF ServedInv

(* A client that receives keeps what is on the network in order.            *)
LEMMA ServedReceive ==
    ASSUME TypeOK, ServedInv, NEW c \in Clients, NEW d \in For(c),
           net' \subseteq net, UNCHANGED <<served, kind, call>>,
           \/ got' = got
           \/ got' = [got EXCEPT ![c] = {d}]
           \/ got' = [got EXCEPT ![c] = got[c] \cup {d}],
           \A e \in Clients : e # c => outcome'[e] = outcome[e],
           outcome'[c] = "ok" /\ kind[c] = "goc" => \E e \in got'[c] : e.call = call[c]
    PROVE  ServedInv'
<1>1. Sent'
  BY DEF ServedInv, Sent, Authentic
<1>2. d.client = c /\ Authentic(d)
  BY DEF For, ServedInv, Sent
<1>3. Collected'
  <2> SUFFICES ASSUME NEW e \in Clients, NEW x \in got'[e]
               PROVE  x.client = e /\ <<x.client, x.call>> \in served
    BY DEF Collected, Authentic
  <2>1. got \in [Clients -> SUBSET Datagrams]
    BY DEF TypeOK, ClientType
  <2>2. x \in got[e] \/ (e = c /\ x = d)
    BY <2>1
  <2> QED BY <1>2, <2>2 DEF ServedInv, Collected, Authentic
<1>4. GocExecuted'
  <2> SUFFICES ASSUME NEW e \in Clients, outcome'[e] = "ok", kind[e] = "goc"
               PROVE  <<e, call[e]>> \in served
    BY DEF GocExecuted
  <2>1. CASE e = c
    <3>1. PICK x \in got'[c] : x.call = call[c]
      BY <2>1
    <3> QED BY <1>3, <2>1, <3>1 DEF Collected, Authentic
  <2>2. CASE e # c
    BY <2>2 DEF ServedInv, GocExecuted
  <2> QED BY <2>1, <2>2
<1> QED BY <1>1, <1>3, <1>4 DEF ServedInv

LEMMA ServedNetworkServer ==
    ASSUME TypeOK, ServedInv, Network \/ Server PROVE ServedInv'
<1> USE DEF srvVars, netVars, reqVars
<1>1. ASSUME NEW d \in net, Lose(d) \/ Refuse(d) PROVE ServedInv'
  BY <1>1, ServedFrame DEF Lose, Refuse
<1>2. CASE Start \/ Stop
  BY <1>2, ServedFrame DEF Start, Stop
<1>3. ASSUME NEW waiting \in SUBSET Requests, Quit(waiting) PROVE ServedInv'
  BY <1>3, ServedFrame DEF Quit
<1>4. ASSUME NEW d \in net, NEW keep \in BOOLEAN, Handle(d, keep) PROVE ServedInv'
  <2>1. /\ served' = served \cup {<<d.client, d.call>>}
        /\ net' \subseteq net \cup Answer(d)
        /\ UNCHANGED <<got, outcome, kind, call>>
    BY <1>4 DEF Handle, Deliver
  <2>2. Sent'
    <3> SUFFICES ASSUME NEW x \in net', x.to = "client"
                 PROVE  <<x.client, x.call>> \in served'
      BY DEF Sent, Authentic
    <3>1. CASE x \in net
      BY <2>1, <3>1 DEF ServedInv, Sent, Authentic
    <3>2. CASE x \in Answer(d)
      BY <2>1, <3>2, AnswerCall
    <3> QED BY <2>1, <3>1, <3>2
  <2>3. Collected' /\ GocExecuted'
    BY <2>1 DEF ServedInv, Collected, GocExecuted, Authentic
  <2> QED BY <2>2, <2>3 DEF ServedInv
<1> QED BY <1>1, <1>2, <1>3, <1>4 DEF Network, Server

LEMMA ServedClient ==
    ASSUME TypeOK, Waits, ServedInv, NEW c \in Clients,
           Receive(c) \/ \E k \in Kinds, l \in Lens : Call(c, k, l)
    PROVE  ServedInv'
<1> USE DEF srvVars, netVars, reqVars
<1>0. /\ got \in [Clients -> SUBSET Datagrams] /\ num \in [Clients -> 0..NodeMax]
      /\ outcome \in [Clients -> {"none", "ok", "fail"}]
      /\ call \in [Clients -> Nat] /\ kind \in [Clients -> {"one", "seq", "goc", "write"}]
  BY DEF TypeOK, CallType, ClientType
<1>1. ASSUME NEW k \in Kinds, NEW l \in Lens, Call(c, k, l) PROVE ServedInv'
  <2>1. Sent'
    <3>1. Request(c, call[c] + 1, k, l).to = "server"
      BY DEF Request, Datagram
    <3>2. \A x \in net' : x.to = "client" => x \in net
      BY <1>1, <3>1 DEF Call
    <3> QED BY <1>1, <3>2 DEF Call, ServedInv, Sent, Authentic
  <2>2. got' = [got EXCEPT ![c] = {}] /\ served' = served
    BY <1>1 DEF Call
  <2>3. Collected'
    BY <1>0, <2>2 DEF ServedInv, Collected, Authentic
  <2>4. GocExecuted'
    <3> SUFFICES ASSUME NEW e \in Clients, outcome'[e] = "ok", kind'[e] = "goc"
                 PROVE  <<e, call'[e]>> \in served
      BY <2>2 DEF GocExecuted
    <3>1. e # c
      BY <1>0, <1>1 DEF Call
    <3>2. outcome'[e] = outcome[e] /\ kind'[e] = kind[e] /\ call'[e] = call[e]
      BY <1>0, <1>1, <3>1 DEF Call
    <3> QED BY <3>2 DEF ServedInv, GocExecuted
  <2> QED BY <2>1, <2>3, <2>4 DEF ServedInv
<1>2. CASE RecvError(c) \/ Timeout(c)
  <2>1. /\ UNCHANGED <<net, got, served, kind, call>>
        /\ outcome' \in {outcome, [outcome EXCEPT ![c] = "fail"]}
    BY <1>2 DEF RecvError, Timeout, End
  <2>2. Sent' /\ Collected'
    BY <2>1 DEF ServedInv, Sent, Collected, Authentic
  <2>3. GocExecuted'
    BY <1>0, <2>1 DEF ServedInv, GocExecuted
  <2> QED BY <2>2, <2>3 DEF ServedInv
<1>3. ASSUME NEW d \in net, NEW keep \in BOOLEAN, RecvOne(c, d, keep)
      PROVE  ServedInv'
  <2>1. /\ net' \subseteq net /\ d \in For(c) /\ UNCHANGED <<served, kind, call>>
        /\ got' = got \/ got' = [got EXCEPT ![c] = {d}]
        /\ kind[c] = "one"
    BY <1>3 DEF RecvOne, Deliver
  <2>2. \A e \in Clients : e # c => outcome'[e] = outcome[e]
    BY <1>0, <1>3 DEF RecvOne, End
  <2> QED BY <2>1, <2>2, ServedReceive
<1>4. ASSUME NEW d \in net, NEW keep \in BOOLEAN, RecvSeq(c, d, keep)
      PROVE  ServedInv'
  <2> DEFINE array == got[c] \cup {d}
  <2>1. /\ net' \subseteq net /\ d \in For(c) /\ UNCHANGED <<served, kind, call>>
        /\ got' = got \/ got' = [got EXCEPT ![c] = array]
    BY <1>4 DEF RecvSeq, Deliver
  <2>2. \A e \in Clients : e # c => outcome'[e] = outcome[e]
    BY <1>0, <1>4 DEF RecvSeq, End
  <2>3. ASSUME outcome'[c] = "ok", kind[c] = "goc"
        PROVE  \E e \in got'[c] : e.call = call[c]
    <3>1. outcome[c] = "none"
      BY <1>4 DEF Waits, RecvSeq
    <3>2. /\ d.what # "md5" /\ Acceptable(c, d) /\ got' = [got EXCEPT ![c] = array]
          /\ Whole(array, Num(d)) /\ Unpacks(c, array, Num(d))
      BY <1>0, <1>4, <2>3, <3>1 DEF RecvSeq, End
    <3>3. Num(d) \in Nat \ {0}
      <4>1. d \in Datagrams /\ NumMod \in Nat \ {0}
        BY SizeAssumption DEF TypeOK, NetType, SizeAssumption
      <4>2. Num(d) \in Nat
        BY <4>1 DEF Num, Datagrams
      <4> QED BY <3>2, <4>2 DEF Acceptable
    <3> QED BY <1>0, <2>3, <3>2, <3>3, WholeHasFirst
  <2> QED BY <2>1, <2>2, <2>3, ServedReceive
<1> QED BY <1>1, <1>2, <1>3, <1>4 DEF Receive

(* A goc read that returns a value has been executed by the server: the id  *)
(* of the call in the first datagram sees to it, for any number of clients, *)
(* and whatever the network loses, doubles, reorders or delays.             *)
THEOREM GocIsExecuted == Spec => []GocExecuted
<1>1. Init => Waits /\ ServedInv
  BY DEF Init, Waits, ServedInv, Sent, Collected, GocExecuted
<1>2. TypeOK /\ Waits /\ ServedInv /\ [Next]_vars => Waits' /\ ServedInv'
  <2>1. TypeOK /\ Waits /\ ServedInv /\ Next => ServedInv'
    BY ServedNetworkServer, ServedClient DEF Next
  <2>2. ServedInv /\ UNCHANGED vars => ServedInv'
    BY DEF vars, reqVars, ServedInv, Sent, Collected, GocExecuted, Authentic
  <2> QED BY <2>1, <2>2, WaitsStep
<1>3. ServedInv => GocExecuted
  BY DEF ServedInv
<1> QED BY <1>1, <1>2, <1>3, TypeCorrect, PTL DEF Spec

=============================================================================
