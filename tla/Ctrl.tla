--------------------------------- MODULE Ctrl ---------------------------------
(***************************************************************************)
(* The control interface: a server thread inside the DAQ answers requests  *)
(* of clients (nurdctrl, the Python bindings) over UDP.                    *)
(*                                                                         *)
(* A call is one request datagram. The answer is one datagram ("one": is   *)
(* online, crate info), or a numbered sequence of datagrams ("seq": crate  *)
(* array, configuration, registers, register access; "goc": a read through *)
(* GSI Pexor, which also carries the id of the call in its first           *)
(* datagram), or nothing ("write": new configuration). There is no id in   *)
(* the other answers, the client keeps its socket from call to call, and   *)
(* nothing empties it in between.                                          *)
(*                                                                         *)
(* The payload of a datagram is which part of which answer it is: the      *)
(* client's code never looks at "call", except for "goc".                  *)
(***************************************************************************)
EXTENDS Integers, FiniteSets

CONSTANTS
    Clients,    \* client processes, one socket each
    Foreign,    \* clients that were built from another version (MD5 sum)
    Kinds,      \* the kinds of calls they make
    Lens,       \* datagrams an answer may need
    NodeMax,    \* longest sequence the client takes: 32
    NumMod,     \* the length is sent in eight bits: 256
    Patience,   \* receive periods within which the network and the server do
                \* what they do at all
    MaxCalls,   \* bound: calls per client
    MaxStarts,  \* bound: starts of the server
    MaxLoss,    \* bound: datagrams lost
    MaxDup,     \* bound: datagrams duplicated
    MaxLate     \* bound: periods that the network is late

KindAssumption == /\ Foreign \subseteq Clients
                  /\ Kinds \subseteq {"one", "seq", "goc", "write"}
SizeAssumption == /\ Lens \subseteq Nat \ {0}
                  /\ NodeMax \in Nat \ {0} /\ NumMod \in Nat \ {0}
                  /\ NodeMax < NumMod
BoundAssumption == /\ Patience \in Nat /\ MaxCalls \in Nat /\ MaxStarts \in Nat
                   /\ MaxLoss \in Nat /\ MaxDup \in Nat /\ MaxLate \in Nat

ASSUME KindAssumption
ASSUME SizeAssumption
ASSUME BoundAssumption

VARIABLES
    net,     \* datagrams under way, or in a socket and not yet read
    srv,     \* the server thread: "up" or "down"
    stop,    \* ctrl_server_free has written to the pipe of the server
    starts,
    loss, dup, late,
    served,  \* the calls <<client, number>> the server has answered
    \* Clients.
    pc,      \* "idle" or "recv"
    call,    \* number of the current or latest call
    kind, len,
    trial,   \* periods client_recv has waited in vain
    num,     \* a_array->num: announced length of the sequence, 0 before
    got,     \* a_array->array: the datagrams collected
    outcome, \* of the latest call: "none", "ok", "fail"
    err      \* an error is pending on the socket: the port was closed

netVars == <<loss, dup, late>>
srvVars == <<srv, stop, starts>>
reqVars == <<call, kind, len>>
vars == <<net, srvVars, netVars, served, pc, reqVars, trial, num, got, outcome,
          err>>

FewerTrials == 2
Trials == 3

(* A datagram to or from a client: a request, or part of the answer.       *)
Datagram(to, c, n, what, l, part) ==
    [to |-> to, client |-> c, call |-> n, what |-> what, len |-> l, part |-> part]
Request(c, n, k, l) == Datagram("server", c, n, k, l, 0)
Part(c, n, l, i) == Datagram("client", c, n, "part", l, i)
Single(c, n) == Datagram("client", c, n, "one", 1, 0)
Mismatch(c, n) == Datagram("client", c, n, "md5", 1, 0)

Requests == {d \in net : d.to = "server"}
For(c) == {d \in net : d.to = "client" /\ d.client = c}

Init ==
    /\ net = {} /\ srv = "down" /\ stop = FALSE /\ starts = 0
    /\ loss = 0 /\ dup = 0 /\ late = 0 /\ served = {}
    /\ pc = [c \in Clients |-> "idle"] /\ call = [c \in Clients |-> 0]
    /\ kind = [c \in Clients |-> "one"] /\ len = [c \in Clients |-> 1]
    /\ trial = [c \in Clients |-> 0] /\ num = [c \in Clients |-> 0]
    /\ got = [c \in Clients |-> {}] /\ outcome = [c \in Clients |-> "none"]
    /\ err = [c \in Clients |-> FALSE]

-----------------------------------------------------------------------------
(* The network. *)

Lose(d) ==
    /\ d \in net /\ loss < MaxLoss
    /\ net' = net \ {d} /\ loss' = loss + 1
    /\ UNCHANGED <<srvVars, dup, late, served, pc, reqVars, trial, num, got,
                   outcome, err>>

(* Delivery takes datagram d off the network, or leaves a copy (keep). *)
Deliver(d, keep, new) ==
    /\ keep => dup < MaxDup
    /\ dup' = IF keep THEN dup + 1 ELSE dup
    /\ net' = (IF keep THEN net ELSE net \ {d}) \cup new

(* A request to a closed port comes back as an error of the client's       *)
(* socket.                                                                 *)
Refuse(d) ==
    /\ d \in Requests /\ srv = "down"
    /\ net' = net \ {d}
    /\ err' = [err EXCEPT ![d.client] = TRUE]
    /\ UNCHANGED <<srvVars, netVars, served, pc, reqVars, trial, num, got,
                   outcome>>

-----------------------------------------------------------------------------
(* The server: ctrl_server_create, server_run, ctrl_server_free. *)

Start ==
    /\ srv = "down" /\ starts < MaxStarts
    /\ srv' = "up" /\ starts' = starts + 1
    /\ UNCHANGED <<net, stop, netVars, served, pc, reqVars, trial, num, got,
                   outcome, err>>

(* send_packer_list numbers the datagrams of an answer. *)
Answer(d) ==
    IF d.client \in Foreign THEN {Mismatch(d.client, d.call)}
    ELSE IF d.what = "write" THEN {}
    ELSE IF d.what = "one" THEN {Single(d.client, d.call)}
    ELSE {Part(d.client, d.call, d.len, i) : i \in 0..(d.len - 1)}

Handle(d, keep) ==
    /\ srv = "up" /\ ~stop /\ d \in Requests
    /\ Deliver(d, keep, Answer(d))
    /\ served' = served \cup {<<d.client, d.call>>}
    /\ UNCHANGED <<srvVars, loss, late, pc, reqVars, trial, num, got, outcome,
                   err>>

Stop ==
    /\ srv = "up" /\ ~stop
    /\ stop' = TRUE
    /\ UNCHANGED <<net, srv, starts, netVars, served, pc, reqVars, trial, num, got,
                   outcome, err>>

(* event_wait prefers the pipe, a datagram without address ends server_run, *)
(* and the socket is closed with the requests that are waiting in it.      *)
Quit(waiting) ==
    /\ stop /\ waiting \subseteq Requests
    /\ srv' = "down" /\ stop' = FALSE /\ net' = net \ waiting
    /\ UNCHANGED <<starts, netVars, served, pc, reqVars, trial, num, got, outcome,
                   err>>

-----------------------------------------------------------------------------
(* The client. *)

(* A call: what is still in the socket stays there, and a pending error    *)
(* makes the send fail.                                                    *)
Call(c, k, l) ==
    /\ pc[c] = "idle" /\ call[c] < MaxCalls
    /\ call' = [call EXCEPT ![c] = @ + 1]
    /\ kind' = [kind EXCEPT ![c] = k] /\ len' = [len EXCEPT ![c] = l]
    /\ trial' = [trial EXCEPT ![c] = 0]
    /\ num' = [num EXCEPT ![c] = 0] /\ got' = [got EXCEPT ![c] = {}]
    /\ IF err[c]
       THEN /\ err' = [err EXCEPT ![c] = FALSE]
            /\ outcome' = [outcome EXCEPT ![c] = "fail"]
            /\ UNCHANGED <<net, pc>>
       ELSE /\ net' = net \cup {Request(c, call[c] + 1, k, l)}
            /\ pc' = [pc EXCEPT ![c] = IF k = "write" THEN "idle" ELSE "recv"]
            /\ outcome' = [outcome EXCEPT
                             ![c] = IF k = "write" THEN "ok" ELSE "none"]
            /\ UNCHANGED err
    /\ UNCHANGED <<srvVars, netVars, served>>

End(c, how) ==
    /\ pc' = [pc EXCEPT ![c] = "idle"]
    /\ outcome' = [outcome EXCEPT ![c] = how]

(* The numbering of datagram d as it is in the datagram, eight bits each. A *)
(* one-datagram answer has no number there.                                *)
Num(d) == IF d.what = "part" THEN d.len % NumMod ELSE 0
Id(d) == d.part % NumMod

Acceptable(c, d) ==
    /\ 1 <= Num(d) /\ Num(d) <= NodeMax /\ Id(d) < Num(d)
    /\ num[c] \in {0, Num(d)}
    /\ \A e \in got[c] : Id(e) # Id(d)

(* Once all ids are there the caller unpacks the sequence: packer_lookup   *)
(* fails if it is shorter than its contents, and goc_read compares the id  *)
(* in the first datagram with the one it has sent.                         *)
AnyId(c, d) == TRUE
OwnId(c, d) == kind[c] = "goc" => d.call = call[c]
Whole(array, n) == {Id(d) : d \in array} = 0..(n - 1)
Unpacks(c, array, n) ==
    \A d \in array : Id(d) = 0 =>
        /\ OwnId(c, d)
        /\ n >= IF kind[c] = "goc" THEN len[c] ELSE d.len

(* client_recv takes whatever datagram comes and looks at its MD5 sum ...  *)
RecvOne(c, d, keep) ==
    /\ pc[c] = "recv" /\ ~err[c] /\ kind[c] = "one" /\ d \in For(c)
    /\ Deliver(d, keep, {})
    /\ IF d.what = "md5"
       THEN End(c, "fail") /\ UNCHANGED got
       ELSE End(c, "ok") /\ got' = [got EXCEPT ![c] = {d}]
    /\ UNCHANGED <<srvVars, loss, late, served, reqVars, trial, num, err>>

(* ... and client_send_recv_seq collects datagrams by their ids.           *)
RecvSeq(c, d, keep) ==
    /\ pc[c] = "recv" /\ ~err[c] /\ kind[c] \in {"seq", "goc"} /\ d \in For(c)
    /\ Deliver(d, keep, {})
    /\ LET array == got[c] \cup {d}
       IN IF d.what = "md5" \/ ~Acceptable(c, d)
          THEN End(c, "fail") /\ UNCHANGED <<got, num, trial>>
          ELSE /\ got' = [got EXCEPT ![c] = array]
               /\ num' = [num EXCEPT ![c] = Num(d)]
               /\ trial' = [trial EXCEPT ![c] = 0]
               /\ IF Whole(array, Num(d))
                  THEN End(c, IF Unpacks(c, array, Num(d)) THEN "ok" ELSE "fail")
                  ELSE UNCHANGED <<pc, outcome>>
    /\ UNCHANGED <<srvVars, loss, late, served, reqVars, err>>

(* An error of the socket ends client_recv and the call at once. *)
RecvError(c) ==
    /\ pc[c] = "recv" /\ err[c]
    /\ err' = [err EXCEPT ![c] = FALSE]
    /\ End(c, "fail")
    /\ UNCHANGED <<net, srvVars, netVars, served, reqVars, trial, num, got>>

(* Five seconds without a datagram; the third time the call fails. The     *)
(* network is late when something is still under way after Patience of     *)
(* them.                                                                   *)
UnderWay(c) == \E d \in net : d.client = c
Overdue(c) == UnderWay(c) /\ trial[c] + 1 >= Patience
TooLate(n) == n > Trials
GivesUp(n) == n = Trials
KeepTrial(c) == trial' = [trial EXCEPT ![c] = 0]
CountTrial(c) == trial' = [trial EXCEPT ![c] = @ + 1]
Timeout(c) ==
    /\ pc[c] = "recv" /\ ~err[c]
    /\ Overdue(c) => late < MaxLate
    /\ late' = IF Overdue(c) THEN late + 1 ELSE late
    /\ CountTrial(c)
    /\ IF GivesUp(trial[c] + 1) THEN End(c, "fail")
                                ELSE UNCHANGED <<pc, outcome>>
    /\ UNCHANGED <<net, srvVars, loss, dup, served, reqVars, num, got, err>>

-----------------------------------------------------------------------------
Network == \E d \in net : Lose(d) \/ Refuse(d)
Server == \/ Start \/ Stop
          \/ \E d \in net, keep \in BOOLEAN : Handle(d, keep)
          \/ \E waiting \in SUBSET Requests : Quit(waiting)
Receive(c) == \/ RecvError(c) \/ Timeout(c)
              \/ \E d \in net, keep \in BOOLEAN :
                     RecvOne(c, d, keep) \/ RecvSeq(c, d, keep)
Next == \/ Network \/ Server
        \/ \E c \in Clients : \/ Receive(c)
                              \/ \E k \in Kinds, l \in Lens : Call(c, k, l)

Spec == Init /\ [][Next]_vars

(* A client that waits gets a datagram, an error, or the time runs out;    *)
(* what is under way arrives, is refused or gets lost.                     *)
FairSpec == /\ Spec
            /\ \A c \in Clients : WF_vars(Receive(c))
            /\ WF_vars(\E d \in net : Refuse(d))
            /\ WF_vars(\E d \in net : Handle(d, FALSE))
            /\ WF_vars(\E waiting \in SUBSET Requests : Quit(waiting))

-----------------------------------------------------------------------------
(* Properties. *)

Reply(c) == IF kind[c] = "one" THEN {Single(c, call[c])}
            ELSE {Part(c, call[c], len[c], i) : i \in 0..(len[c] - 1)}

(* Every variable holds a value of its type; client_recv tries three times *)
(* and the array has at most 32 entries.                                   *)
Datagrams == [to : {"server", "client"}, client : Clients, call : Nat,
              what : {"one", "seq", "goc", "write", "part", "md5"},
              len : Nat \ {0}, part : Nat]
NetType == /\ net \subseteq Datagrams
           /\ loss \in Nat /\ dup \in Nat /\ late \in Nat
ServerType == /\ srv \in {"up", "down"} /\ stop \in BOOLEAN /\ starts \in Nat
              /\ served \subseteq Clients \X Nat
CallType == /\ call \in [Clients -> Nat] /\ len \in [Clients -> Nat \ {0}]
            /\ kind \in [Clients -> {"one", "seq", "goc", "write"}]
ClientType == /\ pc \in [Clients -> {"idle", "recv"}]
              /\ trial \in [Clients -> 0..Trials]
              /\ \A c \in Clients : pc[c] = "recv" => trial[c] < Trials
              /\ num \in [Clients -> 0..NodeMax]
              /\ got \in [Clients -> SUBSET Datagrams]
              /\ outcome \in [Clients -> {"none", "ok", "fail"}]
              /\ err \in [Clients -> BOOLEAN]
TypeOK == NetType /\ ServerType /\ CallType /\ ClientType

(* As long as the network has doubled nothing and has not been late, what  *)
(* a call returns is the whole answer to this very call: a client never    *)
(* gives up while its answer may still come, so that no answer is left in  *)
(* the socket for the next call.                                           *)
Calm == dup = 0 /\ late = 0
OwnReply == Calm => \A c \in Clients :
    outcome[c] = "ok" /\ kind[c] # "write" => got[c] = Reply(c)

(* Why OwnReply holds: nothing of an earlier call is under way or in the    *)
(* socket, what has been collected is no longer under way, and an error of *)
(* the socket means that the request was refused and nothing will come.    *)
Pending(c) == Request(c, call[c], kind[c], len[c])
Fresh(c) ==
    /\ \A d \in net : d.client = c =>
          /\ pc[c] = "recv" /\ ~err[c]
          /\ d = Pending(c) \/ d \in Answer(Pending(c))
          /\ Pending(c) \in net => d = Pending(c) /\ got[c] = {}
    /\ pc[c] = "recv" => /\ outcome[c] = "none" /\ num[c] \in {0, len[c]}
                         /\ got[c] \subseteq Answer(Pending(c)) \ net
    /\ outcome[c] = "ok" => got[c] = Reply(c)
AllFresh == \A c \in Clients : Fresh(c)
NothingStale == Calm => AllFresh

(* Every call returns, whatever is lost, late or doubled, and also when    *)
(* there is no server.                                                     *)
CallReturns == \A c \in Clients : pc[c] = "recv" ~> pc[c] = "idle"

(* A goc read that succeeds has been executed by the server, even if the   *)
(* network doubles and delays datagrams: the id in the answer.             *)
GocExecuted == \A c \in Clients :
    outcome[c] = "ok" /\ kind[c] = "goc" => <<c, call[c]>> \in served

(* "Is online" tells that the server has answered. *)
OnlineIsServed == \A c \in Clients :
    outcome[c] = "ok" /\ kind[c] = "one" => <<c, call[c]>> \in served

(* The id of a goc read covers all the values it returns. *)
GocOwn == \A c \in Clients :
    outcome[c] = "ok" /\ kind[c] = "goc" => \A d \in got[c] : d.call = call[c]
=============================================================================
