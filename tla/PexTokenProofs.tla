---------------------------- MODULE PexTokenProofs ----------------------------
(***************************************************************************)
(* What a token brings, for every crate: chains of any kinds in any order, *)
(* every configuration, and any number of triggers, of misses, of accesses *)
(* of the control thread and of new configurations. The invariant says how *)
(* the counts of the crate, of the front-ends and of the modules belong    *)
(* together, and what is on the wire and in the reply registers of a chain *)
(* that is in step.                                                        *)
(***************************************************************************)
EXTENDS PexToken, TLAPS

BeforeLock == {"idle", "addr", "data", "comm", "dt"}
Tagged == {"addr", "data", "comm", "dt"}
Locking == {"issue", "recv"}

Event == [id : Nat, lec : Nat]
Buffers == [0..1 -> Event]
Marks == [0..1 -> BOOLEAN]
Request == [kind : {"tk", "rd", "wr"}, addr : Nat, data : Nat]
Reply == [kind : {"none", "tk", "rd", "wr"}, addr : Nat, data : Nat]

ConfigType ==
    /\ kind \in Crates
    /\ v5 \in BOOLEAN /\ par \in BOOLEAN /\ wait \in BOOLEAN /\ rel \in BOOLEAN
    /\ v5 => par
FrontendType ==
    /\ trig \in Nat /\ dt \in BOOLEAN /\ pend \in BOOLEAN
    /\ seen \in [Chains -> Nat]
    /\ held \in [Chains -> Buffers]
    /\ fresh \in [Chains -> Marks]
BoardType ==
    /\ reqA \in Nat /\ reqD \in Nat
    /\ wire \in [Chains -> SUBSET Request]
    /\ rep \in [Chains -> Reply]
    /\ mem \in [Chains -> Event]
SoftType ==
    /\ state \in {"PREPARED", "READY", "REINIT"}
    /\ bufIdx \in 0..1 /\ cnt \in Nat /\ prev \in Nat
    /\ ctr \in [Chains -> Nat] /\ mbuf \in [Chains -> 0..1]
    /\ isOn \in BOOLEAN /\ inh \in BOOLEAN /\ vec \subseteq Chains
ThreadType ==
    /\ mutex \in {"none", "R", "C"}
    /\ rpc \in BeforeLock \cup Locking \cup {"start", "fin", "died"}
    /\ rs \in Chains /\ bad \in BOOLEAN
    /\ cpc \in {"idle", "addr", "data", "comm", "rx"}
    /\ creq \in [s : Chains, kind : {"rd", "wr"}]
HistoryType ==
    /\ cur \in Nat /\ acc \in [Chains -> Nat \cup {-1}]
    /\ off \subseteq Chains /\ dist \in BOOLEAN
    /\ gres \in {"none", "done", "other", "failed"}
    /\ misses \in Nat /\ gocs \in Nat /\ reconfs \in Nat

(* Everything has its type. *)
TypeOK == /\ ConfigType /\ FrontendType /\ BoardType /\ SoftType
          /\ ThreadType /\ HistoryType

(* Who has the lock of the crate; a place that exists in one mode only; a  *)
(* cycle the control thread has not disturbed has the board for itself.    *)
Locked ==
    /\ mutex = "R" <=> rpc \in Locking \cup {"died"}
    /\ mutex = "C" <=> cpc # "idle"
    /\ rpc \notin Locking \cup {"died"} => rs = First
    /\ rpc = "issue" => ~par /\ kind[rs] # "febex"
    /\ rpc \in {"addr", "data", "comm"} => par
    /\ rpc \in {"addr", "data"} => ~v5
    /\ rpc \in {"start"} \cup Locking => state = "READY"
    /\ ~dist /\ rpc # "idle" => cpc = "idle"
    /\ ~dist /\ ~v5 /\ rpc \in {"data", "comm"} => reqA = TokenAddr(bufIdx)

(* The trigger, the dead time and the counts of the crate. *)
Cycle ==
    /\ trig = cur + (IF pend THEN 1 ELSE 0)
    /\ pend => dt
    /\ rpc = "idle" => dt = pend
    /\ rpc \in Tagged \cup {"start"} => dt /\ ~pend
    /\ rpc \notin Tagged \cup {"idle", "start"} /\ isOn => dt /\ ~pend
    /\ ~isOn => rel
    /\ bufIdx = (cnt + 1) % 2
    /\ rpc = "idle" => prev = cnt
    /\ rpc # "idle" => cur > 0
    /\ rpc \in Tagged \cup Locking => cnt = prev + 1
    /\ rpc \in {"start", "fin"} => cnt = prev + 1 \/ (cnt = 0 /\ prev = 0)

(* The crate was initialised while a trigger could come or had come, and   *)
(* will be initialised again in the next dead time.                        *)
Again == state = "REINIT" /\ rpc \in BeforeLock

Events(s) == {held[s][0], held[s][1], mem[s]}

(* No chain has seen more triggers than the crate has counted, and what it *)
(* holds was not counted higher than the crate did.                        *)
Behind(s) ==
    /\ seen[s] <= cnt + (IF pend THEN 1 ELSE 0)
    /\ \A e \in Events(s) : e.id # 0 => e.id <= trig /\ e.lec + cur <= cnt + e.id

(* A chain that has seen every trigger holds the event that is being read  *)
(* or was read last, and the one that waits, each in its buffer.           *)
InStep(s) ==
    s \notin off /\ ~Again =>
        /\ seen[s] = cnt + (IF pend THEN 1 ELSE 0)
        /\ cnt > 0 => held[s][bufIdx] = [id |-> cur, lec |-> cnt]
        /\ pend => held[s][1 - bufIdx] = [id |-> trig, lec |-> cnt + 1]
        /\ \A e \in Events(s) : e.id # 0 => e.lec + cur = cnt + e.id

(* The module of a chain has not counted this event yet. *)
Uncounted(s) ==
    \/ rpc \in Tagged
    \/ kind[s] = "ctdc" /\ \/ rpc = "start" /\ cnt # prev
                           \/ rpc \in Locking /\ rs <= s

Clear(s) == s \notin off /\ ~(par /\ dist)

(* The event counters of the modules; the one of a TAMEX is also right     *)
(* when its chain is not in step, as it counts the flips of the board.     *)
Counters(s) ==
    /\ kind[s] = "tamex" /\ ~Again =>
        /\ ctr[s] = cnt - (IF Uncounted(s) THEN 1 ELSE 0)
        /\ mbuf[s] = IF Uncounted(s) THEN 1 - bufIdx ELSE bufIdx
    /\ kind[s] = "ctdc" /\ Clear(s) /\ ~Again /\ rpc # "died"
         /\ ~(rpc = "fin" /\ state = "REINIT") =>
        ctr[s] = cnt - (IF Uncounted(s) THEN 1 ELSE 0)

(* The token of this event was sent to the chain and not yet received; it  *)
(* has still to be sent.                                                   *)
Asked(s) ==
    /\ cnt # prev
    /\ IF par THEN rpc \in {"dt", "start"} \/ (rpc \in Locking /\ rs <= s)
       ELSE rpc = "recv" /\ rs = s /\ kind[s] # "febex"
ToAsk(s) ==
    /\ cnt # prev
    /\ IF par THEN rpc \in {"addr", "data", "comm"}
       ELSE \/ rpc \in {"dt", "start"}
            \/ rpc \in Locking /\ (rs < s \/ (rs = s /\ (rpc = "issue" \/ kind[s] = "febex")))

Token == [kind |-> "tk", addr |-> TokenAddr(bufIdx), data |-> 0]
TokenReply == [kind |-> "tk", addr |-> TokenAddr(bufIdx), data |-> CardNum]
NotServed(s) == wire[s] = {Token} /\ rep[s] = NoReply /\ fresh[s][bufIdx]
Served(s) == wire[s] = {} /\ rep[s] = TokenReply /\ mem[s] = held[s][bufIdx]

Accessed(s) == cpc # "idle" /\ creq.s = s
AccessOpen(s) == \E r \in wire[s] : r.kind = creq.kind /\ wire[s] = {r}

(* What is on its way between the board and a chain in step. *)
Connected(s) ==
    /\ Asked(s) /\ ~Again => NotServed(s) \/ Served(s)
    /\ ToAsk(s) /\ ~Again => fresh[s][bufIdx]
    /\ ToAsk(s) /\ par => rep[s] = NoReply
    /\ pend /\ ~Again => fresh[s][1 - bufIdx]
    /\ ~Asked(s) /\ ~Accessed(s) => wire[s] = {}
    /\ Accessed(s) /\ cpc # "rx" => wire[s] = {} /\ rep[s] = NoReply
    /\ Accessed(s) /\ cpc = "rx" =>
        \/ AccessOpen(s) /\ rep[s] = NoReply
        \/ wire[s] = {} /\ rep[s].kind = creq.kind
Line(s) == Clear(s) /\ rpc # "died" => Connected(s)

(* What this readout has delivered so far, and why it is not well. *)
Taken(s) ==
    /\ rpc \in Tagged => acc[s] = -1
    /\ rpc \notin {"idle", "died"} /\ acc[s] # -1 =>
        /\ Clear(s) => acc[s] = cur
        /\ kind[s] = "tamex" => acc[s] \in {0, cur} \/ (acc[s] > cur /\ rel /\ s \in off)
Alarm ==
    /\ rpc \in BeforeLock => ~bad
    /\ bad => off # {} \/ (par /\ dist)

(* An access names its register, unless its words are mixed with those of  *)
(* a token.                                                                *)
Named ==
    ~par \/ v5 =>
        /\ \A s \in Chains : \A r \in wire[s] \cup {rep[s]} :
             /\ r.kind \in {"rd", "wr"} => r.addr = GocReg
             /\ r.kind = "wr" => r.data = 1
        /\ cpc \in {"data", "comm"} => reqA = GocReg
        /\ cpc = "comm" => reqD = Payload

Synchronous == \A s \in Chains : Behind(s) /\ InStep(s) /\ Counters(s)
Answering == \A s \in Chains : Line(s)
Outcomes == Alarm /\ \A s \in Chains : Taken(s)

Inv == TypeOK /\ Locked /\ Cycle /\ Synchronous /\ Answering /\ Outcomes /\ Named

-----------------------------------------------------------------------------
(* The chains of a crate are a range of numbers. *)
LEMMA ChainRange ==
    ASSUME kind \in Crates
    PROVE  /\ Chains \subseteq Int /\ First \in Chains /\ Last \in Chains
           /\ \A s \in Chains : First <= s /\ s <= Last
           /\ \A s \in Chains : kind[s] \in Kinds
           /\ \A s \in Chains : s # Last => s + 1 \in Chains
<1>1. PICK n \in 0..3, k \in 0..3 : n <= k /\ kind \in [n..k -> Kinds]
  BY CrateAssumption
<1>2. Chains = n..k
  BY <1>1 DEF Chains
<1>3. First = n
  <2>1. n \in Chains /\ \A t \in Chains : n <= t
    BY <1>1, <1>2
  <2>2. First \in Chains /\ \A t \in Chains : First <= t
    BY <2>1 DEF First
  <2> QED BY <1>2, <2>1, <2>2
<1>4. Last = k
  <2>1. k \in Chains /\ \A t \in Chains : t <= k
    BY <1>1, <1>2
  <2>2. Last \in Chains /\ \A t \in Chains : t <= Last
    BY <2>1 DEF Last
  <2> QED BY <1>2, <2>1, <2>2
<1> QED BY <1>1, <1>2, <1>3, <1>4

LEMMA ChainsKept ==
    ASSUME kind' = kind PROVE Chains' = Chains /\ First' = First /\ Last' = Last
BY DEF Chains, First, Last

(* The configuration of a crate never changes. *)
LEMMA ConfigKept ==
    ASSUME [Next]_vars PROVE UNCHANGED <<kind, v5, par, wait, rel>>
<1>1. ASSUME NEW M \in SUBSET Chains, Trigger(M)
    PROVE  UNCHANGED <<kind, v5, par, wait, rel>>
  BY <1>1 DEF Trigger, config, board, soft, control
<1>2. ASSUME NEW c \in Chains, NEW r \in wire[c], Serve(c, r)
    PROVE  UNCHANGED <<kind, v5, par, wait, rel>>
  BY <1>2 DEF Serve, config, soft, control, history
<1>3. CASE Begin
  BY <1>3 DEF Begin, config, frontend, control
<1>4. CASE PrepAddr
  BY <1>4 DEF PrepAddr, config, frontend, soft, control, history
<1>5. CASE PrepData
  BY <1>5 DEF PrepData, config, frontend, soft, control, history
<1>6. CASE PrepComm
  BY <1>6 DEF PrepComm, config, frontend, soft, control, history
<1>7. CASE ReadoutDt /\ state = "REINIT"
  BY <1>7 DEF ReadoutDt, Reinit, config, frontend, control
<1>8. CASE ReadoutDt /\ state # "REINIT"
  BY <1>8 DEF ReadoutDt, config, frontend, control
<1>9. CASE ReadStart
  BY <1>9 DEF ReadStart, config, frontend, board, soft, control, history
<1>10. CASE Issue
  BY <1>10 DEF Issue, config, frontend, soft, control, history
<1>11. CASE Receive
  BY <1>11 DEF Receive, config, frontend, board, control
<1>12. CASE Die
  BY <1>12 DEF Die, config, frontend, board, soft, history
<1>13. CASE Finalize /\ state = "REINIT"
  BY <1>13 DEF Finalize, Reinit, config, frontend, control
<1>14. CASE Finalize /\ state # "REINIT" /\ isOn
  BY <1>14 DEF Finalize, Reconfigured, config, frontend, control
<1>15. CASE Finalize /\ state # "REINIT" /\ ~isOn
  BY <1>15 DEF Finalize, config, frontend, control
<1>16. ASSUME NEW c \in Chains, Reconfigure(c)
    PROVE  UNCHANGED <<kind, v5, par, wait, rel>>
  BY <1>16 DEF Reconfigure, config, frontend, board, soft, control
<1>17. ASSUME NEW c \in Chains, NEW k \in {"rd", "wr"}, GocClear(c, k)
    PROVE  UNCHANGED <<kind, v5, par, wait, rel>>
  BY <1>17 DEF GocClear, config, frontend, soft, history
<1>18. CASE GocAddr
  BY <1>18 DEF GocAddr, config, frontend, soft, history
<1>19. CASE GocData
  BY <1>19 DEF GocData, config, frontend, soft, history
<1>20. CASE GocComm
  BY <1>20 DEF GocComm, config, frontend, soft, history
<1>21. CASE GocRx
  BY <1>21 DEF GocRx, config, frontend, board, soft, history
<1>22. CASE UNCHANGED vars
  BY <1>22 DEF vars, config, frontend, board, soft, control, history
<1> QED
  BY <1>1, <1>2, <1>3, <1>4, <1>5, <1>6, <1>7, <1>8, <1>9, <1>10, <1>11,
       <1>12, <1>13, <1>14, <1>15, <1>16, <1>17, <1>18, <1>19, <1>20, <1>21,
       <1>22
  DEF Next, Electronics, Readout, Control, Requests

(* What there is after a reset. *)
LEMMA EmptyType ==
    /\ NoEvent \in Event
    /\ [b \in 0..1 |-> NoEvent] \in Buffers
    /\ [b \in 0..1 |-> FALSE] \in Marks
<1>1. NoEvent \in Event
  BY DEF NoEvent, Event
<1> QED BY <1>1 DEF Buffers, Marks

LEMMA TypeInit == Init => TypeOK
<1> SUFFICES ASSUME Init PROVE TypeOK
  OBVIOUS
<1>1. kind \in Crates
  BY DEF Init
<1>2. First \in Chains
  BY <1>1, ChainRange
<1>3. ConfigType /\ FrontendType
  BY <1>1, EmptyType DEF Init, ConfigType, FrontendType
<1>4. BoardType /\ SoftType
  <2>1. NoReply \in Reply
    BY DEF NoReply, Reply
  <2>2. BoardType
    BY <2>1, EmptyType DEF Init, BoardType
  <2>3. SoftType
    <3>1. /\ state = "PREPARED" /\ bufIdx = 1 /\ cnt = 0 /\ prev = 0
          /\ ctr = [s \in Chains |-> 0] /\ mbuf = [s \in Chains |-> 1]
          /\ isOn = TRUE /\ inh = FALSE /\ vec = {}
      BY DEF Init, StartIdx
    <3>2. ctr \in [Chains -> Nat] /\ mbuf \in [Chains -> 0..1]
      BY <3>1
    <3>3. isOn \in BOOLEAN /\ inh \in BOOLEAN /\ vec \subseteq Chains
      BY <3>1
    <3>4. state \in {"PREPARED", "READY", "REINIT"} /\ bufIdx \in 0..1 /\ cnt \in Nat /\ prev \in Nat
      BY <3>1
    <3> QED BY <3>2, <3>3, <3>4 DEF SoftType
  <2> QED BY <2>2, <2>3
<1>5. ThreadType /\ HistoryType
  BY <1>1, <1>2 DEF Init, ThreadType, HistoryType, BeforeLock, Locking
<1> QED BY <1>3, <1>4, <1>5 DEF TypeOK

(* What the registers may hold. *)
LEMMA RequestType ==
    ASSUME TypeOK
    PROVE  /\ TokenAddr(bufIdx) \in 0..3 /\ TokenAddr(1 - bufIdx) \in 0..3
           /\ BufOf(TokenAddr(bufIdx)) = bufIdx
           /\ WaitOf(TokenAddr(bufIdx)) = wait
           /\ TokenAddr(bufIdx) % 4 = TokenAddr(bufIdx)
<1>1. bufIdx \in 0..1 /\ wait \in BOOLEAN
  BY DEF TypeOK, SoftType, ConfigType
<1>2. CASE wait /\ bufIdx = 0
  <2>1. TokenAddr(bufIdx) = 2 /\ TokenAddr(1 - bufIdx) = 3
    BY <1>2 DEF TokenAddr
  <2>2. BufOf(2) = 0 /\ WaitOf(2) = TRUE /\ 2 % 4 = 2
    BY DEF BufOf, WaitOf
  <2>3. wait = TRUE
    BY <1>2, <1>1
  <2>4. WaitOf(TokenAddr(bufIdx)) = wait
    BY <2>1, <2>2, <2>3
  <2>5. TokenAddr(bufIdx) % 4 = TokenAddr(bufIdx) /\ BufOf(TokenAddr(bufIdx)) = bufIdx
    BY <1>2, <2>1, <2>2
  <2>6. TokenAddr(bufIdx) \in 0..3 /\ TokenAddr(1 - bufIdx) \in 0..3
    BY <2>1
  <2> QED BY <2>4, <2>5, <2>6
<1>3. CASE wait /\ bufIdx = 1
  <2>1. TokenAddr(bufIdx) = 3 /\ TokenAddr(1 - bufIdx) = 2
    BY <1>3 DEF TokenAddr
  <2>2. BufOf(3) = 1 /\ WaitOf(3) = TRUE /\ 3 % 4 = 3
    BY DEF BufOf, WaitOf
  <2>3. wait = TRUE
    BY <1>3, <1>1
  <2>4. WaitOf(TokenAddr(bufIdx)) = wait
    BY <2>1, <2>2, <2>3
  <2>5. TokenAddr(bufIdx) % 4 = TokenAddr(bufIdx) /\ BufOf(TokenAddr(bufIdx)) = bufIdx
    BY <1>3, <2>1, <2>2
  <2>6. TokenAddr(bufIdx) \in 0..3 /\ TokenAddr(1 - bufIdx) \in 0..3
    BY <2>1
  <2> QED BY <2>4, <2>5, <2>6
<1>4. CASE ~wait /\ bufIdx = 0
  <2>1. TokenAddr(bufIdx) = 0 /\ TokenAddr(1 - bufIdx) = 1
    BY <1>4 DEF TokenAddr
  <2>2. BufOf(0) = 0 /\ WaitOf(0) = FALSE /\ 0 % 4 = 0
    BY DEF BufOf, WaitOf
  <2>3. wait = FALSE
    BY <1>4, <1>1
  <2>4. WaitOf(TokenAddr(bufIdx)) = wait
    BY <2>1, <2>2, <2>3
  <2> QED BY <1>4, <2>1, <2>2, <2>4
<1>5. CASE ~wait /\ bufIdx = 1
  <2>1. TokenAddr(bufIdx) = 1 /\ TokenAddr(1 - bufIdx) = 0
    BY <1>5 DEF TokenAddr
  <2>2. BufOf(1) = 1 /\ WaitOf(1) = FALSE /\ 1 % 4 = 1
    BY DEF BufOf, WaitOf
  <2>3. wait = FALSE
    BY <1>5, <1>1
  <2>4. WaitOf(TokenAddr(bufIdx)) = wait
    BY <2>1, <2>2, <2>3
  <2> QED BY <1>5, <2>1, <2>2, <2>4
<1> QED BY <1>1, <1>2, <1>3, <1>4, <1>5

LEMMA FrontendTypeStep == TypeOK /\ [Next]_vars => FrontendType'
<1> SUFFICES ASSUME TypeOK, [Next]_vars PROVE FrontendType'
  OBVIOUS
<1> USE DEF TypeOK, FrontendType
<1>c. Chains' = Chains
  BY ConfigKept, ChainsKept
<1>1. ASSUME NEW M \in SUBSET Chains, Trigger(M) PROVE FrontendType'
  <2> DEFINE b(s) == seen[s] % 2
             event(s) == [id |-> trig + 1, lec |-> seen[s] + 1]
  <2>1. ASSUME NEW s \in Chains
        PROVE  /\ [held[s] EXCEPT ![b(s)] = event(s)] \in Buffers
               /\ [fresh[s] EXCEPT ![b(s)] = TRUE] \in Marks
    <3>1. seen[s] \in Nat /\ event(s) \in Event
      BY DEF Event
    <3>2. held[s] \in [0..1 -> Event] /\ fresh[s] \in [0..1 -> BOOLEAN]
      BY DEF Buffers, Marks
    <3> QED BY <3>1, <3>2 DEF Buffers, Marks
  <2> HIDE DEF b, event
  <2>2. /\ held' = [s \in Chains |-> IF s \in Chains \ M
                     THEN [held[s] EXCEPT ![b(s)] = event(s)] ELSE held[s]]
        /\ fresh' = [s \in Chains |-> IF s \in Chains \ M
                      THEN [fresh[s] EXCEPT ![b(s)] = TRUE] ELSE fresh[s]]
    BY <1>1 DEF Trigger, b, event
  <2>3. held' \in [Chains -> Buffers] /\ fresh' \in [Chains -> Marks]
    BY <2>1, <2>2
  <2>4. seen' \in [Chains -> Nat] /\ trig' \in Nat /\ dt' \in BOOLEAN /\ pend' \in BOOLEAN
    BY <1>1 DEF Trigger
  <2> QED BY <1>c, <2>3, <2>4
<1>2. ASSUME NEW c \in Chains, NEW r \in wire[c], Serve(c, r)
    PROVE  FrontendType'
  <2>1. ASSUME NEW b \in 0..1 PROVE [fresh EXCEPT ![c][b] = FALSE] \in [Chains -> Marks]
    BY DEF Marks
  <2>2. BufOf(r.addr) \in 0..1
    <3>1. \A n \in Nat : n % 2 \in 0..1
      OBVIOUS
    <3> QED BY <3>1 DEF BufOf, BoardType, Request
  <2>3. fresh' = [fresh EXCEPT ![c][BufOf(r.addr)] = FALSE] \/ fresh' = fresh
    BY <1>2 DEF Serve
  <2>4. UNCHANGED <<seen, held, trig, dt, pend>>
    BY <1>2 DEF Serve
  <2> QED BY <1>c, <2>1, <2>2, <2>3, <2>4
<1>3. CASE Begin
  BY <1>3, <1>c DEF Begin, config, frontend, control
<1>4. CASE PrepAddr
  BY <1>4, <1>c DEF PrepAddr, config, frontend, soft, control, history
<1>5. CASE PrepData
  BY <1>5, <1>c DEF PrepData, config, frontend, soft, control, history
<1>6. CASE PrepComm
  BY <1>6, <1>c DEF PrepComm, config, frontend, soft, control, history
<1>7. CASE ReadoutDt /\ state = "REINIT"
  <2> DEFINE none == [b \in 0..1 |-> NoEvent]
             unset == [b \in 0..1 |-> FALSE]
  <2>1. none \in Buffers /\ unset \in Marks
    BY EmptyType
  <2> HIDE DEF none, unset
  <2>2. /\ seen' = [s \in Chains |-> 0]
        /\ held' = [s \in Chains |-> none]
        /\ fresh' = [s \in Chains |-> unset]
    BY <1>7 DEF ReadoutDt, Reinit, none, unset
  <2>3. trig' \in Nat /\ dt' \in BOOLEAN /\ pend' \in BOOLEAN
    BY <1>7 DEF ReadoutDt
  <2> QED BY <1>c, <2>1, <2>2, <2>3
<1>8. CASE ReadoutDt /\ state # "REINIT"
  BY <1>8, <1>c DEF ReadoutDt, config, frontend, control
<1>9. CASE ReadStart
  BY <1>9, <1>c DEF ReadStart, config, frontend, board, soft, control, history
<1>10. CASE Issue
  BY <1>10, <1>c DEF Issue, config, frontend, soft, control, history
<1>11. CASE Receive
  BY <1>11, <1>c DEF Receive, config, frontend, board, control
<1>12. CASE Die
  BY <1>12, <1>c DEF Die, config, frontend, board, soft, history
<1>13. CASE Finalize /\ state = "REINIT"
  <2> DEFINE none == [b \in 0..1 |-> NoEvent]
             unset == [b \in 0..1 |-> FALSE]
  <2>1. none \in Buffers /\ unset \in Marks
    BY EmptyType
  <2> HIDE DEF none, unset
  <2>2. /\ seen' = [s \in Chains |-> 0]
        /\ held' = [s \in Chains |-> none]
        /\ fresh' = [s \in Chains |-> unset]
    BY <1>13 DEF Finalize, Reinit, none, unset
  <2>3. trig' \in Nat /\ dt' \in BOOLEAN /\ pend' \in BOOLEAN
    BY <1>13 DEF Finalize
  <2> QED BY <1>c, <2>1, <2>2, <2>3
<1>14. CASE Finalize /\ state # "REINIT" /\ isOn
  <2> DEFINE S == {s \in vec : kind[s] # "febex"}
             none == [b \in 0..1 |-> NoEvent]
             unset == [b \in 0..1 |-> FALSE]
  <2>1. none \in Buffers /\ unset \in Marks
    BY EmptyType
  <2> HIDE DEF none, unset
  <2>2. /\ seen' = [s \in Chains |-> IF s \in S THEN 0 ELSE seen[s]]
        /\ held' = [s \in Chains |-> IF s \in S THEN none ELSE held[s]]
        /\ fresh' = [s \in Chains |-> IF s \in S THEN unset ELSE fresh[s]]
    BY <1>14 DEF Finalize, Reconfigured, none, unset
  <2> HIDE DEF S
  <2>3. UNCHANGED <<trig, pend>> /\ dt' = pend
    BY <1>14 DEF Finalize
  <2> QED BY <1>c, <2>1, <2>2, <2>3
<1>15. CASE Finalize /\ state # "REINIT" /\ ~isOn
  BY <1>15, <1>c DEF Finalize, config, frontend, control
<1>16. ASSUME NEW c \in Chains, Reconfigure(c) PROVE FrontendType'
  BY <1>16, <1>c DEF Reconfigure, config, frontend, board, soft, control
<1>17. ASSUME NEW c \in Chains, NEW k \in {"rd", "wr"}, GocClear(c, k)
    PROVE  FrontendType'
  BY <1>17, <1>c DEF GocClear, config, frontend, soft, history
<1>18. CASE GocAddr
  BY <1>18, <1>c DEF GocAddr, config, frontend, soft, history
<1>19. CASE GocData
  BY <1>19, <1>c DEF GocData, config, frontend, soft, history
<1>20. CASE GocComm
  BY <1>20, <1>c DEF GocComm, config, frontend, soft, history
<1>21. CASE GocRx
  BY <1>21, <1>c DEF GocRx, config, frontend, board, soft, history
<1>22. CASE UNCHANGED vars
  BY <1>22, <1>c DEF vars, config, frontend, board, soft, control, history
<1> QED
  BY <1>1, <1>2, <1>3, <1>4, <1>5, <1>6, <1>7, <1>8, <1>9, <1>10, <1>11,
       <1>12, <1>13, <1>14, <1>15, <1>16, <1>17, <1>18, <1>19, <1>20, <1>21,
       <1>22
  DEF Next, Electronics, Readout, Control, Requests

LEMMA BoardTypeStep == TypeOK /\ [Next]_vars => BoardType'
<1> SUFFICES ASSUME TypeOK, [Next]_vars PROVE BoardType'
  OBVIOUS
<1> USE DEF TypeOK, BoardType, Request, Reply
<1>c. Chains' = Chains
  BY ConfigKept, ChainsKept
<1>t. TokenAddr(bufIdx) \in Nat
  BY RequestType
<1>1. ASSUME NEW M \in SUBSET Chains, Trigger(M) PROVE BoardType'
  BY <1>1, <1>c DEF Trigger, config, board, soft, control
<1>2. ASSUME NEW c \in Chains, NEW r \in wire[c], Serve(c, r) PROVE BoardType'
  <2>0. \A n \in Nat : n % 2 \in 0..1 /\ n % 4 \in Nat
    OBVIOUS
  <2>1. r \in Request /\ BufOf(r.addr) \in 0..1 /\ r.addr % 4 \in Nat
    <3>1. r \in Request
      BY DEF BoardType
    <3>2. r.addr \in Nat
      BY <3>1
    <3> QED BY <2>0, <3>1, <3>2 DEF BufOf
  <2>2. held[c][BufOf(r.addr)] \in Event /\ NoEvent \in Event
    BY <2>1, EmptyType DEF FrontendType, Buffers
  <2>3. rep' \in [Chains' -> Reply]
    BY <1>2, <1>c, <2>1 DEF Serve, CardNum
  <2>4. mem' \in [Chains' -> Event]
    BY <1>2, <1>c, <2>2 DEF Serve
  <2>5. wire' \in [Chains' -> SUBSET Request] /\ UNCHANGED <<reqA, reqD>>
    BY <1>2, <1>c DEF Serve
  <2> QED BY <2>3, <2>4, <2>5
<1>3. CASE Begin
  BY <1>3, <1>c DEF Begin, config, frontend, control, NoReply
<1>4. CASE PrepAddr
  BY <1>4, <1>c, <1>t DEF PrepAddr, config, frontend, soft, control, history
<1>5. CASE PrepData
  BY <1>5, <1>c DEF PrepData, config, frontend, soft, control, history
<1>6. CASE PrepComm
  BY <1>6, <1>c, <1>t DEF PrepComm, config, frontend, soft, control, history,
       Send
<1>7. CASE ReadoutDt /\ state = "REINIT"
  BY <1>7, <1>c, EmptyType DEF ReadoutDt, Reinit, config, frontend, control,
       NoReply
<1>8. CASE ReadoutDt /\ state # "REINIT"
  BY <1>8, <1>c DEF ReadoutDt, config, frontend, control
<1>9. CASE ReadStart
  BY <1>9, <1>c DEF ReadStart, config, frontend, board, soft, control, history
<1>10. CASE Issue
  BY <1>10, <1>c, <1>t DEF Issue, config, frontend, soft, control, history,
       Send, RxClear, NoReply, ThreadType
<1>11. CASE Receive
  BY <1>11, <1>c DEF Receive, config, frontend, board, control
<1>12. CASE Die
  BY <1>12, <1>c DEF Die, config, frontend, board, soft, history
<1>13. CASE Finalize /\ state = "REINIT"
  BY <1>13, <1>c, EmptyType DEF Finalize, Reinit, config, frontend, control,
       NoReply
<1>14. CASE Finalize /\ state # "REINIT" /\ isOn
  BY <1>14, <1>c DEF Finalize, Reconfigured, config, frontend, control,
       NoReply
<1>15. CASE Finalize /\ state # "REINIT" /\ ~isOn
  BY <1>15, <1>c DEF Finalize, config, frontend, control
<1>16. ASSUME NEW c \in Chains, Reconfigure(c) PROVE BoardType'
  BY <1>16, <1>c DEF Reconfigure, config, frontend, board, soft, control
<1>17. ASSUME NEW c \in Chains, NEW k \in {"rd", "wr"}, GocClear(c, k)
    PROVE  BoardType'
  BY <1>17, <1>c DEF GocClear, config, frontend, soft, history, RxClear,
       NoReply
<1>18. CASE GocAddr
  BY <1>18, <1>c DEF GocAddr, config, frontend, soft, history, GocReg
<1>19. CASE GocData
  BY <1>19, <1>c DEF GocData, config, frontend, soft, history, Payload
<1>20. CASE GocComm
  BY <1>20, <1>c DEF GocComm, config, frontend, soft, history, Send,
       ThreadType
<1>21. CASE GocRx
  BY <1>21, <1>c DEF GocRx, config, frontend, board, soft, history
<1>22. CASE UNCHANGED vars
  BY <1>22, <1>c DEF vars, config, frontend, board, soft, control, history
<1> QED
  BY <1>1, <1>2, <1>3, <1>4, <1>5, <1>6, <1>7, <1>8, <1>9, <1>10, <1>11,
       <1>12, <1>13, <1>14, <1>15, <1>16, <1>17, <1>18, <1>19, <1>20, <1>21,
       <1>22
  DEF Next, Electronics, Readout, Control, Requests

LEMMA SoftTypeStep == TypeOK /\ [Next]_vars => SoftType'
<1> SUFFICES ASSUME TypeOK, [Next]_vars PROVE SoftType'
  OBVIOUS
<1> USE DEF TypeOK, SoftType
<1>c. Chains' = Chains
  BY ConfigKept, ChainsKept
<1>1. ASSUME NEW M \in SUBSET Chains, Trigger(M) PROVE SoftType'
  BY <1>1, <1>c DEF Trigger, config, board, soft, control
<1>2. ASSUME NEW c \in Chains, NEW r \in wire[c], Serve(c, r) PROVE SoftType'
  BY <1>2, <1>c DEF Serve, config, soft, control, history
<1>3. CASE Begin
  BY <1>3, <1>c DEF Begin, config, frontend, control
<1>4. CASE PrepAddr
  BY <1>4, <1>c DEF PrepAddr, config, frontend, soft, control, history
<1>5. CASE PrepData
  BY <1>5, <1>c DEF PrepData, config, frontend, soft, control, history
<1>6. CASE PrepComm
  BY <1>6, <1>c DEF PrepComm, config, frontend, soft, control, history
<1>7. CASE ReadoutDt /\ state = "REINIT"
  BY <1>7, <1>c DEF ReadoutDt, Reinit, config, frontend, control, StartIdx
<1>8. CASE ReadoutDt /\ state # "REINIT"
  BY <1>8, <1>c DEF ReadoutDt, config, frontend, control, Counted
<1>9. CASE ReadStart
  BY <1>9, <1>c DEF ReadStart, config, frontend, board, soft, control, history
<1>10. CASE Issue
  BY <1>10, <1>c DEF Issue, config, frontend, soft, control, history
<1>11. CASE Receive
  <2>1. rs \in Chains /\ ctr[rs] \in Nat
    BY DEF ThreadType
  <2>2. ctr' \in [Chains -> Nat]
    <3>1. \E n \in {ctr[rs], ctr[rs] + 1, 0} : ctr' = [ctr EXCEPT ![rs] = n]
      <4>1. kind[rs] \in {"tamex", "ctdc", "febex"}
        BY <2>1, ChainRange DEF ConfigType, Kinds
      <4> QED BY <1>11, <2>1, <4>1 DEF Receive, ReadTamex, ReadCtdc, ReadFebex
    <3> QED BY <2>1, <3>1
  <2>3. state' \in {"PREPARED", "READY", "REINIT"}
    BY <1>11 DEF Receive
  <2>4. UNCHANGED <<bufIdx, cnt, prev, mbuf, isOn, inh, vec>>
    BY <1>11 DEF Receive
  <2> QED BY <1>c, <2>2, <2>3, <2>4
<1>12. CASE Die
  BY <1>12, <1>c DEF Die, config, frontend, board, soft, history
<1>13. CASE Finalize /\ state = "REINIT"
  BY <1>13, <1>c DEF Finalize, Reinit, config, frontend, control, StartIdx
<1>14. CASE Finalize /\ state # "REINIT" /\ isOn
  BY <1>14, <1>c DEF Finalize, Reconfigured, config, frontend, control
<1>15. CASE Finalize /\ state # "REINIT" /\ ~isOn
  BY <1>15, <1>c DEF Finalize, config, frontend, control
<1>16. ASSUME NEW c \in Chains, Reconfigure(c) PROVE SoftType'
  BY <1>16, <1>c DEF Reconfigure, config, frontend, board, soft, control
<1>17. ASSUME NEW c \in Chains, NEW k \in {"rd", "wr"}, GocClear(c, k)
    PROVE  SoftType'
  BY <1>17, <1>c DEF GocClear, config, frontend, soft, history
<1>18. CASE GocAddr
  BY <1>18, <1>c DEF GocAddr, config, frontend, soft, history
<1>19. CASE GocData
  BY <1>19, <1>c DEF GocData, config, frontend, soft, history
<1>20. CASE GocComm
  BY <1>20, <1>c DEF GocComm, config, frontend, soft, history
<1>21. CASE GocRx
  BY <1>21, <1>c DEF GocRx, config, frontend, board, soft, history
<1>22. CASE UNCHANGED vars
  BY <1>22, <1>c DEF vars, config, frontend, board, soft, control, history
<1> QED
  BY <1>1, <1>2, <1>3, <1>4, <1>5, <1>6, <1>7, <1>8, <1>9, <1>10, <1>11,
       <1>12, <1>13, <1>14, <1>15, <1>16, <1>17, <1>18, <1>19, <1>20, <1>21,
       <1>22
  DEF Next, Electronics, Readout, Control, Requests

LEMMA ThreadTypeStep == TypeOK /\ [Next]_vars => ThreadType'
<1> SUFFICES ASSUME TypeOK, [Next]_vars PROVE ThreadType'
  OBVIOUS
<1> USE DEF TypeOK, ThreadType, BeforeLock, Locking
<1>c. Chains' = Chains
  BY ConfigKept, ChainsKept
<1>f. First \in Chains /\ \A s \in Chains : s # Last => s + 1 \in Chains
  BY ChainRange DEF ConfigType
<1>1. ASSUME NEW M \in SUBSET Chains, Trigger(M) PROVE ThreadType'
  BY <1>1, <1>c DEF Trigger, config, board, soft, control
<1>2. ASSUME NEW c \in Chains, NEW r \in wire[c], Serve(c, r)
    PROVE  ThreadType'
  BY <1>2, <1>c DEF Serve, config, soft, control, history
<1>3. CASE Begin
  BY <1>3, <1>c DEF Begin, config, frontend, control
<1>4. CASE PrepAddr
  BY <1>4, <1>c DEF PrepAddr, config, frontend, soft, control, history
<1>5. CASE PrepData
  BY <1>5, <1>c DEF PrepData, config, frontend, soft, control, history
<1>6. CASE PrepComm
  BY <1>6, <1>c DEF PrepComm, config, frontend, soft, control, history
<1>7. CASE ReadoutDt /\ state = "REINIT"
  BY <1>7, <1>c DEF ReadoutDt, Reinit, config, frontend, control
<1>8. CASE ReadoutDt /\ state # "REINIT"
  BY <1>8, <1>c DEF ReadoutDt, config, frontend, control
<1>9. CASE ReadStart
  BY <1>9, <1>c, <1>f DEF ReadStart, config, frontend, board, soft, control,
       history, Reading
<1>10. CASE Issue
  BY <1>10, <1>c DEF Issue, config, frontend, soft, control, history
<1>11. CASE Receive
  BY <1>11, <1>c, <1>f DEF Receive, config, frontend, board, control, Reading
<1>12. CASE Die
  BY <1>12, <1>c DEF Die, config, frontend, board, soft, history
<1>13. CASE Finalize /\ state = "REINIT"
  BY <1>13, <1>c DEF Finalize, Reinit, config, frontend, control
<1>14. CASE Finalize /\ state # "REINIT" /\ isOn
  BY <1>14, <1>c DEF Finalize, Reconfigured, config, frontend, control
<1>15. CASE Finalize /\ state # "REINIT" /\ ~isOn
  BY <1>15, <1>c DEF Finalize, config, frontend, control
<1>16. ASSUME NEW c \in Chains, Reconfigure(c) PROVE ThreadType'
  BY <1>16, <1>c DEF Reconfigure, config, frontend, board, soft, control
<1>17. ASSUME NEW c \in Chains, NEW k \in {"rd", "wr"}, GocClear(c, k)
    PROVE  ThreadType'
  BY <1>17, <1>c DEF GocClear, config, frontend, soft, history
<1>18. CASE GocAddr
  BY <1>18, <1>c DEF GocAddr, config, frontend, soft, history
<1>19. CASE GocData
  BY <1>19, <1>c DEF GocData, config, frontend, soft, history
<1>20. CASE GocComm
  BY <1>20, <1>c DEF GocComm, config, frontend, soft, history
<1>21. CASE GocRx
  BY <1>21, <1>c DEF GocRx, config, frontend, board, soft, history
<1>22. CASE UNCHANGED vars
  BY <1>22, <1>c DEF vars, config, frontend, board, soft, control, history
<1> QED
  BY <1>1, <1>2, <1>3, <1>4, <1>5, <1>6, <1>7, <1>8, <1>9, <1>10, <1>11,
       <1>12, <1>13, <1>14, <1>15, <1>16, <1>17, <1>18, <1>19, <1>20, <1>21,
       <1>22
  DEF Next, Electronics, Readout, Control, Requests

LEMMA HistoryTypeStep == TypeOK /\ [Next]_vars => HistoryType'
<1> SUFFICES ASSUME TypeOK, [Next]_vars PROVE HistoryType'
  OBVIOUS
<1> USE DEF TypeOK, HistoryType
<1>c. Chains' = Chains
  BY ConfigKept, ChainsKept
<1>1. ASSUME NEW M \in SUBSET Chains, Trigger(M) PROVE HistoryType'
  BY <1>1, <1>c DEF Trigger, config, board, soft, control
<1>2. ASSUME NEW c \in Chains, NEW r \in wire[c], Serve(c, r)
    PROVE  HistoryType'
  BY <1>2, <1>c DEF Serve, config, soft, control, history
<1>3. CASE Begin
  BY <1>3, <1>c DEF Begin, config, frontend, control, FrontendType
<1>4. CASE PrepAddr
  BY <1>4, <1>c DEF PrepAddr, config, frontend, soft, control, history
<1>5. CASE PrepData
  BY <1>5, <1>c DEF PrepData, config, frontend, soft, control, history
<1>6. CASE PrepComm
  BY <1>6, <1>c DEF PrepComm, config, frontend, soft, control, history
<1>7. CASE ReadoutDt /\ state = "REINIT"
  BY <1>7, <1>c DEF ReadoutDt, Reinit, config, frontend, control
<1>8. CASE ReadoutDt /\ state # "REINIT"
  BY <1>8, <1>c DEF ReadoutDt, config, frontend, control
<1>9. CASE ReadStart
  BY <1>9, <1>c DEF ReadStart, config, frontend, board, soft, control, history
<1>10. CASE Issue
  BY <1>10, <1>c DEF Issue, config, frontend, soft, control, history
<1>11. CASE Receive
  <2>1. rs \in Chains /\ mem[rs].id \in Nat
    BY DEF ThreadType, BoardType, Event
  <2>2. acc' \in [Chains -> Nat \cup {-1}]
    BY <1>11, <2>1 DEF Receive
  <2>3. UNCHANGED <<cur, off, dist, gres, misses, gocs, reconfs>>
    BY <1>11 DEF Receive, control
  <2> QED BY <1>c, <2>2, <2>3
<1>12. CASE Die
  BY <1>12, <1>c DEF Die, config, frontend, board, soft, history
<1>13. CASE Finalize /\ state = "REINIT"
  BY <1>13, <1>c DEF Finalize, Reinit, config, frontend, control
<1>14. CASE Finalize /\ state # "REINIT" /\ isOn
  BY <1>14, <1>c DEF Finalize, Reconfigured, config, frontend, control,
       SoftType
<1>15. CASE Finalize /\ state # "REINIT" /\ ~isOn
  BY <1>15, <1>c DEF Finalize, config, frontend, control
<1>16. ASSUME NEW c \in Chains, Reconfigure(c) PROVE HistoryType'
  BY <1>16, <1>c DEF Reconfigure, config, frontend, board, soft, control
<1>17. ASSUME NEW c \in Chains, NEW k \in {"rd", "wr"}, GocClear(c, k)
    PROVE  HistoryType'
  BY <1>17, <1>c DEF GocClear, config, frontend, soft, history, Touch
<1>18. CASE GocAddr
  BY <1>18, <1>c DEF GocAddr, config, frontend, soft, history, Touch
<1>19. CASE GocData
  BY <1>19, <1>c DEF GocData, config, frontend, soft, history, Touch
<1>20. CASE GocComm
  BY <1>20, <1>c DEF GocComm, config, frontend, soft, history, Touch
<1>21. CASE GocRx
  BY <1>21, <1>c DEF GocRx, config, frontend, board, soft, history, Touch,
       Outcome
<1>22. CASE UNCHANGED vars
  BY <1>22, <1>c DEF vars, config, frontend, board, soft, control, history
<1> QED
  BY <1>1, <1>2, <1>3, <1>4, <1>5, <1>6, <1>7, <1>8, <1>9, <1>10, <1>11,
       <1>12, <1>13, <1>14, <1>15, <1>16, <1>17, <1>18, <1>19, <1>20, <1>21,
       <1>22
  DEF Next, Electronics, Readout, Control, Requests

LEMMA TypeStep == TypeOK /\ [Next]_vars => TypeOK'
<1> SUFFICES ASSUME TypeOK, [Next]_vars PROVE TypeOK'
  OBVIOUS
<1>1. ConfigType'
  BY ConfigKept DEF TypeOK, ConfigType
<1>2. FrontendType' /\ BoardType' /\ SoftType' /\ ThreadType' /\ HistoryType'
  BY FrontendTypeStep, BoardTypeStep, SoftTypeStep, ThreadTypeStep, HistoryTypeStep
<1> QED BY <1>1, <1>2 DEF TypeOK

-----------------------------------------------------------------------------
LEMMA LockedInit == Init => Locked
BY DEF Init, Locked, Locking

LEMMA LockedStep == TypeOK /\ Locked /\ [Next]_vars => Locked'
<1> SUFFICES ASSUME TypeOK, Locked, [Next]_vars PROVE Locked'
  OBVIOUS
<1> USE DEF Locked, Locking
<1>c. UNCHANGED <<kind, par, v5, wait>> /\ First' = First
  BY ConfigKept, ChainsKept
<1>t. /\ rpc \in BeforeLock \cup Locking \cup {"start", "fin", "died"}
      /\ dist \in BOOLEAN /\ par \in BOOLEAN /\ v5 \in BOOLEAN
  BY DEF TypeOK, ThreadType, HistoryType, ConfigType
<1>1. ASSUME NEW M \in SUBSET Chains, Trigger(M) PROVE Locked'
  BY <1>1, <1>c, <1>t DEF Trigger, config, board, soft, control, TokenAddr
<1>2. ASSUME NEW c \in Chains, NEW r \in wire[c], Serve(c, r) PROVE Locked'
  BY <1>2, <1>c, <1>t DEF Serve, config, soft, control, history, TokenAddr
<1>3. CASE Begin
  <2>1. /\ rpc = "idle" /\ UNCHANGED <<mutex, rs, cpc, state>>
        /\ rpc' = CASE ~par -> "dt" [] par /\ v5 -> "comm" [] OTHER -> "addr"
        /\ dist' = (dist \/ cpc # "idle")
    BY <1>3 DEF Begin, control
  <2>2. rpc' \in {"dt", "comm", "addr"} /\ (rpc' # "dt" => par) /\ (rpc' = "addr" => ~v5)
    BY <1>t, <2>1
  <2>3. ~v5 => rpc' # "comm"
    BY <1>t, <2>1
  <2> QED BY <1>c, <2>1, <2>2, <2>3
<1>4. CASE PrepAddr
  BY <1>4, <1>c, <1>t DEF PrepAddr, config, frontend, soft, control, history,
       TokenAddr
<1>5. CASE PrepData
  BY <1>5, <1>c, <1>t DEF PrepData, config, frontend, soft, control, history,
       TokenAddr
<1>6. CASE PrepComm
  BY <1>6, <1>c, <1>t DEF PrepComm, config, frontend, soft, control, history,
       TokenAddr
<1>7. CASE ReadoutDt /\ state = "REINIT"
  BY <1>7, <1>c, <1>t DEF ReadoutDt, Reinit, config, frontend, control,
       BeforeLock
<1>8. CASE ReadoutDt /\ state # "REINIT"
  BY <1>8, <1>c, <1>t DEF ReadoutDt, config, frontend, control, BeforeLock
<1>9. CASE ReadStart
  BY <1>9, <1>c, <1>t DEF ReadStart, config, frontend, board, soft, control,
       history, Reading, TokenAddr
<1>10. CASE Issue
  BY <1>10, <1>c, <1>t DEF Issue, config, frontend, soft, control, history,
       TokenAddr
<1>11. CASE Receive
  <2>1. /\ rpc = "recv" /\ UNCHANGED <<bufIdx, dist, reqA, cpc>>
        /\ \/ rs = Last /\ rpc' = "fin" /\ mutex' = "none" /\ rs' = First
           \/ rpc' = Reading(rs + 1) /\ rs' = rs + 1 /\ UNCHANGED <<mutex, state>>
    BY <1>11 DEF Receive, board, control
  <2>2. Reading(rs + 1) = "recv" \/ (Reading(rs + 1) = "issue" /\ ~par /\ kind[rs + 1] # "febex")
    BY DEF Reading
  <2> QED BY <1>c, <1>t, <2>1, <2>2
<1>12. CASE Die
  BY <1>12, <1>c, <1>t DEF Die, config, frontend, board, soft, history,
       TokenAddr
<1>13. CASE Finalize /\ state = "REINIT"
  BY <1>13, <1>c, <1>t DEF Finalize, Reinit, config, frontend, control,
       BeforeLock
<1>14. CASE Finalize /\ state # "REINIT" /\ isOn
  BY <1>14, <1>c, <1>t DEF Finalize, Reconfigured, config, frontend, control,
       TokenAddr
<1>15. CASE Finalize /\ state # "REINIT" /\ ~isOn
  BY <1>15, <1>c, <1>t DEF Finalize, config, frontend, control, TokenAddr
<1>16. ASSUME NEW c \in Chains, Reconfigure(c) PROVE Locked'
  BY <1>16, <1>c, <1>t DEF Reconfigure, config, frontend, board, soft,
       control, TokenAddr
<1>17. ASSUME NEW c \in Chains, NEW k \in {"rd", "wr"}, GocClear(c, k)
    PROVE  Locked'
  <2>1. /\ cpc = "idle" /\ mutex = "none" /\ mutex' = "C" /\ cpc' = "addr"
        /\ UNCHANGED <<rpc, rs, state, reqA, bufIdx>>
        /\ dist' = (dist \/ rpc # "idle")
    BY <1>17 DEF GocClear, soft, Touch
  <2> QED BY <1>c, <1>t, <2>1 DEF TokenAddr
<1>18. CASE GocAddr
  BY <1>18, <1>c, <1>t DEF GocAddr, config, frontend, soft, history, Touch,
       TokenAddr
<1>19. CASE GocData
  BY <1>19, <1>c, <1>t DEF GocData, config, frontend, soft, history, Touch,
       TokenAddr
<1>20. CASE GocComm
  BY <1>20, <1>c, <1>t DEF GocComm, config, frontend, soft, history, Touch,
       TokenAddr
<1>21. CASE GocRx
  BY <1>21, <1>c, <1>t DEF GocRx, config, frontend, board, soft, history,
       Touch, TokenAddr
<1>22. CASE UNCHANGED vars
  BY <1>22, <1>c, <1>t DEF vars, config, frontend, board, soft, control,
       history, TokenAddr
<1> QED
  BY <1>1, <1>2, <1>3, <1>4, <1>5, <1>6, <1>7, <1>8, <1>9, <1>10, <1>11,
       <1>12, <1>13, <1>14, <1>15, <1>16, <1>17, <1>18, <1>19, <1>20, <1>21,
       <1>22
  DEF Next, Electronics, Readout, Control, Requests

LEMMA CycleInit == Init => Cycle
<1>1. (0 + 1) % 2 = 1
  OBVIOUS
<1> SUFFICES ASSUME Init PROVE Cycle
  OBVIOUS
<1>2. /\ trig = 0 /\ cur = 0 /\ ~pend /\ ~dt /\ isOn /\ rpc = "idle"
      /\ bufIdx = 1 /\ cnt = 0 /\ prev = 0
  BY DEF Init, StartIdx
<1>3. dt = pend
  BY DEF Init
<1> QED BY <1>1, <1>2, <1>3 DEF Cycle, Tagged, Locking

LEMMA CycleStep == TypeOK /\ Locked /\ Cycle /\ [Next]_vars => Cycle'
<1> SUFFICES ASSUME TypeOK, Locked, Cycle, [Next]_vars PROVE Cycle'
  OBVIOUS
<1> USE DEF Cycle, Tagged, Locking
<1>c. UNCHANGED rel
  BY ConfigKept
<1>t. /\ trig \in Nat /\ cur \in Nat /\ cnt \in Nat /\ prev \in Nat /\ bufIdx \in 0..1
      /\ pend \in BOOLEAN /\ dt \in BOOLEAN /\ isOn \in BOOLEAN
      /\ rpc \in BeforeLock \cup Locking \cup {"start", "fin", "died"}
  BY DEF TypeOK, FrontendType, SoftType, ThreadType, HistoryType
<1>m. \A n \in Nat : (n + 1 + 1) % 2 = 1 - ((n + 1) % 2)
  OBVIOUS
<1>1. ASSUME NEW M \in SUBSET Chains, Trigger(M) PROVE Cycle'
  BY <1>1, <1>c, <1>t DEF Trigger, config, board, soft, control
<1>2. ASSUME NEW c \in Chains, NEW r \in wire[c], Serve(c, r) PROVE Cycle'
  BY <1>2, <1>c, <1>t DEF Serve, config, soft, control, history
<1>3. CASE Begin
  BY <1>3, <1>c, <1>t, <1>m DEF Begin, config, frontend, control
<1>4. CASE PrepAddr
  BY <1>4, <1>c, <1>t DEF PrepAddr, config, frontend, soft, control, history
<1>5. CASE PrepData
  BY <1>5, <1>c, <1>t DEF PrepData, config, frontend, soft, control, history
<1>6. CASE PrepComm
  BY <1>6, <1>c, <1>t DEF PrepComm, config, frontend, soft, control, history
<1>7. CASE ReadoutDt /\ state = "REINIT"
  BY <1>7, <1>c, <1>t DEF ReadoutDt, Reinit, config, frontend, control,
       StartIdx
<1>8. CASE ReadoutDt /\ state # "REINIT"
  <2>1. /\ rpc = "dt" /\ rpc' \in {"fin", "start"}
        /\ UNCHANGED <<trig, cur, pend, dt, isOn, bufIdx, cnt, prev>>
    BY <1>8 DEF ReadoutDt
  <2> QED BY <1>c, <1>t, <2>1
<1>9. CASE ReadStart
  BY <1>9, <1>c, <1>t DEF ReadStart, config, frontend, board, soft, control,
       history, Reading
<1>10. CASE Issue
  BY <1>10, <1>c, <1>t DEF Issue, config, frontend, soft, control, history
<1>11. CASE Receive
  <2>1. /\ rpc = "recv" /\ rpc' \in {"fin", "recv", "issue"}
        /\ UNCHANGED <<trig, cur, pend, dt, isOn, bufIdx, cnt, prev>>
    BY <1>11 DEF Receive, Reading
  <2> QED BY <1>c, <1>t, <2>1
<1>12. CASE Die
  BY <1>12, <1>c, <1>t DEF Die, config, frontend, board, soft, history
<1>13. CASE Finalize /\ state = "REINIT"
  BY <1>13, <1>c, <1>t DEF Finalize, Reinit, config, frontend, control,
       StartIdx
<1>14. CASE Finalize /\ state # "REINIT" /\ isOn
  BY <1>14, <1>c, <1>t DEF Finalize, Reconfigured, config, frontend, control
<1>15. CASE Finalize /\ state # "REINIT" /\ ~isOn
  BY <1>15, <1>c, <1>t DEF Finalize, config, frontend, control
<1>16. ASSUME NEW c \in Chains, Reconfigure(c) PROVE Cycle'
  BY <1>16, <1>c, <1>t DEF Reconfigure, config, frontend, board, soft, control
<1>17. ASSUME NEW c \in Chains, NEW k \in {"rd", "wr"}, GocClear(c, k)
    PROVE  Cycle'
  BY <1>17, <1>c, <1>t DEF GocClear, config, frontend, soft, history
<1>18. CASE GocAddr
  BY <1>18, <1>c, <1>t DEF GocAddr, config, frontend, soft, history
<1>19. CASE GocData
  BY <1>19, <1>c, <1>t DEF GocData, config, frontend, soft, history
<1>20. CASE GocComm
  BY <1>20, <1>c, <1>t DEF GocComm, config, frontend, soft, history
<1>21. CASE GocRx
  BY <1>21, <1>c, <1>t DEF GocRx, config, frontend, board, soft, history
<1>22. CASE UNCHANGED vars
  BY <1>22, <1>c, <1>t DEF vars, config, frontend, board, soft, control,
       history
<1> QED
  BY <1>1, <1>2, <1>3, <1>4, <1>5, <1>6, <1>7, <1>8, <1>9, <1>10, <1>11,
       <1>12, <1>13, <1>14, <1>15, <1>16, <1>17, <1>18, <1>19, <1>20, <1>21,
       <1>22
  DEF Next, Electronics, Readout, Control, Requests

-----------------------------------------------------------------------------
(* The steps of many chains at once, seen from one of them. *)
LEMMA TriggerAt ==
    ASSUME TypeOK, NEW M \in SUBSET Chains, Trigger(M), NEW s \in Chains
    PROVE  /\ s \in M => /\ seen'[s] = seen[s] /\ held'[s] = held[s]
                         /\ fresh'[s] = fresh[s] /\ s \in off'
           /\ s \notin M =>
                /\ seen'[s] = seen[s] + 1
                /\ held'[s] = [held[s] EXCEPT ![seen[s] % 2] =
                                  [id |-> trig + 1, lec |-> seen[s] + 1]]
                /\ fresh'[s] = [fresh[s] EXCEPT ![seen[s] % 2] = TRUE]
           /\ off \subseteq off'
BY DEF Trigger

LEMMA ReinitAt ==
    ASSUME Reinit, NEW s \in Chains
    PROVE  /\ seen'[s] = 0 /\ held'[s][0] = NoEvent /\ held'[s][1] = NoEvent
           /\ wire'[s] = {} /\ rep'[s] = NoReply /\ mem'[s] = NoEvent
           /\ ctr'[s] = 0 /\ mbuf'[s] = 1
           /\ bufIdx' = 1 /\ cnt' = 0 /\ prev' = 0 /\ off' = {} /\ ~dist'
BY DEF Reinit, StartIdx

LEMMA ReconfiguredAt ==
    ASSUME NEW R, Reconfigured(R), NEW s \in Chains
    PROVE  /\ s \in R /\ kind[s] # "febex" =>
                /\ seen'[s] = 0 /\ held'[s][0] = NoEvent /\ held'[s][1] = NoEvent
                /\ s \in off'
           /\ s \notin R \/ kind[s] = "febex" =>
                /\ seen'[s] = seen[s] /\ held'[s] = held[s] /\ fresh'[s] = fresh[s]
                /\ ctr'[s] = ctr[s] /\ mbuf'[s] = mbuf[s]
           /\ off \subseteq off' /\ UNCHANGED <<wire, mem, bufIdx, dist>>
           /\ kind[s] = "tamex" => ctr'[s] = ctr[s] /\ mbuf'[s] \in {mbuf[s], bufIdx}
BY DEF Reconfigured

(* What a chain holds is what it held, a new event, or nothing. *)
LEMMA EventsStep ==
    ASSUME TypeOK, [Next]_vars, NEW s \in Chains
    PROVE  /\ Events(s) \subseteq Event
           /\ (\A M \in SUBSET Chains : ~Trigger(M) \/ s \in M) =>
                Events(s)' \subseteq Events(s) \cup {NoEvent}
           /\ \A M \in SUBSET Chains : Trigger(M) =>
                Events(s)' \subseteq Events(s) \cup {[id |-> trig + 1, lec |-> seen[s] + 1]}
<1> DEFINE none == \A M \in SUBSET Chains : ~Trigger(M) \/ s \in M
           Old == Events(s)' \subseteq Events(s) \cup {NoEvent}
           Some == \A M \in SUBSET Chains : Trigger(M) =>
                      Events(s)' \subseteq Events(s) \cup {[id |-> trig + 1, lec |-> seen[s] + 1]}
<1>a. held[s] \in [0..1 -> Event] /\ mem[s] \in Event /\ seen[s] \in Nat
  BY DEF TypeOK, FrontendType, BoardType, Buffers
<1>b. Events(s) \subseteq Event
  BY <1>a DEF Events
<1>n. \A n \in Nat : n % 2 \in 0..1
  OBVIOUS
<1>t. Some
  <2> SUFFICES ASSUME NEW M \in SUBSET Chains, Trigger(M)
               PROVE Events(s)' \subseteq Events(s) \cup {[id |-> trig + 1, lec |-> seen[s] + 1]}
    OBVIOUS
  <2>1. mem' = mem
    BY DEF Trigger, board
  <2> DEFINE new == [id |-> trig + 1, lec |-> seen[s] + 1]
  <2>2. held'[s] = held[s] \/ held'[s] = [held[s] EXCEPT ![seen[s] % 2] = new]
    BY TriggerAt
  <2> HIDE DEF new
  <2>3. \A b \in 0..1 : held'[s][b] \in {held[s][b], new}
    BY <1>a, <1>n, <2>2
  <2> QED BY <2>1, <2>3 DEF Events, new
<1>o. none => Old
  <2> SUFFICES ASSUME none PROVE Old
    OBVIOUS
  <2>s. UNCHANGED <<held, mem>> => Old
    BY DEF Events
  <2> HIDE DEF none, Old
  <2>1. ASSUME NEW M \in SUBSET Chains, Trigger(M) PROVE Old
    <3>1. held'[s] = held[s] /\ mem' = mem
      BY <2>1, TriggerAt DEF Trigger, board, none
    <3> QED BY <3>1 DEF Old, Events
  <2>2. ASSUME NEW c \in Chains, NEW r \in wire[c], Serve(c, r) PROVE Old
    <3>1. \A n \in Nat : n % 2 \in 0..1
      OBVIOUS
    <3>2. BufOf(r.addr) \in 0..1
      <4>1. r \in Request
        BY DEF TypeOK, BoardType
      <4> QED BY <3>1, <4>1 DEF Request, BufOf
    <3>3. mem'[s] \in {mem[s], held[s][BufOf(r.addr)], NoEvent} /\ held' = held
      BY <2>2 DEF Serve, TypeOK, BoardType
    <3> QED BY <3>2, <3>3 DEF Old, Events
  <2>3. CASE Begin
    BY <2>3, <2>s DEF Begin, config, frontend, control
  <2>4. CASE PrepAddr
    BY <2>4, <2>s DEF PrepAddr, config, frontend, soft, control, history
  <2>5. CASE PrepData
    BY <2>5, <2>s DEF PrepData, config, frontend, soft, control, history
  <2>6. CASE PrepComm
    BY <2>6, <2>s DEF PrepComm, config, frontend, soft, control, history
  <2>7. CASE ReadoutDt /\ state = "REINIT"
    <3>1. Reinit
      BY <2>7 DEF ReadoutDt
    <3> QED BY <3>1, ReinitAt DEF Old, Events
  <2>8. CASE ReadoutDt /\ state # "REINIT"
    BY <2>8, <2>s DEF ReadoutDt, config, frontend, control
  <2>9. CASE ReadStart
    BY <2>9, <2>s DEF ReadStart, config, frontend, board, soft, control, history
  <2>10. CASE Issue
    BY <2>10, <2>s DEF Issue, config, frontend, soft, control, history
  <2>11. CASE Receive
    BY <2>11, <2>s DEF Receive, config, frontend, board, control
  <2>12. CASE Die
    BY <2>12, <2>s DEF Die, config, frontend, board, soft, history
  <2>13. CASE Finalize /\ state = "REINIT"
    <3>1. Reinit
      BY <2>13 DEF Finalize
    <3> QED BY <3>1, ReinitAt DEF Old, Events
  <2>14. CASE Finalize /\ state # "REINIT" /\ isOn
    <3>1. Reconfigured(vec)
      BY <2>14 DEF Finalize
    <3>2. kind[s] = "febex" \/ kind[s] # "febex"
      OBVIOUS
    <3>3. mem' = mem
      BY <3>1, ReconfiguredAt
    <3>4. held'[s] = held[s] \/ (held'[s][0] = NoEvent /\ held'[s][1] = NoEvent)
      BY <3>1, ReconfiguredAt
    <3> QED BY <3>3, <3>4 DEF Old, Events
  <2>15. CASE Finalize /\ state # "REINIT" /\ ~isOn
    BY <2>15, <2>s DEF Finalize, config, frontend, control
  <2>16. ASSUME NEW c \in Chains, Reconfigure(c) PROVE Old
    BY <2>16, <2>s DEF Reconfigure, config, frontend, board, soft, control
  <2>17. ASSUME NEW c \in Chains, NEW k \in {"rd", "wr"}, GocClear(c, k)
      PROVE  Old
    BY <2>17, <2>s DEF GocClear, config, frontend, soft, history
  <2>18. CASE GocAddr
    BY <2>18, <2>s DEF GocAddr, config, frontend, soft, history
  <2>19. CASE GocData
    BY <2>19, <2>s DEF GocData, config, frontend, soft, history
  <2>20. CASE GocComm
    BY <2>20, <2>s DEF GocComm, config, frontend, soft, history
  <2>21. CASE GocRx
    BY <2>21, <2>s DEF GocRx, config, frontend, board, soft, history
  <2>22. CASE UNCHANGED vars
    BY <2>22, <2>s DEF vars, config, frontend, board, soft, control, history
  <2> QED
    BY <2>1, <2>2, <2>3, <2>4, <2>5, <2>6, <2>7, <2>8, <2>9, <2>10, <2>11,
         <2>12, <2>13, <2>14, <2>15, <2>16, <2>17, <2>18, <2>19, <2>20, <2>21,
         <2>22
    DEF Next, Electronics, Readout, Control, Requests
<1> QED BY <1>b, <1>t, <1>o

-----------------------------------------------------------------------------
LEMMA BehindStep ==
    ASSUME TypeOK, Locked, Cycle, [Next]_vars, NEW s \in Chains, Behind(s)
    PROVE  Behind(s)'
<1> DEFINE Low(e) == e.id # 0 => e.id <= trig /\ e.lec + cur <= cnt + e.id
<1>t. /\ trig \in Nat /\ cur \in Nat /\ cnt \in Nat /\ seen[s] \in Nat
      /\ pend \in BOOLEAN /\ dt \in BOOLEAN /\ isOn \in BOOLEAN
  BY DEF TypeOK, FrontendType, SoftType, HistoryType
<1>e. \A e \in Event : e.id \in Nat /\ e.lec \in Nat
  BY DEF Event
<1>k. Events(s) \subseteq Event /\ \A e \in Events(s) : Low(e)
  BY EventsStep DEF Behind
<1>z. NoEvent.id = 0
  BY DEF NoEvent
<1>o. ASSUME UNCHANGED <<trig, cur, cnt>>, Events(s)' \subseteq Events(s) \cup {NoEvent}
      PROVE  \A e \in Events(s)' : Low(e)'
  BY <1>o, <1>k, <1>z
<1>u. ASSUME UNCHANGED <<trig, cur, cnt, pend, seen, held, mem>> PROVE Behind(s)'
  BY <1>u DEF Behind, Events
<1> HIDE DEF Low
<1>1. ASSUME NEW M \in SUBSET Chains, Trigger(M) PROVE Behind(s)'
  <2> DEFINE new == [id |-> trig + 1, lec |-> seen[s] + 1]
  <2>1. /\ trig' = trig + 1 /\ pend' = TRUE /\ ~pend /\ UNCHANGED <<cur, cnt>>
        /\ seen'[s] \in {seen[s], seen[s] + 1}
    BY <1>1, TriggerAt DEF Trigger, soft, Cycle
  <2>2. Events(s)' \subseteq Events(s) \cup {new}
    BY <1>1, EventsStep
  <2>3. new.id = trig + 1 /\ new.lec = seen[s] + 1
    OBVIOUS
  <2>4. seen[s] <= cnt /\ trig = cur
    BY <2>1, <1>t DEF Behind, Cycle
  <2> HIDE DEF new
  <2>5. ASSUME NEW e, e = new PROVE Low(e)'
    <3>1. e.id = trig + 1 /\ e.lec = seen[s] + 1
      BY <2>3, <2>5
    <3> QED BY <2>1, <3>1, <2>4, <1>t DEF Low
  <2>6. ASSUME NEW e \in Events(s) PROVE Low(e)'
    <3>1. e.id \in Nat /\ e.lec \in Nat /\ Low(e)
      BY <1>k, <1>e
    <3> QED BY <2>1, <3>1, <1>t DEF Low
  <2>7. \A e \in Events(s)' : Low(e)'
    BY <2>2, <2>5, <2>6
  <2>8. seen'[s] <= cnt' + (IF pend' THEN 1 ELSE 0)
    BY <2>1, <2>4, <1>t
  <2> QED BY <2>7, <2>8 DEF Low, Behind
<1>2. ASSUME NEW c \in Chains, NEW r \in wire[c], Serve(c, r) PROVE Behind(s)'
  <2>1. UNCHANGED <<trig, cur, cnt, pend, seen>>
    BY <1>2 DEF Serve, soft, history
  <2>2. \A M \in SUBSET Chains : ~Trigger(M)
    BY <2>1, <1>t DEF Trigger
  <2>3. \A e \in Events(s)' : Low(e)'
    BY <1>o, <2>1, <2>2, EventsStep
  <2> QED BY <2>1, <2>3 DEF Low, Behind
<1>3. CASE Begin
  <2>1. /\ pend /\ pend' = FALSE /\ cur' = trig /\ cnt' = cnt + 1 /\ trig = cur + 1
        /\ UNCHANGED <<trig, seen, held, mem>>
    BY <1>3, <1>t DEF Begin, frontend, Cycle
  <2>2. ASSUME NEW e \in Events(s) PROVE Low(e)'
    <3>1. e.id \in Nat /\ e.lec \in Nat /\ Low(e)
      BY <1>k, <1>e
    <3> QED BY <2>1, <3>1, <1>t DEF Low
  <2>3. Events(s)' = Events(s) /\ seen'[s] = seen[s]
    BY <2>1 DEF Events
  <2>4. seen'[s] <= cnt' + (IF pend' THEN 1 ELSE 0)
    BY <2>1, <2>3, <1>t DEF Behind
  <2> QED BY <2>2, <2>3, <2>4 DEF Low, Behind
<1>4. CASE PrepAddr
  BY <1>4, <1>u DEF PrepAddr, config, frontend, soft, control, history
<1>5. CASE PrepData
  BY <1>5, <1>u DEF PrepData, config, frontend, soft, control, history
<1>6. CASE PrepComm
  BY <1>6, <1>u DEF PrepComm, config, frontend, soft, control, history
<1>7. CASE ReadoutDt /\ state = "REINIT"
  <2>1. Reinit
    BY <1>7 DEF ReadoutDt
  <2>2. seen'[s] = 0 /\ cnt' = 0 /\ Events(s)' = {NoEvent}
    BY <2>1, ReinitAt DEF Events
  <2>3. pend' \in BOOLEAN
    BY <1>7, <1>t DEF ReadoutDt
  <2> QED BY <1>z, <2>2, <2>3 DEF Behind
<1>8. CASE ReadoutDt /\ state # "REINIT"
  BY <1>8, <1>u DEF ReadoutDt, config, frontend, control
<1>9. CASE ReadStart
  BY <1>9, <1>u DEF ReadStart, config, frontend, board, soft, control, history
<1>10. CASE Issue
  BY <1>10, <1>u DEF Issue, config, frontend, soft, control, history
<1>11. CASE Receive
  BY <1>11, <1>u DEF Receive, config, frontend, board, control
<1>12. CASE Die
  BY <1>12, <1>u DEF Die, config, frontend, board, soft, history
<1>13. CASE Finalize /\ state = "REINIT"
  <2>1. Reinit
    BY <1>13 DEF Finalize
  <2>2. seen'[s] = 0 /\ cnt' = 0 /\ Events(s)' = {NoEvent}
    BY <2>1, ReinitAt DEF Events
  <2>3. pend' \in BOOLEAN
    BY <1>13, <1>t DEF Finalize
  <2> QED BY <1>z, <2>2, <2>3 DEF Behind
<1>14. CASE Finalize /\ state # "REINIT" /\ isOn
  <2>1. Reconfigured(vec) /\ UNCHANGED <<trig, cur, cnt, pend>>
    BY <1>14 DEF Finalize
  <2>2. \A M \in SUBSET Chains : ~Trigger(M)
    BY <2>1, <1>t DEF Trigger
  <2>3. \A e \in Events(s)' : Low(e)'
    BY <1>o, <2>1, <2>2, EventsStep
  <2>4. seen'[s] \in {0, seen[s]}
    BY <2>1, ReconfiguredAt
  <2>5. seen'[s] <= cnt' + (IF pend' THEN 1 ELSE 0)
    BY <2>1, <2>4, <1>t DEF Behind
  <2> QED BY <2>3, <2>5 DEF Low, Behind
<1>15. CASE Finalize /\ state # "REINIT" /\ ~isOn
  BY <1>15, <1>u DEF Finalize, config, frontend, control
<1>16. ASSUME NEW c \in Chains, Reconfigure(c) PROVE Behind(s)'
  BY <1>16, <1>u DEF Reconfigure, config, frontend, board, soft, control
<1>17. ASSUME NEW c \in Chains, NEW k \in {"rd", "wr"}, GocClear(c, k)
    PROVE  Behind(s)'
  BY <1>17, <1>u DEF GocClear, config, frontend, soft, history
<1>18. CASE GocAddr
  BY <1>18, <1>u DEF GocAddr, config, frontend, soft, history
<1>19. CASE GocData
  BY <1>19, <1>u DEF GocData, config, frontend, soft, history
<1>20. CASE GocComm
  BY <1>20, <1>u DEF GocComm, config, frontend, soft, history
<1>21. CASE GocRx
  BY <1>21, <1>u DEF GocRx, config, frontend, board, soft, history
<1>22. CASE UNCHANGED vars
  BY <1>22, <1>u DEF vars, config, frontend, board, soft, control, history
<1> QED
  BY <1>1, <1>2, <1>3, <1>4, <1>5, <1>6, <1>7, <1>8, <1>9, <1>10, <1>11,
       <1>12, <1>13, <1>14, <1>15, <1>16, <1>17, <1>18, <1>19, <1>20, <1>21,
       <1>22
  DEF Next, Electronics, Readout, Control, Requests

LEMMA InStepStep ==
    ASSUME TypeOK, Locked, Cycle, [Next]_vars, NEW s \in Chains, InStep(s), Behind(s)
    PROVE  InStep(s)'
<1> DEFINE Even(e) == e.id # 0 => e.lec + cur = cnt + e.id
<1>t. /\ trig \in Nat /\ cur \in Nat /\ cnt \in Nat /\ seen[s] \in Nat
      /\ pend \in BOOLEAN /\ dt \in BOOLEAN /\ isOn \in BOOLEAN /\ bufIdx \in 0..1
      /\ held[s] \in [0..1 -> Event]
  BY DEF TypeOK, FrontendType, SoftType, HistoryType, Buffers
<1>e. \A e \in Event : e.id \in Nat /\ e.lec \in Nat
  BY DEF Event
<1>v. Events(s) \subseteq Event
  BY EventsStep
<1>k. s \notin off /\ ~Again => \A e \in Events(s) : Even(e)
  BY DEF InStep
<1>z. NoEvent.id = 0
  BY DEF NoEvent
<1>o. ASSUME UNCHANGED <<cur, cnt>>, Events(s)' \subseteq Events(s) \cup {NoEvent},
             s \notin off, ~Again
      PROVE  \A e \in Events(s)' : Even(e)'
  BY <1>o, <1>k, <1>z
<1>p. \A n \in Nat : n % 2 = 1 - ((n + 1) % 2) /\ (n + 1 + 1) % 2 = n % 2
  OBVIOUS
<1>b. bufIdx = (cnt + 1) % 2 /\ cnt % 2 = 1 - bufIdx
  BY <1>p, <1>t DEF Cycle
<1>u. ASSUME UNCHANGED <<trig, cur, cnt, pend, bufIdx, seen, held, mem>>,
             Again => Again', off \subseteq off'
      PROVE InStep(s)'
  BY <1>u DEF InStep, Events
<1>w. ASSUME UNCHANGED state, rpc \in BeforeLock <=> rpc' \in BeforeLock PROVE Again <=> Again'
  BY <1>w DEF Again
<1>r. ASSUME rpc' \notin BeforeLock PROVE ~Again'
  BY <1>r DEF Again
<1> HIDE DEF Even
<1>1. ASSUME NEW M \in SUBSET Chains, Trigger(M) PROVE InStep(s)'
  <2> SUFFICES ASSUME s \notin off', ~Again' PROVE InStep(s)'
    BY DEF InStep
  <2> DEFINE new == [id |-> trig + 1, lec |-> seen[s] + 1]
  <2>1. /\ trig' = trig + 1 /\ pend' = TRUE /\ ~pend
        /\ UNCHANGED <<cur, cnt, bufIdx, mem, state, rpc>>
    BY <1>1, <1>t DEF Trigger, soft, board, Cycle
  <2>2. s \notin off /\ s \notin M /\ ~Again
    BY <1>1, <2>1, TriggerAt DEF Again
  <2>3. seen[s] = cnt /\ trig = cur /\ seen[s] % 2 = 1 - bufIdx
    BY <2>1, <2>2, <1>b, <1>t DEF InStep, Cycle
  <2>4. seen'[s] = seen[s] + 1 /\ held'[s] = [held[s] EXCEPT ![1 - bufIdx] = new]
    BY <1>1, <2>2, <2>3, TriggerAt
  <2>5. held'[s][1 - bufIdx] = new /\ held'[s][bufIdx] = held[s][bufIdx]
    BY <2>4, <1>t
  <2>6. new = [id |-> trig', lec |-> cnt + 1]
    BY <2>1, <2>3
  <2>7. \A e \in Events(s)' : Even(e)'
    <3>1. Events(s)' \subseteq Events(s) \cup {new}
      BY <1>1, EventsStep
    <3>2. new.id = trig + 1 /\ new.lec = seen[s] + 1
      OBVIOUS
    <3> HIDE DEF new
    <3>3. ASSUME NEW e, e = new PROVE Even(e)'
      <4>1. e.id = trig + 1 /\ e.lec = seen[s] + 1
        BY <3>2, <3>3
      <4> QED BY <2>1, <2>3, <4>1, <1>t DEF Even
    <3>4. ASSUME NEW e \in Events(s) PROVE Even(e)'
      BY <1>k, <2>1, <2>2 DEF Even
    <3> QED BY <3>1, <3>3, <3>4
  <2> HIDE DEF new
  <2>8. seen'[s] = cnt' + (IF pend' THEN 1 ELSE 0)
    BY <2>1, <2>3, <2>4
  <2>9. cnt' > 0 => held'[s][bufIdx'] = [id |-> cur', lec |-> cnt']
    BY <2>1, <2>2, <2>5 DEF InStep
  <2>10. held'[s][1 - bufIdx'] = [id |-> trig', lec |-> cnt' + 1]
    BY <2>1, <2>5, <2>6
  <2> QED BY <2>7, <2>8, <2>9, <2>10 DEF Even, InStep
<1>2. ASSUME NEW c \in Chains, NEW r \in wire[c], Serve(c, r) PROVE InStep(s)'
  <2> SUFFICES ASSUME s \notin off', ~Again' PROVE InStep(s)'
    BY DEF InStep
  <2>1. UNCHANGED <<trig, cur, cnt, pend, bufIdx, seen, held, off, state, rpc>>
    BY <1>2 DEF Serve, soft, history
  <2>2. s \notin off /\ ~Again
    BY <2>1 DEF Again
  <2>3. \A M \in SUBSET Chains : ~Trigger(M)
    BY <2>1, <1>t DEF Trigger
  <2>4. \A e \in Events(s)' : Even(e)'
    BY <1>o, <2>1, <2>2, <2>3, EventsStep
  <2> QED BY <2>1, <2>2, <2>4 DEF Even, InStep
<1>3. CASE Begin
  <2> SUFFICES ASSUME s \notin off', ~Again' PROVE InStep(s)'
    BY DEF InStep
  <2>1. /\ pend /\ pend' = FALSE /\ cur' = trig /\ cnt' = cnt + 1 /\ bufIdx' = 1 - bufIdx
        /\ UNCHANGED <<trig, seen, held, mem, off, state>> /\ rpc = "idle"
    BY <1>3 DEF Begin, frontend
  <2>2. rpc' \in {"dt", "comm", "addr"}
    BY <1>3 DEF Begin
  <2>3. s \notin off /\ ~Again /\ trig = cur + 1
    BY <2>1, <2>2, <1>t DEF Again, BeforeLock, Cycle
  <2>4. \A e \in Events(s)' : Even(e)'
    <3>1. Events(s)' = Events(s)
      BY <2>1 DEF Events
    <3>2. ASSUME NEW e \in Events(s) PROVE Even(e)'
      <4>1. e.id \in Nat /\ e.lec \in Nat /\ Even(e)
        BY <1>k, <1>e, <1>v, <2>3
      <4> QED BY <2>1, <2>3, <4>1, <1>t DEF Even
    <3> QED BY <3>1, <3>2
  <2>5. seen'[s] = cnt' + (IF pend' THEN 1 ELSE 0)
    BY <2>1, <2>3, <1>t DEF InStep
  <2>6. held'[s][bufIdx'] = [id |-> cur', lec |-> cnt']
    BY <2>1, <2>3 DEF InStep
  <2> QED BY <2>1, <2>4, <2>5, <2>6 DEF Even, InStep
<1>4. CASE PrepAddr
  <2>1. UNCHANGED <<trig, cur, cnt, pend, bufIdx, seen, held, mem>> /\ off' = off
    BY <1>4 DEF PrepAddr, config, frontend, soft, control, history
  <2>2. Again => Again'
    BY <1>4 DEF PrepAddr, Again, BeforeLock
  <2> QED BY <1>u, <2>1, <2>2
<1>5. CASE PrepData
  <2>1. UNCHANGED <<trig, cur, cnt, pend, bufIdx, seen, held, mem>> /\ off' = off
    BY <1>5 DEF PrepData, config, frontend, soft, control, history
  <2>2. Again => Again'
    BY <1>5 DEF PrepData, Again, BeforeLock
  <2> QED BY <1>u, <2>1, <2>2
<1>6. CASE PrepComm
  <2>1. UNCHANGED <<trig, cur, cnt, pend, bufIdx, seen, held, mem>> /\ off' = off
    BY <1>6 DEF PrepComm, config, frontend, soft, control, history
  <2>2. Again => Again'
    BY <1>6 DEF PrepComm, Again, BeforeLock
  <2> QED BY <1>u, <2>1, <2>2
<1>7. CASE ReadoutDt /\ state = "REINIT"
  <2>1. Reinit
    BY <1>7 DEF ReadoutDt
  <2>2. seen'[s] = 0 /\ cnt' = 0 /\ Events(s)' = {NoEvent}
    BY <2>1, ReinitAt DEF Events

  <2>3. pend' = FALSE
    BY <1>7, <1>t DEF ReadoutDt, Cycle, Tagged
  <2> QED BY <1>z, <2>2, <2>3 DEF InStep
<1>8. CASE ReadoutDt /\ state # "REINIT"
  <2>1. UNCHANGED <<trig, cur, cnt, pend, bufIdx, seen, held, mem>> /\ off' = off
    BY <1>8 DEF ReadoutDt, config, frontend, control
  <2>2. Again => Again'
    BY <1>8 DEF ReadoutDt, Again, BeforeLock
  <2> QED BY <1>u, <2>1, <2>2
<1>9. CASE ReadStart
  <2>1. UNCHANGED <<trig, cur, cnt, pend, bufIdx, seen, held, mem>> /\ off' = off
    BY <1>9 DEF ReadStart, config, frontend, board, soft, control, history
  <2>2. Again => Again'
    BY <1>9 DEF ReadStart, Reading, Again, BeforeLock
  <2> QED BY <1>u, <2>1, <2>2
<1>10. CASE Issue
  <2>1. UNCHANGED <<trig, cur, cnt, pend, bufIdx, seen, held, mem>> /\ off' = off
    BY <1>10 DEF Issue, config, frontend, soft, control, history
  <2>2. Again => Again'
    BY <1>10 DEF Issue, Again, BeforeLock
  <2> QED BY <1>u, <2>1, <2>2
<1>11. CASE Receive
  <2>1. UNCHANGED <<trig, cur, cnt, pend, bufIdx, seen, held, mem>> /\ off' = off
    BY <1>11 DEF Receive, config, frontend, board, control
  <2>2. Again => Again'
    BY <1>11 DEF Receive, Reading, Again, BeforeLock
  <2> QED BY <1>u, <2>1, <2>2
<1>12. CASE Die
  <2>1. UNCHANGED <<trig, cur, cnt, pend, bufIdx, seen, held, mem>> /\ off' = off
    BY <1>12 DEF Die, config, frontend, board, soft, history
  <2>2. Again => Again'
    BY <1>12 DEF Die, Again, BeforeLock
  <2> QED BY <1>u, <2>1, <2>2
<1>13. CASE Finalize /\ state = "REINIT"
  <2>1. Reinit
    BY <1>13 DEF Finalize
  <2>2. seen'[s] = 0 /\ cnt' = 0 /\ Events(s)' = {NoEvent}
    BY <2>1, ReinitAt DEF Events

  <2>3. pend' = FALSE \/ Again'
    BY <1>13, <1>t DEF Finalize, Cycle, Tagged, Again, BeforeLock
  <2> QED BY <1>z, <2>2, <2>3 DEF InStep
<1>14. CASE Finalize /\ state # "REINIT" /\ isOn
  <2> SUFFICES ASSUME s \notin off', ~Again' PROVE InStep(s)'
    BY DEF InStep
  <2>1. Reconfigured(vec) /\ UNCHANGED <<trig, cur, cnt, pend>> /\ rpc = "fin"
    BY <1>14 DEF Finalize
  <2>2. s \notin off /\ ~Again
    BY <2>1, ReconfiguredAt DEF Again, BeforeLock
  <2>3. seen'[s] = seen[s] /\ held'[s] = held[s] /\ UNCHANGED <<mem, bufIdx>>
    BY <2>1, ReconfiguredAt
  <2>4. Events(s)' = Events(s)
    BY <2>3 DEF Events
  <2> QED BY <2>1, <2>2, <2>3, <2>4 DEF InStep
<1>15. CASE Finalize /\ state # "REINIT" /\ ~isOn
  <2>1. UNCHANGED <<trig, cur, cnt, pend, bufIdx, seen, held, mem>> /\ off' = off
    BY <1>15 DEF Finalize, config, frontend, control
  <2>2. Again => Again'
    BY <1>15 DEF Finalize, Again, BeforeLock
  <2> QED BY <1>u, <2>1, <2>2
<1>16. ASSUME NEW c \in Chains, Reconfigure(c) PROVE InStep(s)'
  <2>1. UNCHANGED <<trig, cur, cnt, pend, bufIdx, seen, held, mem>> /\ off' = off
    BY <1>16 DEF Reconfigure, config, frontend, board, soft, control
  <2>2. Again => Again'
    BY <1>16 DEF Reconfigure, Again, BeforeLock
  <2> QED BY <1>u, <2>1, <2>2
<1>17. ASSUME NEW c \in Chains, NEW k \in {"rd", "wr"}, GocClear(c, k)
    PROVE  InStep(s)'
  <2>1. UNCHANGED <<trig, cur, cnt, pend, bufIdx, seen, held, mem>> /\ off' = off
    BY <1>17 DEF GocClear, config, frontend, soft, history
  <2>2. Again => Again'
    BY <1>17 DEF GocClear, soft, Again, BeforeLock
  <2> QED BY <1>u, <2>1, <2>2
<1>18. CASE GocAddr
  <2>1. UNCHANGED <<trig, cur, cnt, pend, bufIdx, seen, held, mem>> /\ off' = off
    BY <1>18 DEF GocAddr, config, frontend, soft, history
  <2>2. Again => Again'
    BY <1>18 DEF GocAddr, soft, Again, BeforeLock
  <2> QED BY <1>u, <2>1, <2>2
<1>19. CASE GocData
  <2>1. UNCHANGED <<trig, cur, cnt, pend, bufIdx, seen, held, mem>> /\ off' = off
    BY <1>19 DEF GocData, config, frontend, soft, history
  <2>2. Again => Again'
    BY <1>19 DEF GocData, soft, Again, BeforeLock
  <2> QED BY <1>u, <2>1, <2>2
<1>20. CASE GocComm
  <2>1. UNCHANGED <<trig, cur, cnt, pend, bufIdx, seen, held, mem>> /\ off' = off
    BY <1>20 DEF GocComm, config, frontend, soft, history
  <2>2. Again => Again'
    BY <1>20 DEF GocComm, soft, Again, BeforeLock
  <2> QED BY <1>u, <2>1, <2>2
<1>21. CASE GocRx
  <2>1. UNCHANGED <<trig, cur, cnt, pend, bufIdx, seen, held, mem>> /\ off' = off
    BY <1>21 DEF GocRx, config, frontend, board, soft, history
  <2>2. Again => Again'
    BY <1>21 DEF GocRx, soft, Again, BeforeLock
  <2> QED BY <1>u, <2>1, <2>2
<1>22. CASE UNCHANGED vars
  <2>1. UNCHANGED <<trig, cur, cnt, pend, bufIdx, seen, held, mem>> /\ off' = off
    BY <1>22 DEF vars, config, frontend, board, soft, control, history
  <2>2. Again => Again'
    BY <1>22 DEF vars, soft, Again, BeforeLock
  <2> QED BY <1>u, <2>1, <2>2
<1> QED
  BY <1>1, <1>2, <1>3, <1>4, <1>5, <1>6, <1>7, <1>8, <1>9, <1>10, <1>11,
       <1>12, <1>13, <1>14, <1>15, <1>16, <1>17, <1>18, <1>19, <1>20, <1>21,
       <1>22
  DEF Next, Electronics, Readout, Control, Requests

-----------------------------------------------------------------------------
(* When the readout gets to a chain in step, the answer to its token is    *)
(* there, and it has brought the event of this cycle.                      *)
LEMMA AnswerIsThere ==
    ASSUME TypeOK, Locked, Cycle, InStep(rs), Line(rs),
           Clear(rs), rpc = "recv", Answered(rs), par \/ kind[rs] # "febex"
    PROVE  /\ \A cards \in {0, CardNum} : IsToken(rs, cards)
           /\ wire[rs] = {} /\ cnt > 0 /\ mem[rs] = [id |-> cur, lec |-> cnt]
<1>r. rs \in Chains /\ rs <= rs
  BY ChainRange DEF TypeOK, ThreadType, ConfigType
<1>t. cnt \in Nat /\ prev \in Nat /\ wait \in BOOLEAN /\ par \in BOOLEAN
  BY DEF TypeOK, SoftType, ConfigType
<1>1. cnt = prev + 1 /\ ~Again
  BY DEF Cycle, Locking, Again, BeforeLock
<1>2. NotServed(rs) \/ Served(rs)
  <2>1. cnt # prev
    BY <1>1, <1>t
  <2>2. Asked(rs)
    BY <2>1, <1>r DEF Asked, Locking
  <2> QED BY <1>1, <2>2 DEF Line, Connected
<1>3. /\ BufOf(TokenAddr(bufIdx)) = bufIdx
      /\ WaitOf(TokenAddr(bufIdx)) = wait
  BY RequestType
<1>4. ~NotServed(rs)
  <2> SUFFICES ASSUME NotServed(rs) PROVE FALSE
    OBVIOUS
  <2>1. Token \in wire[rs] /\ rep[rs] = NoReply /\ fresh[rs][bufIdx]
    BY DEF NotServed
  <2>2. Token.addr = TokenAddr(bufIdx)
    BY DEF Token
  <2>3. CanServe(rs, Token)
    BY <1>3, <2>1, <2>2 DEF CanServe
  <2>4. ~Silence(rs)
    BY <2>1, <2>3 DEF Silence
  <2> QED BY <2>1, <2>4 DEF Answered
<1>5. wire[rs] = {} /\ rep[rs] = TokenReply /\ mem[rs] = held[rs][bufIdx]
  BY <1>2, <1>4 DEF Served
<1>6. rep[rs].addr = TokenAddr(bufIdx) /\ rep[rs].data = CardNum /\ rep[rs].kind = "tk"
  BY <1>5 DEF TokenReply
<1>7. \A cards \in {0, CardNum} : IsToken(rs, cards)
  <2>1. rep[rs] # NoReply
    BY <1>6 DEF NoReply
  <2> QED BY <1>3, <1>6, <2>1, <1>t DEF IsToken
<1>8. cnt > 0
  BY <1>1, <1>t
<1>9. held[rs][bufIdx] = [id |-> cur, lec |-> cnt]
  BY <1>1, <1>8, <1>r DEF InStep, Clear
<1> QED BY <1>5, <1>7, <1>8, <1>9

LEMMA CountersStep ==
    ASSUME TypeOK, Locked, Cycle, [Next]_vars, NEW s \in Chains, Counters(s),
           InStep(rs), Line(rs)
    PROVE  Counters(s)'
<1>t. /\ cnt \in Nat /\ prev \in Nat /\ ctr[s] \in Nat /\ mbuf[s] \in 0..1
      /\ bufIdx \in 0..1 /\ isOn \in BOOLEAN /\ dist \in BOOLEAN /\ par \in BOOLEAN
      /\ rs \in Int /\ rs \in Chains /\ s \in Int /\ First <= s /\ s <= Last
      /\ kind[s] \in {"tamex", "febex", "ctdc"} /\ kind[rs] \in {"tamex", "febex", "ctdc"}
      /\ rpc \in BeforeLock \cup Locking \cup {"start", "fin", "died"}
  BY ChainRange DEF TypeOK, SoftType, ConfigType, HistoryType, ThreadType, Kinds
<1>p. kind' = kind /\ par' = par
  BY ConfigKept
<1>u. ASSUME UNCHANGED <<cnt, prev, ctr, mbuf, bufIdx, state, rpc, rs>>,
             off \subseteq off', dist => dist'
      PROVE  Counters(s)'
  BY <1>u, <1>p, <1>t DEF Counters, Uncounted, Again, Clear
<1>w. ASSUME UNCHANGED <<cnt, prev, ctr, mbuf, bufIdx, state, rs>>, off' = off, dist' = dist,
             rpc \in Tagged, rpc' \in Tagged
      PROVE  Counters(s)'
  BY <1>w, <1>p, <1>t DEF Counters, Uncounted, Again, Clear, Tagged, BeforeLock, Locking
<1>1. ASSUME NEW M \in SUBSET Chains, Trigger(M) PROVE Counters(s)'
  <2>1. UNCHANGED <<cnt, prev, ctr, mbuf, bufIdx, state, rpc, rs>>
    BY <1>1 DEF Trigger, soft, control
  <2>2. off \subseteq off' /\ (dist => dist')
    BY <1>1 DEF Trigger, soft, control
  <2> QED BY <1>u, <2>1, <2>2
<1>2. ASSUME NEW c \in Chains, NEW r \in wire[c], Serve(c, r)
    PROVE  Counters(s)'
  <2>1. UNCHANGED <<cnt, prev, ctr, mbuf, bufIdx, state, rpc, rs>>
    BY <1>2 DEF Serve, soft, control, history
  <2>2. off \subseteq off' /\ (dist => dist')
    BY <1>2 DEF Serve, soft, control, history
  <2> QED BY <1>u, <2>1, <2>2
<1>3. CASE Begin
  <2>1. /\ UNCHANGED <<prev, ctr, mbuf, state, rs, off>> /\ (dist => dist')
        /\ rpc = "idle" /\ cnt' = cnt + 1 /\ bufIdx' = 1 - bufIdx
    BY <1>3 DEF Begin
  <2>2. rpc' \in {"dt", "comm", "addr"}
    BY <1>3 DEF Begin
  <2>3. Again <=> Again'
    BY <2>1, <2>2 DEF Again, BeforeLock
  <2>4. ~Uncounted(s) /\ Uncounted(s)'
    BY <2>1, <2>2 DEF Uncounted, Tagged, Locking
  <2>5. Clear(s)' => Clear(s)
    BY <1>p, <2>1, <1>t DEF Clear
  <2>6. rpc # "died" /\ rpc # "fin" /\ rpc' \notin {"start"} \cup Locking
    BY <2>1, <2>2 DEF Locking
  <2>7. 1 - bufIdx' = bufIdx /\ cnt' - 1 = cnt
    BY <2>1, <1>t
  <2> QED BY <1>p, <1>t, <2>1, <2>3, <2>4, <2>5, <2>6, <2>7 DEF Counters
<1>4. CASE PrepAddr
  <2>1. /\ UNCHANGED <<cnt, prev, ctr, mbuf, bufIdx, state, rs, off, dist>>
        /\ rpc \in Tagged /\ rpc' \in Tagged
    BY <1>4 DEF PrepAddr, soft, history, Tagged
  <2> QED BY <1>w, <2>1
<1>5. CASE PrepData
  <2>1. /\ UNCHANGED <<cnt, prev, ctr, mbuf, bufIdx, state, rs, off, dist>>
        /\ rpc \in Tagged /\ rpc' \in Tagged
    BY <1>5 DEF PrepData, soft, history, Tagged
  <2> QED BY <1>w, <2>1
<1>6. CASE PrepComm
  <2>1. /\ UNCHANGED <<cnt, prev, ctr, mbuf, bufIdx, state, rs, off, dist>>
        /\ rpc \in Tagged /\ rpc' \in Tagged
    BY <1>6 DEF PrepComm, soft, history, Tagged
  <2> QED BY <1>w, <2>1
<1>7. CASE ReadoutDt /\ state = "REINIT"
  <2>1. Reinit
    BY <1>7 DEF ReadoutDt
  <2>2. ctr'[s] = 0 /\ cnt' = 0 /\ prev' = 0 /\ mbuf'[s] = 1 /\ bufIdx' = 1
    BY <2>1, ReinitAt
  <2>3. rpc' \in {"start", "idle"}
    BY <1>7 DEF ReadoutDt
  <2>4. ~Uncounted(s)'
    BY <2>2, <2>3 DEF Uncounted, Tagged, Locking
  <2>5. 0 = 0 - 0
    OBVIOUS
  <2> QED BY <1>p, <2>2, <2>3, <2>4, <2>5 DEF Counters
<1>8. CASE ReadoutDt /\ state # "REINIT"
  <2>1. /\ rpc = "dt" /\ UNCHANGED <<bufIdx, cnt, prev, off, dist, rs>>
        /\ ctr'[s] = IF kind[s] = "tamex" /\ bufIdx # mbuf[s] THEN ctr[s] + 1 ELSE ctr[s]
        /\ mbuf'[s] = IF kind[s] = "tamex" THEN bufIdx ELSE mbuf[s]
        /\ (rpc' = "fin" /\ state' = "REINIT") \/ rpc' = "start"
    BY <1>8 DEF ReadoutDt, Counted
  <2>2. ~Again /\ ~Again' /\ Uncounted(s) /\ cnt = prev + 1
    BY <1>8, <2>1 DEF Again, BeforeLock, Uncounted, Tagged, Cycle
  <2>3. kind[s] = "tamex" => ~Uncounted(s)'
    BY <1>p, <2>1 DEF Uncounted, Tagged, Locking
  <2>4. kind[s] = "ctdc" /\ rpc' = "start" => Uncounted(s)'
    BY <1>p, <1>t, <2>1, <2>2 DEF Uncounted
  <2>5. Clear(s)' <=> Clear(s)
    BY <1>p, <2>1 DEF Clear
  <2>6. kind[s] = "tamex" => ctr[s] + 1 = cnt /\ mbuf[s] # bufIdx
    BY <1>t, <2>2 DEF Counters
  <2>7. kind[s] = "tamex" => ctr'[s] = cnt /\ mbuf'[s] = bufIdx
    BY <2>1, <2>6
  <2>9. kind[s] = "ctdc" /\ Clear(s) => ctr'[s] = cnt - 1
    BY <2>1, <2>2 DEF Counters
  <2> QED BY <1>p, <1>t, <2>1, <2>2, <2>3, <2>4, <2>5, <2>7, <2>9 DEF Counters
<1>9. CASE ReadStart
  <2>1. /\ rpc = "start" /\ UNCHANGED <<bufIdx, cnt, prev, off, dist, ctr, mbuf, state>>
        /\ \/ cnt = prev /\ rpc' = "fin"
           \/ cnt # prev /\ rpc' \in Locking /\ rs' = First
    BY <1>9 DEF ReadStart, soft, history, Reading, Locking
  <2>2. ~Again /\ ~Again' /\ (Clear(s)' <=> Clear(s))
    BY <1>p, <2>1 DEF Again, BeforeLock, Clear, Locking
  <2>3. Uncounted(s)' <=> Uncounted(s)
    BY <1>p, <1>t, <2>1 DEF Uncounted, Tagged, Locking
  <2> QED BY <1>p, <2>1, <2>2, <2>3 DEF Counters
<1>10. CASE Issue
  <2>1. /\ rpc = "issue" /\ rpc' = "recv"
        /\ UNCHANGED <<bufIdx, cnt, prev, off, dist, ctr, mbuf, state, rs>>
    BY <1>10 DEF Issue, soft, history
  <2> QED BY <1>p, <2>1 DEF Counters, Uncounted, Tagged, Locking, Again, BeforeLock, Clear
<1>11. CASE Receive
  <2>1. /\ rpc = "recv" /\ Answered(rs) /\ ~Dies(rs)
        /\ UNCHANGED <<bufIdx, cnt, prev, off, dist, mbuf>>
        /\ \/ rs = Last /\ rpc' = "fin"
           \/ rs # Last /\ rpc' \in Locking /\ rs' = rs + 1 /\ UNCHANGED state
    BY <1>11 DEF Receive, Reading, Locking
  <2>2. ~Again /\ ~Again' /\ (Clear(s)' <=> Clear(s))
    BY <1>p, <2>1 DEF Again, BeforeLock, Clear, Locking
  <2>3. s # rs => ctr'[s] = ctr[s]
    BY <1>11, <1>t DEF Receive, TypeOK, SoftType
  <2>4. kind[s] = "tamex" => ctr'[s] = ctr[s]
    <3>1. CASE s = rs /\ kind[s] = "tamex"
      BY <1>11, <3>1, <1>t DEF Receive, ReadTamex, TypeOK, SoftType
    <3> QED BY <2>3, <3>1
  <2>5. CASE s # rs
    <3>1. Uncounted(s)' <=> Uncounted(s)
      BY <1>p, <1>t, <2>1, <2>5 DEF Uncounted, Tagged, Locking
    <3>2. rpc # "fin" /\ rpc # "died" /\ rpc \in Locking
      BY <2>1 DEF Locking
    <3> QED BY <1>p, <2>1, <2>2, <2>3, <2>5, <3>1, <3>2 DEF Counters
  <2>6. CASE s = rs /\ kind[s] = "tamex"
    <3>1. ~Uncounted(s)' /\ ~Uncounted(s)
      BY <1>p, <2>1, <2>6 DEF Uncounted, Tagged, Locking
    <3>2. rpc \in Locking
      BY <2>1 DEF Locking
    <3> QED BY <1>p, <2>1, <2>2, <2>4, <2>6, <3>1, <3>2 DEF Counters
  <2>7. CASE s = rs /\ kind[s] = "ctdc"
    <3>1. ~Uncounted(s)' /\ Uncounted(s)
      BY <1>p, <1>t, <2>1, <2>7 DEF Uncounted, Tagged, Locking
    <3>2. Clear(s) => ctr'[s] = cnt
      <4> SUFFICES ASSUME Clear(s) PROVE ctr'[s] = cnt
        OBVIOUS
      <4>1. ctr[s] = cnt - 1
        BY <2>1, <2>2, <2>7, <3>1 DEF Counters
      <4>2. IsToken(rs, 0)
        BY <2>1, <2>7, AnswerIsThere
      <4>3. ctr' = [ctr EXCEPT ![rs] = ctr[rs] + 1]
        BY <1>11, <2>7, <4>2 DEF Receive, ReadCtdc
      <4> QED BY <1>t, <2>7, <4>1, <4>3 DEF TypeOK, SoftType
    <3> QED BY <1>p, <1>t, <2>1, <2>2, <2>7, <3>1, <3>2 DEF Counters
  <2>8. CASE s = rs /\ kind[s] = "febex"
    BY <1>p, <2>8 DEF Counters
  <2> QED BY <1>t, <2>5, <2>6, <2>7, <2>8
<1>12. CASE Die
  <2>1. /\ rpc = "recv" /\ rpc' = "died"
        /\ UNCHANGED <<bufIdx, cnt, prev, off, dist, ctr, mbuf, state, rs>>
    BY <1>12 DEF Die, soft, history
  <2> QED BY <1>p, <2>1 DEF Counters, Uncounted, Tagged, Locking, Again, BeforeLock, Clear
<1>13. CASE Finalize /\ state = "REINIT"
  <2>1. Reinit
    BY <1>13 DEF Finalize
  <2>2. ctr'[s] = 0 /\ cnt' = 0 /\ prev' = 0 /\ mbuf'[s] = 1 /\ bufIdx' = 1
    BY <2>1, ReinitAt
  <2>3. rpc' \in {"start", "idle"}
    BY <1>13 DEF Finalize
  <2>4. ~Uncounted(s)'
    BY <2>2, <2>3 DEF Uncounted, Tagged, Locking
  <2>5. 0 = 0 - 0
    OBVIOUS
  <2> QED BY <1>p, <2>2, <2>3, <2>4, <2>5 DEF Counters
<1>14. CASE Finalize /\ state # "REINIT" /\ isOn
  <2>1. Reconfigured(vec) /\ UNCHANGED <<cnt, state>> /\ rpc = "fin" /\ rpc' = "idle"
    BY <1>14 DEF Finalize
  <2>2. /\ s \notin off' => ctr'[s] = ctr[s]
        /\ kind[s] = "tamex" => ctr'[s] = ctr[s] /\ mbuf'[s] \in {mbuf[s], bufIdx}
        /\ off \subseteq off' /\ UNCHANGED <<bufIdx, dist>>
    BY <2>1, ReconfiguredAt
  <2>3. Clear(s)' => Clear(s) /\ s \notin off'
    BY <1>p, <2>2 DEF Clear
  <2>4. ~Uncounted(s) /\ ~Uncounted(s)' /\ ~Again
    BY <2>1 DEF Uncounted, Tagged, Locking, Again, BeforeLock
  <2> QED BY <1>14, <1>p, <2>1, <2>2, <2>3, <2>4 DEF Counters, Locking
<1>15. CASE Finalize /\ state # "REINIT" /\ ~isOn
  <2>1. /\ UNCHANGED <<cnt, state, ctr, mbuf, off, bufIdx, dist>>
        /\ rpc = "fin" /\ rpc' = "idle"
    BY <1>15 DEF Finalize
  <2>3. Clear(s)' <=> Clear(s)
    BY <1>p, <2>1 DEF Clear
  <2>4. ~Uncounted(s) /\ ~Uncounted(s)' /\ ~Again
    BY <2>1 DEF Uncounted, Tagged, Locking, Again, BeforeLock
  <2> QED BY <1>15, <1>p, <2>1, <2>3, <2>4 DEF Counters, Locking
<1>16. ASSUME NEW c \in Chains, Reconfigure(c) PROVE Counters(s)'
  <2>1. UNCHANGED <<cnt, prev, ctr, mbuf, bufIdx, state, rpc, rs>>
    BY <1>16 DEF Reconfigure, soft, control
  <2>2. off \subseteq off' /\ (dist => dist')
    BY <1>16 DEF Reconfigure, soft, control
  <2> QED BY <1>u, <2>1, <2>2
<1>17. ASSUME NEW c \in Chains, NEW k \in {"rd", "wr"}, GocClear(c, k)
    PROVE  Counters(s)'
  <2>1. UNCHANGED <<cnt, prev, ctr, mbuf, bufIdx, state, rpc, rs>>
    BY <1>17 DEF GocClear, soft, history
  <2>2. off \subseteq off' /\ (dist => dist')
    BY <1>17 DEF GocClear, soft, history, Touch
  <2> QED BY <1>u, <2>1, <2>2
<1>18. CASE GocAddr
  <2>1. UNCHANGED <<cnt, prev, ctr, mbuf, bufIdx, state, rpc, rs>>
    BY <1>18 DEF GocAddr, soft, history
  <2>2. off \subseteq off' /\ (dist => dist')
    BY <1>18 DEF GocAddr, soft, history, Touch
  <2> QED BY <1>u, <2>1, <2>2
<1>19. CASE GocData
  <2>1. UNCHANGED <<cnt, prev, ctr, mbuf, bufIdx, state, rpc, rs>>
    BY <1>19 DEF GocData, soft, history
  <2>2. off \subseteq off' /\ (dist => dist')
    BY <1>19 DEF GocData, soft, history, Touch
  <2> QED BY <1>u, <2>1, <2>2
<1>20. CASE GocComm
  <2>1. UNCHANGED <<cnt, prev, ctr, mbuf, bufIdx, state, rpc, rs>>
    BY <1>20 DEF GocComm, soft, history
  <2>2. off \subseteq off' /\ (dist => dist')
    BY <1>20 DEF GocComm, soft, history, Touch
  <2> QED BY <1>u, <2>1, <2>2
<1>21. CASE GocRx
  <2>1. UNCHANGED <<cnt, prev, ctr, mbuf, bufIdx, state, rpc, rs>>
    BY <1>21 DEF GocRx, soft, history
  <2>2. off \subseteq off' /\ (dist => dist')
    BY <1>21 DEF GocRx, soft, history, Touch
  <2> QED BY <1>u, <2>1, <2>2
<1>22. CASE UNCHANGED vars
  <2>1. UNCHANGED <<cnt, prev, ctr, mbuf, bufIdx, state, rpc, rs>>
    BY <1>22 DEF vars, soft, history
  <2>2. off \subseteq off' /\ (dist => dist')
    BY <1>22 DEF vars, soft, history
  <2> QED BY <1>u, <2>1, <2>2
<1> QED
  BY <1>1, <1>2, <1>3, <1>4, <1>5, <1>6, <1>7, <1>8, <1>9, <1>10, <1>11,
       <1>12, <1>13, <1>14, <1>15, <1>16, <1>17, <1>18, <1>19, <1>20, <1>21,
       <1>22
  DEF Next, Electronics, Readout, Control, Requests

(* A step of the control thread and the answer to a token do not meet at a *)
(* chain in step.                                                          *)
LEMMA AccessAlone ==
    ASSUME TypeOK, Locked, NEW s \in Chains, Clear(s)
    PROVE  cpc # "idle" => ~Asked(s) /\ (par => rpc = "idle")
<1> SUFFICES ASSUME cpc # "idle" PROVE ~Asked(s) /\ (par => rpc = "idle")
  OBVIOUS
<1>1. dist \in BOOLEAN /\ par \in BOOLEAN
  BY DEF TypeOK, HistoryType, ConfigType
<1>2. par => rpc = "idle"
  BY <1>1 DEF Clear, Locked
<1>3. rpc # "recv"
  BY DEF Locked, Locking
<1> QED BY <1>1, <1>2, <1>3 DEF Asked, Locking

(* The check of crate_readout_dt on the counter of a TAMEX never fails:    *)
(* both sides count the flips of the buffer index.                         *)
LEMMA CountersMatch ==
    ASSUME TypeOK, Cycle, Synchronous, rpc = "dt", state # "REINIT",
           NEW s \in Chains, kind[s] = "tamex"
    PROVE  Counted[s] = cnt
<1>1. /\ cnt \in Nat /\ ctr[s] \in Nat /\ mbuf[s] \in 0..1 /\ bufIdx \in 0..1
  BY DEF TypeOK, SoftType
<1>2. ~Again /\ Uncounted(s)
  BY DEF Again, Uncounted, Tagged
<1>3. ctr[s] = cnt - 1 /\ mbuf[s] = 1 - bufIdx
  BY <1>2 DEF Synchronous, Counters
<1> QED BY <1>1, <1>3 DEF Counted

LEMMA LineStep ==
    ASSUME TypeOK, Locked, Cycle, [Next]_vars, NEW s \in Chains, Line(s),
           Synchronous
    PROVE  Line(s)'
<1>t. /\ cnt \in Nat /\ prev \in Nat /\ bufIdx \in 0..1 /\ rs \in Int /\ rs \in Chains
      /\ isOn \in BOOLEAN /\ dist \in BOOLEAN /\ par \in BOOLEAN /\ wait \in BOOLEAN
      /\ v5 \in BOOLEAN /\ pend \in BOOLEAN /\ dt \in BOOLEAN
      /\ s \in Int /\ First <= s /\ s <= Last /\ First \in Int
      /\ kind[s] \in {"tamex", "febex", "ctdc"} /\ kind[rs] \in {"tamex", "febex", "ctdc"}
      /\ rpc \in BeforeLock \cup Locking \cup {"start", "fin", "died"}
  BY ChainRange DEF TypeOK, FrontendType, SoftType, ConfigType, HistoryType, ThreadType, Kinds
<1>f. /\ fresh \in [Chains -> Marks] /\ fresh[s] \in [0..1 -> BOOLEAN]
      /\ held[s] \in [0..1 -> Event] /\ wire \in [Chains -> SUBSET Request]
      /\ rep \in [Chains -> Reply] /\ mem \in [Chains -> Event]
      /\ creq \in [s : Chains, kind : {"rd", "wr"}]
  BY DEF TypeOK, FrontendType, BoardType, ThreadType, Buffers, Marks
<1>p. UNCHANGED <<kind, par, wait, v5>> /\ First' = First
  BY ConfigKept, ChainsKept
<1>s. InStep(s) /\ InStep(rs)
  BY <1>t DEF Synchronous
<1> SUFFICES ASSUME Clear(s)', rpc' # "died" PROVE Connected(s)'
  BY DEF Line
<1>l. ASSUME Clear(s), rpc # "died" PROVE Connected(s)
  BY <1>l DEF Line
<1>c. (off \subseteq off' /\ (dist => dist')) => Clear(s)
  BY <1>p, <1>t DEF Clear
<1>u. ASSUME UNCHANGED <<wire, rep, mem, held, fresh, bufIdx, cpc, creq, pend>>,
             Asked(s)' <=> Asked(s), ToAsk(s)' => ToAsk(s), Again => Again', Connected(s)
      PROVE  Connected(s)'
  BY <1>u, <1>p DEF Connected, Accessed, AccessOpen, NotServed, Served, Token, TokenReply,
       TokenAddr
<1>1. ASSUME NEW M \in SUBSET Chains, Trigger(M) PROVE Connected(s)'
  <2>1. /\ UNCHANGED <<wire, rep, mem, bufIdx, cpc, creq, cnt, prev, state, rpc, rs, dist>>
        /\ ~pend
    BY <1>1, <1>t DEF Trigger, board, soft, control, Cycle
  <2>2. s \notin off /\ s \notin M /\ Clear(s)
    BY <1>1, <1>p, <2>1, TriggerAt DEF Clear
  <2>3. Connected(s)
    BY <1>l, <2>1, <2>2
  <2>4. (Asked(s)' <=> Asked(s)) /\ (ToAsk(s)' <=> ToAsk(s)) /\ (Again' <=> Again)
    BY <1>p, <2>1 DEF Asked, ToAsk, Again
  <2>5. ASSUME ~Again
        PROVE  /\ fresh'[s][1 - bufIdx] /\ fresh'[s][bufIdx] = fresh[s][bufIdx]
               /\ held'[s][bufIdx] = held[s][bufIdx]
    <3>1. seen[s] = cnt
      BY <2>1, <2>2, <2>5, <1>t, <1>s DEF InStep
    <3>2. cnt % 2 = 1 - bufIdx
      <4>1. \A n \in Nat : n % 2 = 1 - ((n + 1) % 2)
        OBVIOUS
      <4> QED BY <4>1, <1>t DEF Cycle
    <3>3. fresh'[s] = [fresh[s] EXCEPT ![1 - bufIdx] = TRUE]
      BY <1>1, <2>2, <3>1, <3>2, TriggerAt
    <3>4. held'[s] = [held[s] EXCEPT ![1 - bufIdx] = [id |-> trig + 1, lec |-> seen[s] + 1]]
      BY <1>1, <2>2, <3>1, <3>2, TriggerAt
    <3>5. 1 - bufIdx \in 0..1 /\ 1 - bufIdx # bufIdx
      BY <1>t
    <3> QED BY <1>f, <1>t, <3>3, <3>4, <3>5
  <2> QED BY <1>p, <2>1, <2>3, <2>4, <2>5
        DEF Connected, Accessed, AccessOpen, NotServed, Served, Token, TokenReply, TokenAddr
<1>2. ASSUME NEW c \in Chains, NEW r \in wire[c], Serve(c, r)
    PROVE  Connected(s)'
  <2>1. /\ UNCHANGED <<held, bufIdx, cpc, creq, pend, cnt, prev, state, rpc, rs, off, dist>>
        /\ r \in wire[c]
    BY <1>2 DEF Serve, soft, control, history
  <2>w. wire' = [wire EXCEPT ![c] = wire[c] \ {r}]
    BY <1>2 DEF Serve
  <2>2. Connected(s) /\ Clear(s) /\ rpc # "died"
    BY <1>c, <1>l, <2>1
  <2>3. (Asked(s)' <=> Asked(s)) /\ (ToAsk(s)' <=> ToAsk(s)) /\ (Again' <=> Again)
    BY <1>p, <2>1 DEF Asked, ToAsk, Again
  <2>4. CASE s # c
    <3>1. rep'[s] = rep[s] /\ mem'[s] = mem[s] /\ fresh'[s] = fresh[s] /\ wire'[s] = wire[s]
      BY <1>2, <2>w, <2>4, <1>f DEF Serve
    <3> QED BY <1>p, <2>1, <2>2, <2>3, <3>1
          DEF Connected, Accessed, AccessOpen, NotServed, Served, Token, TokenReply, TokenAddr
  <2>5. CASE s = c /\ r.kind # "tk"
    <3>1. rep'[s].kind = r.kind /\ fresh' = fresh /\ mem' = mem
      BY <1>2, <2>5, <1>f DEF Serve
    <3>2. wire'[s] = wire[s] \ {r} /\ r \in wire[s]
      BY <2>1, <2>w, <2>5, <1>f
    <3>3. Asked(s) => Again \/ FALSE
      BY <2>2, <2>5, <3>2 DEF Connected, NotServed, Served, Token
    <3>4. Asked(s) => ~Accessed(s)
      BY <2>2, AccessAlone DEF Accessed
    <3>5. ToAsk(s) => ~Asked(s)
      BY <1>t DEF ToAsk, Asked, Locking
    <3>6. ~Asked(s) => Accessed(s) /\ cpc = "rx" /\ wire[s] = {r} /\ r.kind = creq.kind
      BY <2>2, <3>2 DEF Connected, AccessOpen
    <3>7. ToAsk(s) => ~par
      BY <2>2, <3>5, <3>6, AccessAlone DEF ToAsk, Accessed
    <3>8. ~Asked(s) => wire'[s] = {} /\ rep'[s].kind = creq.kind
      BY <3>1, <3>2, <3>6
    <3> QED BY <1>p, <2>1, <2>2, <2>3, <3>1, <3>3, <3>4, <3>5, <3>6, <3>7, <3>8
          DEF Connected, Accessed
  <2>6. CASE s = c /\ r.kind = "tk"
    <3>1. wire'[s] = wire[s] \ {r} /\ r \in wire[s]
      BY <2>1, <2>w, <2>6, <1>f
    <3>2. ~Accessed(s) /\ Asked(s)
      <4>1. creq.kind # "tk"
        BY <1>f
      <4>2. ~(Accessed(s) /\ cpc = "rx" /\ AccessOpen(s))
        BY <2>6, <3>1, <4>1 DEF AccessOpen
      <4>3. ~Accessed(s)
        BY <2>2, <3>1, <4>2 DEF Connected
      <4> QED BY <2>2, <3>1, <4>3 DEF Connected
    <3>3. ~ToAsk(s)
      BY <1>t, <3>2 DEF ToAsk, Asked, Locking
    <3>4. CASE ~Again
      <4>1. NotServed(s) /\ r = Token
        BY <2>2, <3>1, <3>2, <3>4 DEF Connected, NotServed, Served
      <4>2. BufOf(r.addr) = bufIdx /\ r.addr % 4 = TokenAddr(bufIdx)
        BY <4>1, RequestType DEF Token
      <4>3. /\ rep'[s] = TokenReply
            /\ mem'[s] = held[s][bufIdx]
            /\ fresh' = [fresh EXCEPT ![s][bufIdx] = FALSE]
        <5>1. rep' = [rep EXCEPT ![s] = [kind |-> "tk", addr |-> r.addr % 4, data |-> CardNum]]
          BY <1>2, <2>6 DEF Serve
        <5>2. \E e \in {held[s][bufIdx]} : mem' = [mem EXCEPT ![s] = e]
          BY <1>2, <2>6, <4>1, <4>2 DEF Serve, NotServed
        <5>3. fresh' = [fresh EXCEPT ![s][bufIdx] = FALSE]
          BY <1>2, <2>6, <4>2 DEF Serve
        <5> QED BY <1>f, <4>2, <5>1, <5>2, <5>3 DEF TokenReply
      <4>4. fresh'[s][1 - bufIdx] = fresh[s][1 - bufIdx]
        <5>1. fresh'[s] = [fresh[s] EXCEPT ![bufIdx] = FALSE]
          BY <1>f, <4>3
        <5>2. 1 - bufIdx \in 0..1 /\ 1 - bufIdx # bufIdx
          BY <1>t
        <5> QED BY <1>f, <5>1, <5>2
      <4>5. wire'[s] = {}
        BY <3>1, <4>1 DEF NotServed
      <4>6. Served(s)'
        BY <1>p, <2>1, <4>3, <4>5 DEF Served, TokenReply, TokenAddr
      <4> QED BY <1>p, <2>1, <2>2, <2>3, <3>2, <3>3, <4>4, <4>6 DEF Connected, Accessed
    <3> QED BY <1>p, <2>1, <2>3, <3>2, <3>3, <3>4 DEF Connected, Accessed
  <2> QED BY <2>4, <2>5, <2>6
<1>3. CASE Begin
  <2>1. /\ UNCHANGED <<wire, mem, held, fresh, cpc, creq, prev, state, off>> /\ (dist => dist')
        /\ rpc = "idle" /\ pend /\ pend' = FALSE /\ cnt' = cnt + 1 /\ bufIdx' = 1 - bufIdx
        /\ rpc' \in {"dt", "comm", "addr"} /\ (~par => rpc' = "dt") /\ (par => rpc' # "dt")
        /\ dist' = (dist \/ cpc # "idle")
    BY <1>3, <1>t DEF Begin, frontend, control
  <2>2. rep' = IF par THEN [c \in Chains |-> NoReply] ELSE rep
    BY <1>3 DEF Begin
  <2>3. Connected(s)
    BY <1>c, <1>l, <2>1
  <2>4. ~Asked(s) /\ ~Asked(s)' /\ (Again <=> Again')
    BY <1>p, <1>t, <2>1 DEF Asked, Again, BeforeLock, Locking
  <2>5. par => cpc = "idle" /\ rep'[s] = NoReply
    BY <1>p, <2>1, <2>2, <1>t DEF Clear
  <2>6. ~Again => fresh'[s][bufIdx']
    BY <2>1, <2>3 DEF Connected
  <2>7. ~par => rep' = rep
    BY <2>2
  <2>8. Accessed(s)' <=> Accessed(s)
    BY <2>1 DEF Accessed
  <2> QED BY <1>p, <1>t, <2>1, <2>3, <2>4, <2>5, <2>6, <2>7, <2>8 DEF Connected, AccessOpen, Accessed
<1>4. CASE PrepAddr
  <2>1. /\ UNCHANGED <<wire, rep, mem, held, fresh, bufIdx, cpc, creq, pend, cnt, prev>>
        /\ UNCHANGED <<state, off, dist>> /\ rpc = "addr" /\ rpc' = "data"
    BY <1>4 DEF PrepAddr, frontend, soft, control, history
  <2>2. Connected(s) /\ par
    BY <1>c, <1>l, <2>1 DEF Locked
  <2>3. (Asked(s)' <=> Asked(s)) /\ (ToAsk(s)' <=> ToAsk(s)) /\ (Again' <=> Again)
    BY <1>p, <2>1, <2>2 DEF Asked, ToAsk, Again, BeforeLock, Locking
  <2> QED BY <1>u, <2>1, <2>2, <2>3
<1>5. CASE PrepData
  <2>1. /\ UNCHANGED <<wire, rep, mem, held, fresh, bufIdx, cpc, creq, pend, cnt, prev>>
        /\ UNCHANGED <<state, off, dist>> /\ rpc = "data" /\ rpc' = "comm"
    BY <1>5 DEF PrepData, frontend, soft, control, history
  <2>2. Connected(s) /\ par
    BY <1>c, <1>l, <2>1 DEF Locked
  <2>3. (Asked(s)' <=> Asked(s)) /\ (ToAsk(s)' <=> ToAsk(s)) /\ (Again' <=> Again)
    BY <1>p, <2>1, <2>2 DEF Asked, ToAsk, Again, BeforeLock, Locking
  <2> QED BY <1>u, <2>1, <2>2, <2>3
<1>6. CASE PrepComm
  <2>1. /\ UNCHANGED <<rep, mem, held, fresh, bufIdx, cpc, creq, pend, cnt, prev>>
        /\ UNCHANGED <<state, off, dist>> /\ rpc = "comm" /\ rpc' = "dt"
        /\ Send(Chains, "tk", IF v5 THEN TokenAddr(bufIdx) ELSE reqA, 0)
    BY <1>6 DEF PrepComm, frontend, soft, control, history
  <2>2. Connected(s) /\ Clear(s) /\ par /\ cpc = "idle" /\ ~dist
    BY <1>c, <1>l, <1>t, <2>1 DEF Locked, Clear
  <2>3. cnt # prev
    BY <1>t, <2>1 DEF Cycle, Tagged
  <2>4. ToAsk(s) /\ ~Asked(s) /\ ~ToAsk(s)' /\ (Again' <=> Again)
    BY <1>p, <2>1, <2>2, <2>3 DEF ToAsk, Asked, Locking, Again, BeforeLock
  <2>5. Asked(s)'
    BY <1>p, <2>1, <2>2, <2>3 DEF Asked
  <2>6. wire'[s] = {Token}
    <3>1. wire[s] = {}
      BY <2>2, <2>4 DEF Connected, Accessed
    <3>2. v5 \/ reqA = TokenAddr(bufIdx)
      BY <2>1, <2>2 DEF Locked
    <3> QED BY <1>t, <2>1, <3>1, <3>2 DEF Send, Token
  <2>7. ~Again => NotServed(s)'
    BY <1>p, <2>1, <2>2, <2>4, <2>6 DEF NotServed, Connected, Token, TokenAddr
  <2> QED BY <1>p, <2>1, <2>2, <2>4, <2>5, <2>7 DEF Connected, Accessed
<1>7. CASE ReadoutDt /\ state = "REINIT"
  <2>1. Reinit /\ cpc' = cpc /\ mutex = "none"
    BY <1>7 DEF ReadoutDt, control
  <2>2. cpc' = "idle" /\ wire'[s] = {} /\ cnt' = 0 /\ prev' = 0
    BY <2>1, ReinitAt DEF Locked
  <2>3. pend' => Again'
    BY <1>7, <1>t DEF ReadoutDt, Cycle, Tagged, Again, BeforeLock
  <2> QED BY <2>2, <2>3 DEF Connected, Asked, ToAsk, Accessed
<1>8. CASE ReadoutDt /\ state # "REINIT"
  <2>1. /\ UNCHANGED <<wire, rep, mem, held, fresh, bufIdx, cpc, creq, pend, cnt, prev, off, dist>>
        /\ rpc = "dt" /\ mutex = "none" /\ rpc' = "start" /\ state' = "READY"
    BY <1>8, CountersMatch DEF ReadoutDt, frontend, control
  <2>2. Connected(s)
    BY <1>c, <1>l, <2>1
  <2>3. (Asked(s)' <=> Asked(s)) /\ (ToAsk(s)' <=> ToAsk(s)) /\ ~Again
    BY <1>8, <1>p, <2>1 DEF Asked, ToAsk, Again, Locking
  <2> QED BY <1>u, <2>1, <2>2, <2>3
<1>9. CASE ReadStart
  <2>1. /\ UNCHANGED <<wire, rep, mem, held, fresh, bufIdx, cpc, creq, pend, cnt, prev>>
        /\ UNCHANGED <<state, off, dist>> /\ rpc = "start"
        /\ \/ cnt = prev /\ rpc' = "fin"
           \/ cnt # prev /\ rpc' = Reading(First) /\ rs' = First
    BY <1>9 DEF ReadStart, frontend, board, soft, control, history
  <2>2. Connected(s)
    BY <1>c, <1>l, <2>1
  <2>3. (Asked(s)' <=> Asked(s)) /\ (ToAsk(s)' => ToAsk(s)) /\ ~Again
    BY <1>p, <1>t, <2>1 DEF Asked, ToAsk, Again, BeforeLock, Locking, Reading
  <2> QED BY <1>u, <2>1, <2>2, <2>3
<1>10. CASE Issue
  <2>1. /\ UNCHANGED <<mem, held, fresh, bufIdx, cpc, creq, pend, cnt, prev>>
        /\ UNCHANGED <<state, off, dist, rs>> /\ rpc = "issue" /\ rpc' = "recv"
        /\ rep' = [rep EXCEPT ![rs] = NoReply]
        /\ Send({rs}, "tk", TokenAddr(bufIdx), 0)
    BY <1>10 DEF Issue, frontend, soft, control, history, RxClear
  <2>2. /\ Connected(s) /\ ~par /\ kind[rs] # "febex" /\ cpc = "idle" /\ cnt # prev /\ ~Again
    BY <1>c, <1>l, <1>t, <2>1 DEF Locked, Locking, Cycle, Again, BeforeLock
  <2>3. CASE s # rs
    <3>1. wire'[s] = wire[s] /\ rep'[s] = rep[s]
      BY <1>f, <2>1, <2>3 DEF Send
    <3>2. (Asked(s)' <=> Asked(s)) /\ (ToAsk(s)' <=> ToAsk(s)) /\ ~Again'
      BY <1>p, <2>1, <2>2, <2>3 DEF Asked, ToAsk, Locking, Again, BeforeLock
    <3> QED BY <1>p, <2>1, <2>2, <3>1, <3>2 DEF Connected, Accessed, NotServed, Served, Token,
          TokenReply, TokenAddr
  <2>4. CASE s = rs
    <3>1. ~Asked(s) /\ ToAsk(s) /\ Asked(s)' /\ ~ToAsk(s)'
      BY <1>p, <1>t, <2>1, <2>2, <2>4 DEF Asked, ToAsk, Locking
    <3>2. wire[s] = {} /\ fresh[s][bufIdx]
      BY <2>2, <3>1 DEF Connected, Accessed
    <3>3. wire'[s] = {Token} /\ rep'[s] = NoReply
      BY <1>f, <2>1, <2>4, <3>2 DEF Send, Token
    <3>4. NotServed(s)'
      BY <1>p, <2>1, <3>2, <3>3 DEF NotServed, Token, TokenAddr
    <3> QED BY <1>p, <2>1, <2>2, <3>1, <3>4 DEF Connected, Accessed
  <2> QED BY <2>3, <2>4
<1>11. CASE Receive
  <2>1. /\ UNCHANGED <<wire, rep, mem, held, fresh, bufIdx, cpc, creq, pend, cnt, prev>>
        /\ UNCHANGED <<off, dist>> /\ rpc = "recv" /\ Answered(rs) /\ ~Dies(rs)
        /\ \/ rs = Last /\ rpc' = "fin"
           \/ rs # Last /\ rpc' = Reading(rs + 1) /\ rs' = rs + 1
    BY <1>11 DEF Receive, frontend, board, control
  <2>2. Connected(s) /\ Clear(s) /\ cpc = "idle" /\ cnt # prev /\ ~Again
    BY <1>c, <1>l, <1>t, <2>1 DEF Locked, Locking, Cycle, Again, BeforeLock
  <2>3. ~Again'
    BY <2>1 DEF Again, BeforeLock, Reading
  <2>4. CASE s # rs
    <3>1. (Asked(s)' <=> Asked(s)) /\ (ToAsk(s)' => ToAsk(s))
      BY <1>p, <1>t, <2>1, <2>2, <2>4 DEF Asked, ToAsk, Locking, Reading
    <3> QED BY <1>u, <2>1, <2>2, <3>1
  <2>5. CASE s = rs
    <3>a. Clear(rs) /\ InStep(rs) /\ Line(rs)
      BY <1>s, <2>2, <2>5
    <3>1. kind[rs] # "febex"
      <4> SUFFICES ASSUME kind[rs] = "febex" PROVE FALSE
        OBVIOUS
      <4>1. par
        BY <1>t, <2>1 DEF Dies
      <4>2. IsToken(rs, 0)
        BY <2>1, <3>a, <4>1, AnswerIsThere
      <4> QED BY <2>1, <4>2 DEF Dies, ReadFebex
    <3>2. wire[s] = {}
      BY <2>1, <2>5, <3>a, <3>1, AnswerIsThere
    <3>3. ~Asked(s)' /\ ~ToAsk(s)'
      BY <1>p, <1>t, <2>1, <2>5 DEF Asked, ToAsk, Locking, Reading
    <3>4. Asked(s)
      BY <1>t, <2>1, <2>2, <2>5, <3>1 DEF Asked, Locking
    <3> QED BY <1>p, <2>1, <2>2, <2>3, <3>2, <3>3 DEF Connected, Accessed
  <2> QED BY <2>4, <2>5
<1>12. CASE Die
  BY <1>12 DEF Die
<1>13. CASE Finalize /\ state = "REINIT"
  <2>1. Reinit /\ cpc' = cpc /\ mutex = "none"
    BY <1>13 DEF Finalize, control
  <2>2. cpc' = "idle" /\ wire'[s] = {} /\ cnt' = 0 /\ prev' = 0
    BY <2>1, ReinitAt DEF Locked
  <2>3. pend' => Again'
    BY <1>13, <1>t DEF Finalize, Cycle, Tagged, Again, BeforeLock
  <2> QED BY <2>2, <2>3 DEF Connected, Asked, ToAsk, Accessed
<1>14. CASE Finalize /\ state # "REINIT" /\ isOn
  <2>1. /\ Reconfigured(vec) /\ UNCHANGED <<cnt, pend, state, cpc, creq>> /\ prev' = cnt
        /\ rpc = "fin" /\ rpc' = "idle" /\ mutex = "none"
    BY <1>14 DEF Finalize, control
  <2>2. off \subseteq off' /\ UNCHANGED <<wire, mem, bufIdx, dist>>
    BY <2>1, ReconfiguredAt
  <2>3. s \notin off' /\ Connected(s)
    BY <1>c, <1>l, <2>1, <2>2 DEF Clear
  <2>4. fresh'[s] = fresh[s]
    BY <2>1, <2>3, ReconfiguredAt
  <2>5. ~Asked(s) /\ ~Asked(s)' /\ ~ToAsk(s)' /\ ~Again /\ cpc = "idle"
    BY <1>p, <2>1 DEF Asked, ToAsk, Locking, Again, BeforeLock, Locked
  <2> QED BY <2>1, <2>2, <2>3, <2>4, <2>5 DEF Connected, Accessed
<1>15. CASE Finalize /\ state # "REINIT" /\ ~isOn
  <2>1. /\ UNCHANGED <<wire, rep, mem, held, fresh, bufIdx, cpc, creq, pend, cnt, state, off, dist>>
        /\ prev' = cnt /\ rpc = "fin" /\ rpc' = "idle"
    BY <1>15 DEF Finalize, frontend, control
  <2>2. Connected(s)
    BY <1>c, <1>l, <2>1
  <2>3. ~Asked(s) /\ ~Asked(s)' /\ ~ToAsk(s)' /\ ~Again
    BY <1>p, <2>1 DEF Asked, ToAsk, Locking, Again, BeforeLock
  <2> QED BY <1>u, <2>1, <2>2, <2>3
<1>16. ASSUME NEW c \in Chains, Reconfigure(c) PROVE Connected(s)'
  <2>1. /\ UNCHANGED <<wire, rep, mem, held, fresh, bufIdx, cpc, creq, pend, cnt, prev>>
        /\ UNCHANGED <<state, rpc, rs>> /\ off \subseteq off' /\ (dist => dist')
    BY <1>16 DEF Reconfigure, frontend, board, soft, control
  <2>2. Connected(s)
    BY <1>c, <1>l, <2>1
  <2>3. (Asked(s)' <=> Asked(s)) /\ (ToAsk(s)' <=> ToAsk(s)) /\ (Again' <=> Again)
    BY <1>p, <2>1 DEF Asked, ToAsk, Again
  <2> QED BY <1>u, <2>1, <2>2, <2>3
<1>17. ASSUME NEW c \in Chains, NEW k \in {"rd", "wr"}, GocClear(c, k)
    PROVE  Connected(s)'
  <2>1. /\ UNCHANGED <<wire, mem, held, fresh, bufIdx, pend, cnt, prev>>
        /\ UNCHANGED <<state, rpc, rs, off>> /\ dist' = (dist \/ rpc # "idle")
        /\ cpc = "idle" /\ cpc' = "addr" /\ mutex = "none"
        /\ creq'.s = c /\ rep' = [rep EXCEPT ![c] = NoReply]
    BY <1>17 DEF GocClear, frontend, soft, history, Touch, RxClear
  <2>2. Connected(s) /\ Clear(s)
    BY <1>c, <1>l, <2>1
  <2>3. (Asked(s)' <=> Asked(s)) /\ (ToAsk(s)' <=> ToAsk(s)) /\ (Again' <=> Again)
    BY <1>p, <2>1 DEF Asked, ToAsk, Again
  <2>4. ~Asked(s) /\ ~(ToAsk(s) /\ par)
    <3>1. rpc \notin Locking /\ (par => rpc = "idle")
      BY <1>p, <1>t, <2>1 DEF Locked, Clear
    <3> QED BY <1>t, <3>1 DEF Asked, ToAsk, Locking
  <2>5. wire[s] = {} /\ (s = c => rep'[s] = NoReply)
    BY <1>f, <2>1, <2>2, <2>4 DEF Connected, Accessed
  <2> QED BY <1>p, <2>1, <2>2, <2>3, <2>4, <2>5 DEF Connected, Accessed
<1>18. CASE GocAddr
  <2>1. /\ UNCHANGED <<wire, rep, mem, held, fresh, bufIdx, creq, pend, cnt, prev>>
        /\ UNCHANGED <<state, rpc, rs, off>> /\ (dist => dist') /\ cpc = "addr" /\ cpc' = "data"
    BY <1>18 DEF GocAddr, frontend, soft, history, Touch
  <2>2. Connected(s) /\ Clear(s)
    BY <1>c, <1>l, <2>1
  <2>3. (Asked(s)' <=> Asked(s)) /\ (ToAsk(s)' <=> ToAsk(s)) /\ (Again' <=> Again) /\ ~Asked(s)
    BY <1>p, <2>1, <2>2, AccessAlone DEF Asked, ToAsk, Again
  <2>4. Accessed(s)' <=> Accessed(s)
    BY <2>1 DEF Accessed
  <2> QED BY <1>p, <2>1, <2>2, <2>3, <2>4 DEF Connected
<1>19. CASE GocData
  <2>1. /\ UNCHANGED <<wire, rep, mem, held, fresh, bufIdx, creq, pend, cnt, prev>>
        /\ UNCHANGED <<state, rpc, rs, off>> /\ (dist => dist') /\ cpc = "data" /\ cpc' = "comm"
    BY <1>19 DEF GocData, frontend, soft, history, Touch
  <2>2. Connected(s) /\ Clear(s)
    BY <1>c, <1>l, <2>1
  <2>3. (Asked(s)' <=> Asked(s)) /\ (ToAsk(s)' <=> ToAsk(s)) /\ (Again' <=> Again) /\ ~Asked(s)
    BY <1>p, <2>1, <2>2, AccessAlone DEF Asked, ToAsk, Again
  <2>4. Accessed(s)' <=> Accessed(s)
    BY <2>1 DEF Accessed
  <2> QED BY <1>p, <2>1, <2>2, <2>3, <2>4 DEF Connected
<1>20. CASE GocComm
  <2>1. /\ UNCHANGED <<rep, mem, held, fresh, bufIdx, creq, pend, cnt, prev>>
        /\ UNCHANGED <<state, rpc, rs, off>> /\ (dist => dist') /\ cpc = "comm" /\ cpc' = "rx"
        /\ Send({creq.s}, creq.kind, reqA, reqD)
    BY <1>20 DEF GocComm, frontend, soft, history, Touch
  <2>2. Connected(s) /\ Clear(s)
    BY <1>c, <1>l, <2>1
  <2>3. (Asked(s)' <=> Asked(s)) /\ (ToAsk(s)' <=> ToAsk(s)) /\ (Again' <=> Again) /\ ~Asked(s)
    BY <1>p, <2>1, <2>2, AccessAlone DEF Asked, ToAsk, Again
  <2>4. CASE creq.s # s
    <3>1. wire'[s] = wire[s]
      BY <1>f, <2>1, <2>4 DEF Send
    <3> QED BY <1>p, <2>1, <2>2, <2>3, <2>4, <3>1 DEF Connected, Accessed
  <2>5. CASE creq.s = s
    <3> DEFINE q == [kind |-> creq.kind, addr |-> reqA, data |-> reqD]
    <3>1. wire[s] = {} /\ rep[s] = NoReply
      BY <2>1, <2>2, <2>5 DEF Connected, Accessed
    <3>2. wire'[s] = {q}
      BY <1>f, <2>1, <2>5, <3>1 DEF Send
    <3>3. q.kind = creq.kind
      OBVIOUS
    <3> HIDE DEF q
    <3>4. AccessOpen(s)' /\ Accessed(s)'
      BY <2>1, <2>5, <3>2, <3>3 DEF AccessOpen, Accessed
    <3> QED BY <1>p, <2>1, <2>2, <2>3, <3>1, <3>4 DEF Connected
  <2> QED BY <2>4, <2>5
<1>21. CASE GocRx
  <2>1. /\ UNCHANGED <<wire, rep, mem, held, fresh, bufIdx, creq, pend, cnt, prev>>
        /\ UNCHANGED <<state, rpc, rs, off>> /\ (dist => dist') /\ cpc = "rx" /\ cpc' = "idle"
        /\ rep[creq.s] # NoReply \/ Silence(creq.s)
    BY <1>21 DEF GocRx, frontend, board, soft, history, Touch
  <2>2. Connected(s) /\ Clear(s)
    BY <1>c, <1>l, <2>1
  <2>3. (Asked(s)' <=> Asked(s)) /\ (ToAsk(s)' <=> ToAsk(s)) /\ (Again' <=> Again) /\ ~Asked(s)
    BY <1>p, <2>1, <2>2, AccessAlone DEF Asked, ToAsk, Again
  <2>4. Accessed(s) => wire[s] = {} /\ rep[s].kind = creq.kind
    <3> SUFFICES ASSUME Accessed(s), AccessOpen(s), rep[s] = NoReply PROVE FALSE
      BY <2>1, <2>2 DEF Connected
    <3>1. PICK q \in wire[s] : q.kind = creq.kind
      BY DEF AccessOpen
    <3>2. q.kind # "tk"
      BY <1>f, <3>1
    <3>3. CanServe(s, q)
      BY <3>2 DEF CanServe
    <3> QED BY <2>1, <3>1, <3>3 DEF Accessed, Silence
  <2>5. wire[s] = {}
    BY <2>2, <2>3, <2>4 DEF Connected
  <2> QED BY <1>p, <2>1, <2>2, <2>3, <2>5 DEF Connected, Accessed
<1>22. CASE UNCHANGED vars
  <2>1. /\ UNCHANGED <<wire, rep, mem, held, fresh, bufIdx, cpc, creq, pend, cnt, prev>>
        /\ UNCHANGED <<state, rpc, rs>> /\ off \subseteq off' /\ (dist => dist')
    BY <1>22 DEF vars, frontend, board, soft, control, history
  <2>2. Connected(s)
    BY <1>c, <1>l, <2>1
  <2>3. (Asked(s)' <=> Asked(s)) /\ (ToAsk(s)' <=> ToAsk(s)) /\ (Again' <=> Again)
    BY <1>p, <2>1 DEF Asked, ToAsk, Again
  <2> QED BY <1>u, <2>1, <2>2, <2>3
<1> QED
  BY <1>1, <1>2, <1>3, <1>4, <1>5, <1>6, <1>7, <1>8, <1>9, <1>10, <1>11,
       <1>12, <1>13, <1>14, <1>15, <1>16, <1>17, <1>18, <1>19, <1>20, <1>21,
       <1>22
  DEF Next, Electronics, Readout, Control, Requests

-----------------------------------------------------------------------------
(* What the parser is given when a chain in step is read is the event, and *)
(* it is taken.                                                            *)
LEMMA InStepIsTaken ==
    ASSUME TypeOK, Locked, Cycle, Synchronous, Answering, Clear(rs), Receive
    PROVE  bad' = bad /\ acc' = [acc EXCEPT ![rs] = cur]
<1>t. /\ rs \in Chains /\ rs \in Int /\ cnt \in Nat /\ cur \in Nat /\ bufIdx \in 0..1
      /\ ctr[rs] \in Nat /\ kind[rs] \in {"tamex", "febex", "ctdc"} /\ par \in BOOLEAN /\ bad \in BOOLEAN
      /\ mem \in [Chains -> Event]
  BY ChainRange DEF TypeOK, SoftType, ConfigType, HistoryType, ThreadType, BoardType, Kinds
<1>1. rpc = "recv" /\ Answered(rs) /\ ~Dies(rs)
  BY DEF Receive
<1>2. InStep(rs) /\ Line(rs) /\ Counters(rs)
  BY <1>t DEF Synchronous, Answering
<1>3. kind[rs] # "febex"
  <2> SUFFICES ASSUME kind[rs] = "febex" PROVE FALSE
    OBVIOUS
  <2>1. par
    BY <1>1, <1>t DEF Dies
  <2>2. IsToken(rs, 0)
    BY <1>1, <1>2, <2>1, AnswerIsThere
  <2> QED BY <1>1, <2>2 DEF Dies, ReadFebex
<1>4. /\ IsToken(rs, 0) /\ IsToken(rs, CardNum)
      /\ cnt > 0 /\ mem[rs] = [id |-> cur, lec |-> cnt]
  BY <1>1, <1>2, <1>3, AnswerIsThere
<1>5. mem[rs].id = cur /\ mem[rs].lec = cnt /\ cur # 0
  BY <1>1, <1>4, <1>t DEF Cycle
<1>6. CASE kind[rs] = "tamex"
  <2>1. ctr[rs] = cnt
    BY <1>1, <1>2, <1>6, <1>t DEF Counters, Uncounted, Tagged, Locking, Again, BeforeLock
  <2>2. (cnt - 1) % 2 = bufIdx
    <3>1. \A n \in Nat : n > 0 => (n - 1) % 2 = (n + 1) % 2
      OBVIOUS
    <3> QED BY <3>1, <1>4, <1>t DEF Cycle
  <2>3. ReadTamex(rs).token /\ ReadTamex(rs).ok
    BY <1>4, <1>5, <2>1, <2>2 DEF ReadTamex, ParseTamex
  <2> QED BY <1>5, <1>6, <1>t, <2>3 DEF Receive
<1>7. CASE kind[rs] = "ctdc"
  <2>1. Uncounted(rs) /\ ~Again
    BY <1>1, <1>7, <1>t DEF Uncounted, Locking, Again, BeforeLock
  <2>2. ctr[rs] + 1 = cnt
    BY <1>1, <1>2, <1>7, <1>t, <2>1 DEF Counters
  <2>3. \A traced \in BOOLEAN : ReadCtdc(rs, traced).token /\ ReadCtdc(rs, traced).ok
    BY <1>4, <1>5, <2>2 DEF ReadCtdc, ParseCtdc
  <2> QED BY <1>5, <1>7, <1>t, <2>3 DEF Receive
<1> QED BY <1>3, <1>6, <1>7, <1>t

(* Whatever the state of its chain, a TAMEX takes the event that is being  *)
(* read, a younger one for a reason, or none.                              *)
LEMMA TamexTakes ==
    ASSUME TypeOK, Cycle, Synchronous, Receive, kind[rs] = "tamex",
           acc'[rs] # acc[rs]
    PROVE  acc'[rs] \in {0, cur} \/ (acc'[rs] > cur /\ rel /\ rs \in off)
<1>t. /\ rs \in Chains /\ cnt \in Nat /\ cur \in Nat /\ trig \in Nat /\ ctr[rs] \in Nat
      /\ acc \in [Chains -> Nat \cup {-1}] /\ mem[rs] \in Event
      /\ pend \in BOOLEAN /\ isOn \in BOOLEAN
  BY DEF TypeOK, SoftType, FrontendType, HistoryType, ThreadType, BoardType
<1>1. rpc = "recv"
  BY DEF Receive
<1>2. acc'[rs] = mem[rs].id /\ (mem[rs].id = 0 \/ mem[rs].lec = ctr[rs])
  BY <1>t DEF Receive, ReadTamex, ParseTamex
<1>3. ctr[rs] = cnt /\ ~Again
  <2>1. ~Again /\ ~Uncounted(rs)
    BY <1>1 DEF Again, BeforeLock, Uncounted, Tagged
  <2> QED BY <1>t, <2>1 DEF Synchronous, Counters
<1> SUFFICES ASSUME mem[rs].id # 0, mem[rs].id # cur
             PROVE  mem[rs].id > cur /\ rel /\ rs \in off
  BY <1>2
<1>4. mem[rs].id \in Nat /\ mem[rs].lec = cnt
  BY <1>2, <1>3, <1>t DEF Event
<1>5. mem[rs] \in Events(rs)
  BY DEF Events
<1>6. mem[rs].id <= trig /\ mem[rs].lec + cur <= cnt + mem[rs].id
  BY <1>5, <1>t DEF Synchronous, Behind
<1>7. mem[rs].id > cur
  BY <1>4, <1>6, <1>t
<1>8. rel
  <2>1. pend
    BY <1>4, <1>6, <1>7, <1>t DEF Cycle
  <2> QED BY <1>1, <2>1 DEF Cycle, Tagged
<1>9. rs \in off
  <2> SUFFICES ASSUME rs \notin off PROVE FALSE
    OBVIOUS
  <2>1. mem[rs].lec + cur = cnt + mem[rs].id
    BY <1>3, <1>5, <1>t DEF Synchronous, InStep
  <2> QED BY <1>4, <1>7, <1>t, <2>1
<1> QED BY <1>7, <1>8, <1>9

LEMMA TakenStep ==
    ASSUME TypeOK, Locked, Cycle, Synchronous, Answering, [Next]_vars,
           NEW s \in Chains, Taken(s)
    PROVE  Taken(s)'
<1>t. /\ par \in BOOLEAN /\ dist \in BOOLEAN /\ rs \in Chains
      /\ acc \in [Chains -> Nat \cup {-1}] /\ cur \in Nat
  BY DEF TypeOK, HistoryType, ConfigType, ThreadType
<1>p. UNCHANGED <<kind, par, rel>>
  BY ConfigKept
<1>u. ASSUME UNCHANGED <<acc, cur>>, off \subseteq off', dist => dist',
             rpc' \in Tagged => rpc \in Tagged,
             rpc \in {"idle", "died"} => rpc' \in {"idle", "died"}
      PROVE  Taken(s)'
  BY <1>u, <1>p, <1>t DEF Taken, Clear
<1>i. ASSUME rpc' \in {"idle", "died"} PROVE Taken(s)'
  BY <1>i DEF Taken, Tagged
<1>1. ASSUME NEW M \in SUBSET Chains, Trigger(M) PROVE Taken(s)'
  <2>1. UNCHANGED <<acc, cur>> /\ off \subseteq off' /\ (dist => dist')
    BY <1>1 DEF Trigger, control
  <2>2. /\ rpc' \in Tagged => rpc \in Tagged
        /\ rpc \in {"idle", "died"} => rpc' \in {"idle", "died"}
    BY <1>1 DEF Trigger, control, Tagged
  <2> QED BY <1>u, <2>1, <2>2
<1>2. ASSUME NEW c \in Chains, NEW r \in wire[c], Serve(c, r) PROVE Taken(s)'
  <2>1. UNCHANGED <<acc, cur>> /\ off \subseteq off' /\ (dist => dist')
    BY <1>2 DEF Serve, control, history
  <2>2. /\ rpc' \in Tagged => rpc \in Tagged
        /\ rpc \in {"idle", "died"} => rpc' \in {"idle", "died"}
    BY <1>2 DEF Serve, control, history, Tagged
  <2> QED BY <1>u, <2>1, <2>2
<1>3. CASE Begin
  <2>1. acc'[s] = -1
    BY <1>3 DEF Begin
  <2> QED BY <2>1 DEF Taken
<1>4. CASE PrepAddr
  <2>1. UNCHANGED <<acc, cur>> /\ off \subseteq off' /\ (dist => dist')
    BY <1>4 DEF PrepAddr, history
  <2>2. /\ rpc' \in Tagged => rpc \in Tagged
        /\ rpc \in {"idle", "died"} => rpc' \in {"idle", "died"}
    BY <1>4 DEF PrepAddr, history, Tagged
  <2> QED BY <1>u, <2>1, <2>2
<1>5. CASE PrepData
  <2>1. UNCHANGED <<acc, cur>> /\ off \subseteq off' /\ (dist => dist')
    BY <1>5 DEF PrepData, history
  <2>2. /\ rpc' \in Tagged => rpc \in Tagged
        /\ rpc \in {"idle", "died"} => rpc' \in {"idle", "died"}
    BY <1>5 DEF PrepData, history, Tagged
  <2> QED BY <1>u, <2>1, <2>2
<1>6. CASE PrepComm
  <2>1. UNCHANGED <<acc, cur>> /\ off \subseteq off' /\ (dist => dist')
    BY <1>6 DEF PrepComm, history
  <2>2. /\ rpc' \in Tagged => rpc \in Tagged
        /\ rpc \in {"idle", "died"} => rpc' \in {"idle", "died"}
    BY <1>6 DEF PrepComm, history, Tagged
  <2> QED BY <1>u, <2>1, <2>2
<1>7. CASE ReadoutDt /\ state = "REINIT"
  <2>1. acc' = acc /\ acc[s] = -1
    BY <1>7 DEF ReadoutDt, Taken, Tagged
  <2> QED BY <2>1 DEF Taken
<1>8. CASE ReadoutDt /\ state # "REINIT"
  <2>1. acc' = acc /\ acc[s] = -1
    BY <1>8 DEF ReadoutDt, Taken, Tagged
  <2> QED BY <2>1 DEF Taken
<1>9. CASE ReadStart
  <2>1. UNCHANGED <<acc, cur>> /\ off \subseteq off' /\ (dist => dist')
    BY <1>9 DEF ReadStart, history, Reading
  <2>2. /\ rpc' \in Tagged => rpc \in Tagged
        /\ rpc \in {"idle", "died"} => rpc' \in {"idle", "died"}
    BY <1>9 DEF ReadStart, history, Reading, Tagged
  <2> QED BY <1>u, <2>1, <2>2
<1>10. CASE Issue
  <2>1. UNCHANGED <<acc, cur>> /\ off \subseteq off' /\ (dist => dist')
    BY <1>10 DEF Issue, history
  <2>2. /\ rpc' \in Tagged => rpc \in Tagged
        /\ rpc \in {"idle", "died"} => rpc' \in {"idle", "died"}
    BY <1>10 DEF Issue, history, Tagged
  <2> QED BY <1>u, <2>1, <2>2
<1>11. CASE Receive
  <2>1. /\ rpc = "recv" /\ UNCHANGED <<cur, off, dist>>
        /\ \E x : acc' = [acc EXCEPT ![rs] = x]
    BY <1>11 DEF Receive
  <2>2. rpc' \notin Tagged
    BY <1>11 DEF Receive, Reading, Tagged
  <2>3. Clear(s)' <=> Clear(s)
    BY <1>p, <2>1 DEF Clear
  <2>4. CASE s # rs
    <3>1. acc'[s] = acc[s]
      BY <1>t, <2>1, <2>4
    <3> QED BY <1>p, <2>1, <2>2, <2>3, <3>1 DEF Taken
  <2>5. CASE s = rs
    <3>1. Clear(s) => acc'[s] = cur
      BY <1>11, <1>t, <2>5, InStepIsTaken
    <3>2. CASE acc'[rs] = acc[rs]
      BY <1>p, <2>1, <2>2, <2>3, <2>5, <3>2 DEF Taken
    <3>3. CASE acc'[rs] # acc[rs]
      <4>1. kind[rs] = "tamex" =>
              acc'[rs] \in {0, cur} \/ (acc'[rs] > cur /\ rel /\ rs \in off)
        BY <1>11, <3>3, TamexTakes
      <4> QED BY <1>p, <2>1, <2>2, <2>3, <2>5, <3>1, <4>1 DEF Taken
    <3> QED BY <3>2, <3>3
  <2> QED BY <2>4, <2>5
<1>12. CASE Die
  BY <1>12, <1>i DEF Die
<1>13. CASE Finalize /\ state = "REINIT"
  BY <1>13, <1>i DEF Finalize
<1>14. CASE Finalize /\ state # "REINIT" /\ isOn
  BY <1>14, <1>i DEF Finalize
<1>15. CASE Finalize /\ state # "REINIT" /\ ~isOn
  BY <1>15, <1>i DEF Finalize
<1>16. ASSUME NEW c \in Chains, Reconfigure(c) PROVE Taken(s)'
  <2>1. UNCHANGED <<acc, cur>> /\ off \subseteq off' /\ (dist => dist')
    BY <1>16 DEF Reconfigure, control
  <2>2. /\ rpc' \in Tagged => rpc \in Tagged
        /\ rpc \in {"idle", "died"} => rpc' \in {"idle", "died"}
    BY <1>16 DEF Reconfigure, control, Tagged
  <2> QED BY <1>u, <2>1, <2>2
<1>17. ASSUME NEW c \in Chains, NEW k \in {"rd", "wr"}, GocClear(c, k)
    PROVE  Taken(s)'
  <2>1. UNCHANGED <<acc, cur>> /\ off \subseteq off' /\ (dist => dist')
    BY <1>17 DEF GocClear, history, Touch
  <2>2. /\ rpc' \in Tagged => rpc \in Tagged
        /\ rpc \in {"idle", "died"} => rpc' \in {"idle", "died"}
    BY <1>17 DEF GocClear, history, Touch, Tagged
  <2> QED BY <1>u, <2>1, <2>2
<1>18. CASE GocAddr
  <2>1. UNCHANGED <<acc, cur>> /\ off \subseteq off' /\ (dist => dist')
    BY <1>18 DEF GocAddr, history, Touch
  <2>2. /\ rpc' \in Tagged => rpc \in Tagged
        /\ rpc \in {"idle", "died"} => rpc' \in {"idle", "died"}
    BY <1>18 DEF GocAddr, history, Touch, Tagged
  <2> QED BY <1>u, <2>1, <2>2
<1>19. CASE GocData
  <2>1. UNCHANGED <<acc, cur>> /\ off \subseteq off' /\ (dist => dist')
    BY <1>19 DEF GocData, history, Touch
  <2>2. /\ rpc' \in Tagged => rpc \in Tagged
        /\ rpc \in {"idle", "died"} => rpc' \in {"idle", "died"}
    BY <1>19 DEF GocData, history, Touch, Tagged
  <2> QED BY <1>u, <2>1, <2>2
<1>20. CASE GocComm
  <2>1. UNCHANGED <<acc, cur>> /\ off \subseteq off' /\ (dist => dist')
    BY <1>20 DEF GocComm, history, Touch
  <2>2. /\ rpc' \in Tagged => rpc \in Tagged
        /\ rpc \in {"idle", "died"} => rpc' \in {"idle", "died"}
    BY <1>20 DEF GocComm, history, Touch, Tagged
  <2> QED BY <1>u, <2>1, <2>2
<1>21. CASE GocRx
  <2>1. UNCHANGED <<acc, cur>> /\ off \subseteq off' /\ (dist => dist')
    BY <1>21 DEF GocRx, history, Touch
  <2>2. /\ rpc' \in Tagged => rpc \in Tagged
        /\ rpc \in {"idle", "died"} => rpc' \in {"idle", "died"}
    BY <1>21 DEF GocRx, history, Touch, Tagged
  <2> QED BY <1>u, <2>1, <2>2
<1>22. CASE UNCHANGED vars
  <2>1. UNCHANGED <<acc, cur>> /\ off \subseteq off' /\ (dist => dist')
    BY <1>22 DEF vars, history, control
  <2>2. /\ rpc' \in Tagged => rpc \in Tagged
        /\ rpc \in {"idle", "died"} => rpc' \in {"idle", "died"}
    BY <1>22 DEF vars, history, control, Tagged
  <2> QED BY <1>u, <2>1, <2>2
<1> QED
  BY <1>1, <1>2, <1>3, <1>4, <1>5, <1>6, <1>7, <1>8, <1>9, <1>10, <1>11,
       <1>12, <1>13, <1>14, <1>15, <1>16, <1>17, <1>18, <1>19, <1>20, <1>21,
       <1>22
  DEF Next, Electronics, Readout, Control, Requests

LEMMA AlarmStep ==
    ASSUME TypeOK, Locked, Cycle, Synchronous, Answering, [Next]_vars, Alarm
    PROVE  Alarm'
<1>t. /\ par \in BOOLEAN /\ dist \in BOOLEAN /\ bad \in BOOLEAN
  BY DEF TypeOK, HistoryType, ConfigType, ThreadType
<1>p. par' = par
  BY ConfigKept
<1>u. ASSUME bad' = bad, off \subseteq off', dist => dist',
             rpc' \in BeforeLock => rpc \in BeforeLock
      PROVE  Alarm'
  BY <1>u, <1>p, <1>t DEF Alarm
<1>f. ASSUME bad' = FALSE PROVE Alarm'
  BY <1>f DEF Alarm
<1>1. ASSUME NEW M \in SUBSET Chains, Trigger(M) PROVE Alarm'
  <2>1. bad' = bad /\ off \subseteq off' /\ (dist => dist')
    BY <1>1 DEF Trigger, control
  <2>2. rpc' \in BeforeLock => rpc \in BeforeLock
    BY <1>1 DEF Trigger, control, BeforeLock
  <2> QED BY <1>u, <2>1, <2>2
<1>2. ASSUME NEW c \in Chains, NEW r \in wire[c], Serve(c, r) PROVE Alarm'
  <2>1. bad' = bad /\ off \subseteq off' /\ (dist => dist')
    BY <1>2 DEF Serve, control, history
  <2>2. rpc' \in BeforeLock => rpc \in BeforeLock
    BY <1>2 DEF Serve, control, history, BeforeLock
  <2> QED BY <1>u, <2>1, <2>2
<1>3. CASE Begin
  <2>1. bad' = bad /\ off \subseteq off' /\ (dist => dist')
    BY <1>3 DEF Begin
  <2>2. rpc' \in BeforeLock => rpc \in BeforeLock
    BY <1>3 DEF Begin, BeforeLock
  <2> QED BY <1>u, <2>1, <2>2
<1>4. CASE PrepAddr
  <2>1. bad' = bad /\ off \subseteq off' /\ (dist => dist')
    BY <1>4 DEF PrepAddr, history
  <2>2. rpc' \in BeforeLock => rpc \in BeforeLock
    BY <1>4 DEF PrepAddr, history, BeforeLock
  <2> QED BY <1>u, <2>1, <2>2
<1>5. CASE PrepData
  <2>1. bad' = bad /\ off \subseteq off' /\ (dist => dist')
    BY <1>5 DEF PrepData, history
  <2>2. rpc' \in BeforeLock => rpc \in BeforeLock
    BY <1>5 DEF PrepData, history, BeforeLock
  <2> QED BY <1>u, <2>1, <2>2
<1>6. CASE PrepComm
  <2>1. bad' = bad /\ off \subseteq off' /\ (dist => dist')
    BY <1>6 DEF PrepComm, history
  <2>2. rpc' \in BeforeLock => rpc \in BeforeLock
    BY <1>6 DEF PrepComm, history, BeforeLock
  <2> QED BY <1>u, <2>1, <2>2
<1>7. CASE ReadoutDt /\ state = "REINIT"
  <2>1. bad' = bad /\ ~bad
    BY <1>7 DEF ReadoutDt, Alarm, BeforeLock
  <2> QED BY <2>1, <1>t, <1>f
<1>8. CASE ReadoutDt /\ state # "REINIT"
  <2>1. rpc = "dt"
    BY <1>8 DEF ReadoutDt
  <2>2. \A s \in Chains : kind[s] = "tamex" => Counted[s] = cnt
    BY <1>8, <2>1, CountersMatch
  <2>3. bad' = FALSE
    BY <1>8, <2>2 DEF ReadoutDt
  <2> QED BY <2>3, <1>f
<1>9. CASE ReadStart
  <2>1. bad' = bad /\ off \subseteq off' /\ (dist => dist')
    BY <1>9 DEF ReadStart, history, Reading
  <2>2. rpc' \in BeforeLock => rpc \in BeforeLock
    BY <1>9 DEF ReadStart, history, Reading, BeforeLock
  <2> QED BY <1>u, <2>1, <2>2
<1>10. CASE Issue
  <2>1. bad' = bad /\ off \subseteq off' /\ (dist => dist')
    BY <1>10 DEF Issue, history
  <2>2. rpc' \in BeforeLock => rpc \in BeforeLock
    BY <1>10 DEF Issue, history, BeforeLock
  <2> QED BY <1>u, <2>1, <2>2
<1>11. CASE Receive
  <2>1. UNCHANGED <<off, dist>> /\ rpc' \notin BeforeLock /\ rs \in Chains
    BY <1>11 DEF Receive, Reading, BeforeLock, TypeOK, ThreadType
  <2>2. CASE Clear(rs)
    <3>1. bad' = bad
      BY <1>11, <2>2, InStepIsTaken
    <3> QED BY <1>u, <2>1, <3>1
  <2>3. CASE ~Clear(rs)
    <3>1. off # {} \/ (par /\ dist)
      BY <2>3 DEF Clear
    <3> QED BY <1>p, <2>1, <3>1 DEF Alarm
  <2> QED BY <2>2, <2>3
<1>12. CASE Die
  <2>1. bad' = bad /\ off \subseteq off' /\ (dist => dist')
    BY <1>12 DEF Die, history
  <2>2. rpc' \in BeforeLock => rpc \in BeforeLock
    BY <1>12 DEF Die, history, BeforeLock
  <2> QED BY <1>u, <2>1, <2>2
<1>13. CASE Finalize /\ state = "REINIT"
  BY <1>13, <1>f DEF Finalize
<1>14. CASE Finalize /\ state # "REINIT" /\ isOn
  BY <1>14, <1>f DEF Finalize
<1>15. CASE Finalize /\ state # "REINIT" /\ ~isOn
  BY <1>15, <1>f DEF Finalize
<1>16. ASSUME NEW c \in Chains, Reconfigure(c) PROVE Alarm'
  <2>1. bad' = bad /\ off \subseteq off' /\ (dist => dist')
    BY <1>16 DEF Reconfigure, control
  <2>2. rpc' \in BeforeLock => rpc \in BeforeLock
    BY <1>16 DEF Reconfigure, control, BeforeLock
  <2> QED BY <1>u, <2>1, <2>2
<1>17. ASSUME NEW c \in Chains, NEW k \in {"rd", "wr"}, GocClear(c, k)
    PROVE  Alarm'
  <2>1. bad' = bad /\ off \subseteq off' /\ (dist => dist')
    BY <1>17 DEF GocClear, history, Touch
  <2>2. rpc' \in BeforeLock => rpc \in BeforeLock
    BY <1>17 DEF GocClear, history, Touch, BeforeLock
  <2> QED BY <1>u, <2>1, <2>2
<1>18. CASE GocAddr
  <2>1. bad' = bad /\ off \subseteq off' /\ (dist => dist')
    BY <1>18 DEF GocAddr, history, Touch
  <2>2. rpc' \in BeforeLock => rpc \in BeforeLock
    BY <1>18 DEF GocAddr, history, Touch, BeforeLock
  <2> QED BY <1>u, <2>1, <2>2
<1>19. CASE GocData
  <2>1. bad' = bad /\ off \subseteq off' /\ (dist => dist')
    BY <1>19 DEF GocData, history, Touch
  <2>2. rpc' \in BeforeLock => rpc \in BeforeLock
    BY <1>19 DEF GocData, history, Touch, BeforeLock
  <2> QED BY <1>u, <2>1, <2>2
<1>20. CASE GocComm
  <2>1. bad' = bad /\ off \subseteq off' /\ (dist => dist')
    BY <1>20 DEF GocComm, history, Touch
  <2>2. rpc' \in BeforeLock => rpc \in BeforeLock
    BY <1>20 DEF GocComm, history, Touch, BeforeLock
  <2> QED BY <1>u, <2>1, <2>2
<1>21. CASE GocRx
  <2>1. bad' = bad /\ off \subseteq off' /\ (dist => dist')
    BY <1>21 DEF GocRx, history, Touch
  <2>2. rpc' \in BeforeLock => rpc \in BeforeLock
    BY <1>21 DEF GocRx, history, Touch, BeforeLock
  <2> QED BY <1>u, <2>1, <2>2
<1>22. CASE UNCHANGED vars
  <2>1. bad' = bad /\ off \subseteq off' /\ (dist => dist')
    BY <1>22 DEF vars, history, control
  <2>2. rpc' \in BeforeLock => rpc \in BeforeLock
    BY <1>22 DEF vars, history, control, BeforeLock
  <2> QED BY <1>u, <2>1, <2>2
<1> QED
  BY <1>1, <1>2, <1>3, <1>4, <1>5, <1>6, <1>7, <1>8, <1>9, <1>10, <1>11,
       <1>12, <1>13, <1>14, <1>15, <1>16, <1>17, <1>18, <1>19, <1>20, <1>21,
       <1>22
  DEF Next, Electronics, Readout, Control, Requests

LEMMA NamedStep ==
    ASSUME TypeOK, Locked, [Next]_vars, Named
    PROVE  Named'
<1>t. /\ v5 \in BOOLEAN /\ par \in BOOLEAN /\ wire \in [Chains -> SUBSET Request]
      /\ rep \in [Chains -> Reply] /\ creq \in [s : Chains, kind : {"rd", "wr"}]
      /\ rs \in Chains
  BY DEF TypeOK, ConfigType, BoardType, ThreadType
<1>p. UNCHANGED <<kind, v5, par>> /\ Chains' = Chains
  BY ConfigKept, ChainsKept
<1> SUFFICES ASSUME ~par \/ v5 PROVE Named'
  BY <1>p DEF Named
<1> DEFINE Honest(r) == /\ r.kind \in {"rd", "wr"} => r.addr = GocReg
                        /\ r.kind = "wr" => r.data = 1
           Words == /\ cpc \in {"data", "comm"} => reqA = GocReg
                    /\ cpc = "comm" => reqD = Payload
<1>h. Words /\ \A s \in Chains : \A r \in wire[s] \cup {rep[s]} : Honest(r)
  BY DEF Named
<1>n. Honest(NoReply) /\ \A a, d : Honest([kind |-> "tk", addr |-> a, data |-> d])
  BY DEF NoReply
<1>w. ASSUME Words',
             \A s \in Chains : \A r \in wire'[s] \cup {rep'[s]} : Honest(r)
      PROVE  Named'
  BY <1>w, <1>p DEF Named
<1>k. ASSUME UNCHANGED <<wire, rep, reqA, reqD, creq>>, cpc' \notin {"data", "comm"} \/ cpc' = cpc
      PROVE  Named'
  BY <1>h, <1>k, <1>w DEF Payload
<1>r. ASSUME UNCHANGED <<reqA, reqD, creq, cpc>>,
             \A s \in Chains : \A r \in wire'[s] \cup {rep'[s]} :
                r \in wire[s] \cup {rep[s], NoReply} \/ r.kind = "tk"
      PROVE  Named'
  <2>1. Words'
    BY <1>h, <1>r DEF Payload
  <2>2. ASSUME NEW s \in Chains, NEW r \in wire'[s] \cup {rep'[s]} PROVE Honest(r)
    BY <1>h, <1>n, <1>r, <2>2
  <2> QED BY <1>w, <2>1, <2>2
<1> HIDE DEF Honest, Words
<1>1. ASSUME NEW M \in SUBSET Chains, Trigger(M) PROVE Named'
  <2>1. UNCHANGED <<wire, rep, reqA, reqD, creq>> /\ (cpc' \notin {"data", "comm"} \/ cpc' = cpc)
    BY <1>1 DEF Trigger, board, control
  <2> QED BY <1>k, <2>1
<1>2. ASSUME NEW c \in Chains, NEW r \in wire[c], Serve(c, r) PROVE Named'
  <2>1. UNCHANGED <<reqA, reqD, creq, cpc>>
    BY <1>2 DEF Serve, control
  <2>2. ASSUME NEW s \in Chains, NEW q \in wire'[s] \cup {rep'[s]} PROVE Honest(q)
    <3>1. wire'[s] \subseteq wire[s]
      BY <1>2, <1>t DEF Serve
    <3>2. CASE s = c
      <4>1. rep'[s].kind = r.kind /\ (r.kind # "tk" => rep'[s].addr = r.addr)
            /\ (r.kind # "rd" /\ r.kind # "tk" => rep'[s].data = r.data)
        <5>1. CASE r.kind = "tk"
          BY <1>2, <1>t, <3>2, <5>1 DEF Serve
        <5>2. CASE r.kind # "tk"
          <6>1. PICK d \in IF r.kind = "rd" THEN {0, CardNum} ELSE {r.data} :
                  rep' = [rep EXCEPT ![c] = [kind |-> r.kind, addr |-> r.addr, data |-> d]]
            BY <1>2, <5>2 DEF Serve
          <6> QED BY <1>t, <3>2, <5>2, <6>1
        <5> QED BY <5>1, <5>2
      <4>2. Honest(r)
        BY <1>h
      <4>3. Honest(rep'[s])
        BY <4>1, <4>2 DEF Honest
      <4> QED BY <1>h, <2>2, <3>1, <4>3
    <3>3. CASE s # c
      <4>1. rep'[s] = rep[s]
        BY <1>2, <1>t, <3>3 DEF Serve
      <4> QED BY <1>h, <2>2, <3>1, <4>1
    <3> QED BY <3>2, <3>3
  <2>3. Words'
    BY <1>h, <2>1 DEF Words, Payload
  <2> QED BY <1>w, <2>2, <2>3
<1>3. CASE Begin
  <2>1. UNCHANGED <<reqA, reqD, creq, cpc>>
    BY <1>3 DEF Begin, control
  <2>2. ASSUME NEW s \in Chains, NEW r \in wire'[s] \cup {rep'[s]}
        PROVE  r \in wire[s] \cup {rep[s], NoReply} \/ r.kind = "tk"
    BY <1>3, <2>2 DEF Begin
  <2> QED BY <1>r, <2>1, <2>2
<1>4. CASE PrepAddr
  <2>1. FALSE
    BY <1>4 DEF PrepAddr, Locked
  <2> QED BY <2>1
<1>5. CASE PrepData
  <2>1. FALSE
    BY <1>5 DEF PrepData, Locked
  <2> QED BY <2>1
<1>6. CASE PrepComm
  <2>1. UNCHANGED <<reqA, reqD, creq, cpc>>
    BY <1>6 DEF PrepComm, control
  <2>2. ASSUME NEW s \in Chains, NEW r \in wire'[s] \cup {rep'[s]}
        PROVE  r \in wire[s] \cup {rep[s], NoReply} \/ r.kind = "tk"
    BY <1>6, <2>2 DEF PrepComm, Send
  <2> QED BY <1>r, <2>1, <2>2
<1>7. CASE ReadoutDt /\ state = "REINIT"
  <2>1. UNCHANGED <<reqA, reqD, creq, cpc>>
    BY <1>7 DEF ReadoutDt, control
  <2>2. ASSUME NEW s \in Chains, NEW r \in wire'[s] \cup {rep'[s]}
        PROVE  r \in wire[s] \cup {rep[s], NoReply} \/ r.kind = "tk"
    <3>1. Reinit
      BY <1>7 DEF ReadoutDt
    <3> QED BY <2>2, <3>1, ReinitAt
  <2> QED BY <1>r, <2>1, <2>2
<1>8. CASE ReadoutDt /\ state # "REINIT"
  <2>1. UNCHANGED <<wire, rep, reqA, reqD, creq>> /\ (cpc' \notin {"data", "comm"} \/ cpc' = cpc)
    BY <1>8 DEF ReadoutDt, control
  <2> QED BY <1>k, <2>1
<1>9. CASE ReadStart
  <2>1. UNCHANGED <<wire, rep, reqA, reqD, creq>> /\ (cpc' \notin {"data", "comm"} \/ cpc' = cpc)
    BY <1>9 DEF ReadStart, board, control
  <2> QED BY <1>k, <2>1
<1>10. CASE Issue
  <2>1. /\ UNCHANGED <<creq, cpc>> /\ cpc = "idle"
        /\ rep' = [rep EXCEPT ![rs] = NoReply]
        /\ Send({rs}, "tk", TokenAddr(bufIdx), 0)
    BY <1>10 DEF Issue, control, RxClear, Locked, Locking
  <2>2. ASSUME NEW s \in Chains, NEW r \in wire'[s] \cup {rep'[s]} PROVE Honest(r)
    <3>1. r \in wire[s] \cup {rep[s], NoReply} \/ r = [kind |-> "tk", addr |-> TokenAddr(bufIdx), data |-> 0]
      BY <1>t, <2>1, <2>2 DEF Send
    <3> QED BY <1>h, <1>n, <3>1
  <2>3. Words'
    BY <2>1 DEF Words
  <2> QED BY <1>w, <2>2, <2>3
<1>11. CASE Receive
  <2>1. UNCHANGED <<wire, rep, reqA, reqD, creq>> /\ (cpc' \notin {"data", "comm"} \/ cpc' = cpc)
    BY <1>11 DEF Receive, board, control
  <2> QED BY <1>k, <2>1
<1>12. CASE Die
  <2>1. UNCHANGED <<wire, rep, reqA, reqD, creq>> /\ (cpc' \notin {"data", "comm"} \/ cpc' = cpc)
    BY <1>12 DEF Die, board
  <2> QED BY <1>k, <2>1
<1>13. CASE Finalize /\ state = "REINIT"
  <2>1. UNCHANGED <<reqA, reqD, creq, cpc>>
    BY <1>13 DEF Finalize, control
  <2>2. ASSUME NEW s \in Chains, NEW r \in wire'[s] \cup {rep'[s]}
        PROVE  r \in wire[s] \cup {rep[s], NoReply} \/ r.kind = "tk"
    <3>1. Reinit
      BY <1>13 DEF Finalize
    <3> QED BY <2>2, <3>1, ReinitAt
  <2> QED BY <1>r, <2>1, <2>2
<1>14. CASE Finalize /\ state # "REINIT" /\ isOn
  <2>1. UNCHANGED <<reqA, reqD, creq, cpc>>
    BY <1>14 DEF Finalize, control
  <2>2. ASSUME NEW s \in Chains, NEW r \in wire'[s] \cup {rep'[s]}
        PROVE  r \in wire[s] \cup {rep[s], NoReply} \/ r.kind = "tk"
    BY <1>14, <2>2 DEF Finalize, Reconfigured
  <2> QED BY <1>r, <2>1, <2>2
<1>15. CASE Finalize /\ state # "REINIT" /\ ~isOn
  <2>1. UNCHANGED <<wire, rep, reqA, reqD, creq>> /\ (cpc' \notin {"data", "comm"} \/ cpc' = cpc)
    BY <1>15 DEF Finalize, control
  <2> QED BY <1>k, <2>1
<1>16. ASSUME NEW c \in Chains, Reconfigure(c) PROVE Named'
  <2>1. UNCHANGED <<wire, rep, reqA, reqD, creq>> /\ (cpc' \notin {"data", "comm"} \/ cpc' = cpc)
    BY <1>16 DEF Reconfigure, board, control
  <2> QED BY <1>k, <2>1
<1>17. ASSUME NEW c \in Chains, NEW k \in {"rd", "wr"}, GocClear(c, k)
    PROVE  Named'
  <2>1. UNCHANGED <<wire, reqA, reqD>> /\ cpc' = "addr" /\ rep' = [rep EXCEPT ![c] = NoReply]
    BY <1>17 DEF GocClear, RxClear
  <2>2. ASSUME NEW s \in Chains, NEW r \in wire'[s] \cup {rep'[s]} PROVE Honest(r)
    <3>1. r \in wire[s] \cup {rep[s], NoReply}
      BY <1>t, <2>1, <2>2
    <3> QED BY <1>h, <1>n, <3>1
  <2>3. Words'
    BY <2>1 DEF Words
  <2> QED BY <1>w, <2>2, <2>3
<1>18. CASE GocAddr
  <2>1. UNCHANGED <<wire, rep>> /\ cpc' = "data" /\ reqA' = GocReg
    BY <1>18 DEF GocAddr
  <2>2. Words'
    BY <2>1 DEF Words, GocReg
  <2> QED BY <1>h, <1>w, <2>1, <2>2
<1>19. CASE GocData
  <2>1. UNCHANGED <<wire, rep, reqA, creq>> /\ cpc = "data" /\ cpc' = "comm" /\ reqD' = Payload
    BY <1>19 DEF GocData
  <2>2. Words'
    BY <1>h, <2>1 DEF Words, Payload
  <2> QED BY <1>h, <1>w, <2>1, <2>2
<1>20. CASE GocComm
  <2>1. /\ UNCHANGED <<rep, reqA, reqD, creq>> /\ cpc = "comm" /\ cpc' = "rx"
        /\ Send({creq.s}, creq.kind, reqA, reqD)
    BY <1>20 DEF GocComm
  <2>2. Honest([kind |-> creq.kind, addr |-> reqA, data |-> reqD])
    BY <1>h, <2>1 DEF Words, Honest, Payload
  <2>3. ASSUME NEW s \in Chains, NEW r \in wire'[s] \cup {rep'[s]} PROVE Honest(r)
    <3>1. r \in wire[s] \cup {rep[s]} \/ r = [kind |-> creq.kind, addr |-> reqA, data |-> reqD]
      BY <1>t, <2>1, <2>3 DEF Send
    <3> QED BY <1>h, <2>2, <3>1
  <2>4. Words'
    BY <2>1 DEF Words
  <2> QED BY <1>w, <2>3, <2>4
<1>21. CASE GocRx
  <2>1. UNCHANGED <<wire, rep, reqA, reqD, creq>> /\ (cpc' \notin {"data", "comm"} \/ cpc' = cpc)
    BY <1>21 DEF GocRx, board
  <2> QED BY <1>k, <2>1
<1>22. CASE UNCHANGED vars
  <2>1. UNCHANGED <<wire, rep, reqA, reqD, creq>> /\ (cpc' \notin {"data", "comm"} \/ cpc' = cpc)
    BY <1>22 DEF vars, board, control
  <2> QED BY <1>k, <2>1
<1> QED
  BY <1>1, <1>2, <1>3, <1>4, <1>5, <1>6, <1>7, <1>8, <1>9, <1>10, <1>11,
       <1>12, <1>13, <1>14, <1>15, <1>16, <1>17, <1>18, <1>19, <1>20, <1>21,
       <1>22
  DEF Next, Electronics, Readout, Control, Requests

-----------------------------------------------------------------------------
LEMMA InvInit == Init => Inv
<1> SUFFICES ASSUME Init PROVE Inv
  OBVIOUS
<1>1. TypeOK /\ Locked /\ Cycle
  BY TypeInit, LockedInit, CycleInit
<1>2. /\ cnt = 0 /\ prev = 0 /\ ~pend /\ bufIdx = 1 /\ off = {} /\ ~dist /\ ~bad
      /\ rpc = "idle" /\ cpc = "idle" /\ state = "PREPARED" /\ cur = 0
  BY DEF Init, StartIdx
<1>3. ASSUME NEW s \in Chains
      PROVE  Behind(s) /\ InStep(s) /\ Counters(s) /\ Line(s) /\ Taken(s)
  <2>1. seen[s] = 0 /\ ctr[s] = 0 /\ mbuf[s] = 1 /\ wire[s] = {}
    BY DEF Init, StartIdx
  <2>2. held[s][0] = NoEvent /\ held[s][1] = NoEvent /\ mem[s] = NoEvent
    BY DEF Init
  <2>3. Events(s) = {NoEvent} /\ NoEvent.id = 0
    BY <2>2 DEF Events, NoEvent
  <2>4. Behind(s) /\ InStep(s)
    BY <1>2, <2>1, <2>3 DEF Behind, InStep
  <2>5. Counters(s)
    <3>1. ~Uncounted(s) /\ 0 = 0 - 0
      BY <1>2 DEF Uncounted, Tagged, Locking
    <3> QED BY <1>2, <2>1, <3>1 DEF Counters
  <2>6. Line(s) /\ Taken(s)
    BY <1>2, <2>1 DEF Line, Connected, Asked, ToAsk, Accessed, Taken, Tagged
  <2> QED BY <2>4, <2>5, <2>6
<1>4. Named
  BY <1>2 DEF Init, Named, NoReply
<1>5. Alarm
  BY <1>2 DEF Alarm
<1> QED BY <1>1, <1>3, <1>4, <1>5 DEF Inv, Synchronous, Answering, Outcomes

LEMMA InvStep == Inv /\ [Next]_vars => Inv'
<1> SUFFICES ASSUME Inv, [Next]_vars PROVE Inv'
  OBVIOUS
<1> USE DEF Inv
<1>c. Chains' = Chains /\ rs \in Chains
  BY ConfigKept, ChainsKept DEF TypeOK, ThreadType
<1>1. TypeOK' /\ Locked' /\ Cycle'
  BY TypeStep, LockedStep, CycleStep
<1>2. Synchronous'
  <2>1. ASSUME NEW s \in Chains PROVE Behind(s)' /\ InStep(s)' /\ Counters(s)'
    <3>1. Behind(s) /\ InStep(s) /\ Counters(s) /\ InStep(rs) /\ Line(rs)
      BY <1>c DEF Synchronous, Answering
    <3> QED BY <3>1, BehindStep, InStepStep, CountersStep
  <2> QED BY <1>c, <2>1 DEF Synchronous
<1>3. Answering'
  <2>1. ASSUME NEW s \in Chains PROVE Line(s)'
    BY LineStep DEF Answering
  <2> QED BY <1>c, <2>1 DEF Answering
<1>4. Outcomes'
  <2>1. ASSUME NEW s \in Chains PROVE Taken(s)'
    BY TakenStep DEF Outcomes
  <2>2. Alarm'
    BY AlarmStep DEF Outcomes
  <2> QED BY <1>c, <2>1, <2>2 DEF Outcomes
<1>5. Named'
  BY NamedStep
<1> QED BY <1>1, <1>2, <1>3, <1>4, <1>5

THEOREM BoardInv == Spec => []Inv
<1>1. Init => Inv
  BY InvInit
<1>2. Inv /\ [Next]_vars => Inv'
  BY InvStep
<1> QED BY <1>1, <1>2, PTL DEF Spec

-----------------------------------------------------------------------------
(* The data delivered for a chain in step are those of the event being     *)
(* read (gsi_pex_token_receive and the drivers' readouts), however many    *)
(* chains of whatever kinds the board reads.                               *)
THEOREM EventIsDelivered == Spec => []AcceptedIsEvent
<1>1. Inv => AcceptedIsEvent
  BY DEF Inv, Outcomes, Taken, AcceptedIsEvent, Delivered, Clear
<1> QED BY <1>1, BoardInv, PTL

(* A TAMEX never delivers an older event, and a younger one only if it     *)
(* missed a trigger while the dead time had been released.                 *)
THEOREM TamexIsChecked == Spec => []OtherEventForCause
<1>1. Inv => OtherEventForCause
  BY DEF Inv, Outcomes, Taken, OtherEventForCause, Delivered
<1> QED BY <1>1, BoardInv, PTL

(* No false alarm: the crate is not initialised again while all chains are *)
(* in step and the board was left alone.                                   *)
THEOREM NoFalseAlarm == Spec => []AlarmHasCause
<1>1. Inv => AlarmHasCause
  BY DEF Inv, Outcomes, Alarm, AlarmHasCause
<1> QED BY <1>1, BoardInv, PTL

(* What crate_gsi_pex_goc_read and _write report.                          *)
THEOREM AccessIsTrue == Spec => GocIsTrue
<1> DEFINE True == cpc = "rx" /\ cpc' = "idle" =>
                      /\ gres' = "other" => par /\ ~v5
                      /\ gres' = "failed" => par \/ off # {}
<1>1. ASSUME Inv, [Next]_vars PROVE True
  <2> SUFFICES ASSUME cpc = "rx", cpc' = "idle" PROVE True
    OBVIOUS
  <2>1. mutex = "C" /\ rpc \notin Locking \cup {"died"}
    BY <1>1 DEF Inv, Locked
  <2>2. GocRx
    <3> SUFFICES ASSUME ~GocRx PROVE cpc' = cpc
      OBVIOUS
    <3>1. ASSUME NEW M \in SUBSET Chains, Trigger(M) PROVE cpc' = cpc
      BY <3>1 DEF Trigger, control
    <3>2. ASSUME NEW c \in Chains, NEW r \in wire[c], Serve(c, r) PROVE cpc' = cpc
      BY <3>2 DEF Serve, control
    <3>3. ASSUME Begin \/ PrepAddr \/ PrepData \/ PrepComm PROVE cpc' = cpc
      BY <3>3 DEF Begin, PrepAddr, PrepData, PrepComm, control
    <3>4. ASSUME ReadoutDt \/ ReadStart \/ Issue \/ Receive \/ Finalize PROVE cpc' = cpc
      BY <3>4 DEF ReadoutDt, ReadStart, Issue, Receive, Finalize, control
    <3>5. ~Die
      BY <2>1 DEF Die, Locking
    <3>6. ASSUME NEW c \in Chains, Reconfigure(c) PROVE cpc' = cpc
      BY <3>6 DEF Reconfigure, control
    <3>7. ~(\E c \in Chains, k \in {"rd", "wr"} : GocClear(c, k))
          /\ ~GocAddr /\ ~GocData /\ ~GocComm
      BY DEF GocClear, GocAddr, GocData, GocComm
    <3>8. CASE UNCHANGED vars
      BY <3>8 DEF vars, control
    <3> QED BY <1>1, <3>1, <3>2, <3>3, <3>4, <3>5, <3>6, <3>7, <3>8
          DEF Next, Electronics, Readout, Control, Requests
  <2>3. gres' = Outcome(rep[creq.s]) /\ (rep[creq.s] # NoReply \/ Silence(creq.s))
    BY <2>2 DEF GocRx
  <2>t. /\ creq.s \in Chains /\ creq.kind \in {"rd", "wr"} /\ rep[creq.s] \in Reply
        /\ wire[creq.s] \subseteq Request /\ par \in BOOLEAN /\ v5 \in BOOLEAN
    BY <1>1 DEF Inv, TypeOK, ThreadType, BoardType, ConfigType
  <2>4. gres' = "other" => par /\ ~v5
    <3> SUFFICES ASSUME ~par \/ v5, gres' = "other" PROVE FALSE
      BY <2>t
    <3>1. /\ rep[creq.s].kind \in {"rd", "wr"} => rep[creq.s].addr = GocReg
          /\ rep[creq.s].kind = "wr" => rep[creq.s].data = 1
      BY <1>1, <2>t DEF Inv, Named
    <3> QED BY <2>3, <2>t, <3>1 DEF Outcome, Payload
  <2>5. gres' = "failed" => par \/ off # {}
    <3> SUFFICES ASSUME ~par, off = {}, gres' = "failed" PROVE FALSE
      BY <2>t
    <3>1. Connected(creq.s)
      BY <1>1, <2>1, <2>t DEF Inv, Answering, Line, Clear
    <3>2. ~(AccessOpen(creq.s) /\ rep[creq.s] = NoReply)
      <4> SUFFICES ASSUME AccessOpen(creq.s), rep[creq.s] = NoReply PROVE FALSE
        OBVIOUS
      <4>1. PICK q \in wire[creq.s] : q.kind = creq.kind
        BY DEF AccessOpen
      <4>2. CanServe(creq.s, q)
        BY <2>t, <4>1 DEF CanServe
      <4> QED BY <2>3, <4>1, <4>2 DEF Silence
    <3>3. rep[creq.s].kind = creq.kind
      BY <3>1, <3>2 DEF Connected, Accessed
    <3> QED BY <2>3, <2>t, <3>3 DEF Outcome
  <2> QED BY <2>4, <2>5
<1>2. Inv /\ [Next]_vars => True
  BY <1>1
<1>3. Spec => [][True]_vars
  BY <1>2, BoardInv, PTL DEF Spec
<1> QED BY <1>3 DEF GocIsTrue
=============================================================================
