------------------------------- MODULE PexToken -------------------------------
(***************************************************************************)
(* Reading chains of front-ends (TAMEX, FEBEX, CTDC) through the PEX board *)
(* of a crate. At every trigger the board's buffer index is flipped and,   *)
(* in parallel mode, a token is sent down all chains before the crate is   *)
(* locked; the readout then waits for the answers, one chain after the     *)
(* other, while the front-ends take the next event into their other        *)
(* buffer. The control thread uses the same request and reply registers,   *)
(* under the lock of the crate, for accesses to single registers (goc).    *)
(*                                                                         *)
(* Triggers are numbered; the data of an event are its number, and the     *)
(* count of triggers its chain had seen since it was reset (LEC).          *)
(***************************************************************************)
EXTENDS Integers

CONSTANTS
    Crates,      \* kinds of the chains by SFP, in the order of module_list,
                 \* for each of the crates to consider
    MaxTrig,     \* bound: triggers
    MaxMiss,     \* bound: triggers some chain does not see
    MaxGoc,      \* bound: accesses of the control thread
    MaxReconf    \* bound: chains configured again while running

Kinds == {"tamex", "febex", "ctdc"}

ASSUME CrateAssumption ==
    \A c \in Crates : \E n, k \in 0..3 : n <= k /\ c \in [n..k -> Kinds]
ASSUME BoundAssumption == {MaxTrig, MaxMiss, MaxGoc, MaxReconf} \subseteq Nat

VARIABLES
    kind, v5, par, wait, rel,  \* configuration: kinds of the chains, pex_v5,
                               \* pex_parallel, pex_wait, release_dt
    \* The front-ends and the trigger.
    trig,     \* triggers so far
    dt,       \* the dead time is on
    pend,     \* a trigger waits for f_user_readout
    seen,     \* seen[s]: triggers chain s saw since its reset
    held,     \* held[s][b]: the event in buffer b
    fresh,    \* fresh[s][b]: it has not been asked for
    \* The board.
    reqA, reqD,  \* req_addr, req_data
    wire,     \* wire[s]: requests on their way
    rep,      \* rep[s]: reply registers
    mem,      \* mem[s]: what the last token brought
    \* The program.
    state, mutex,
    bufIdx,   \* pex->buf_idx
    cnt, prev,      \* crate counter, and as of the last readout
    ctr,      \* ctr[s]: event_counter of the chain's module
    mbuf,     \* mbuf[s]: pex_buf_idx of a TAMEX
    isOn, inh,      \* dt_release.is_on, dt_release.do_inhibit
    vec,      \* module_configed_vec: chains with a new configuration
    rpc, rs, bad, \* readout thread: place, chain, something went wrong
    cpc, creq,    \* control thread: place, request
    \* History.
    cur,      \* number of the trigger being read
    acc,      \* acc[s]: event delivered in this cycle, 0 without data
    off,      \* chains that missed a trigger or were reset alone
    dist,     \* the control thread used the board inside a cycle
    gres,     \* how the last goc access ended
    misses, gocs, reconfs

config == <<kind, v5, par, wait, rel>>
frontend == <<seen, held, fresh>>
board == <<reqA, reqD, wire, rep, mem>>
soft == <<bufIdx, cnt, prev, ctr, mbuf>>
control == <<cpc, creq, gres, gocs>>
history == <<cur, acc, off, misses, reconfs>>
vars == <<config, trig, dt, pend, frontend, board, state, mutex, soft, isOn,
          inh, vec, rpc, rs, bad, control, history, dist>>

Chains == DOMAIN kind
First == CHOOSE s \in Chains : \A t \in Chains : s <= t
Last == CHOOSE s \in Chains : \A t \in Chains : t <= s

NoEvent == [id |-> 0, lec |-> 0]
NoReply == [kind |-> "none", addr |-> 0, data |-> 0]
GocReg == 4         \* a register of a front-end: an address divisible by 4
CardNum == 1        \* cards of a chain

\* pex->buf_idx after gsi_pex_init: the first flip makes it 0.
StartOther == 0
StartIdx == 1

\* The address of a token says which buffer, and whether to wait for it.
TokenAddrShift(b) == b + (IF wait THEN 8 ELSE 0)
TokenAddr(b) == b + (IF wait THEN 2 ELSE 0)
BufOf(a) == a % 2
WaitOf(a) == (a \div 2) % 2 = 1

Init ==
    /\ kind \in Crates
    /\ par \in BOOLEAN /\ v5 \in BOOLEAN /\ (v5 => par) \* matters there only
    /\ wait \in BOOLEAN /\ rel \in BOOLEAN
    /\ trig = 0 /\ dt = FALSE /\ pend = FALSE
    /\ seen = [s \in Chains |-> 0]
    /\ held = [s \in Chains |-> [b \in 0..1 |-> NoEvent]]
    /\ fresh = [s \in Chains |-> [b \in 0..1 |-> FALSE]]
    /\ reqA = 0 /\ reqD = 0
    /\ wire = [s \in Chains |-> {}]
    /\ rep = [s \in Chains |-> NoReply]
    /\ mem = [s \in Chains |-> NoEvent]
    /\ state = "PREPARED" /\ mutex = "none"
    /\ bufIdx = StartIdx /\ cnt = 0 /\ prev = 0
    /\ ctr = [s \in Chains |-> 0] /\ mbuf = [s \in Chains |-> StartIdx]
    /\ isOn = TRUE /\ inh = FALSE /\ vec = {}
    /\ rpc = "idle" /\ rs = First /\ bad = FALSE
    /\ cpc = "idle" /\ creq = [s |-> First, kind |-> "rd"]
    /\ cur = 0 /\ acc = [s \in Chains |-> -1] /\ off = {} /\ dist = FALSE
    /\ gres = "none"
    /\ misses = 0 /\ gocs = 0 /\ reconfs = 0

-----------------------------------------------------------------------------
(* The electronics *)

(* A trigger is accepted; chains in M do not see it. A front-end fills its *)
(* buffers in turn, starting with buffer 0 after a reset.                  *)
Trigger(M) ==
    /\ ~dt /\ trig < MaxTrig
    /\ misses + (IF M = {} THEN 0 ELSE 1) <= MaxMiss
    /\ dt' = TRUE /\ pend' = TRUE /\ trig' = trig + 1
    /\ LET S == Chains \ M
           b(s) == seen[s] % 2
           event(s) == [id |-> trig + 1, lec |-> seen[s] + 1]
       IN /\ seen' = [s \in Chains |-> IF s \in S THEN seen[s] + 1 ELSE seen[s]]
          /\ held' = [s \in Chains |-> IF s \in S
                        THEN [held[s] EXCEPT ![b(s)] = event(s)] ELSE held[s]]
          /\ fresh' = [s \in Chains |-> IF s \in S
                         THEN [fresh[s] EXCEPT ![b(s)] = TRUE] ELSE fresh[s]]
    /\ off' = off \cup M
    /\ misses' = IF M = {} THEN misses ELSE misses + 1
    /\ UNCHANGED <<config, board, state, mutex, soft, isOn, inh, vec, rpc, rs,
                   bad, control, cur, acc, reconfs, dist>>

\* What a chain can answer now: a token that is to wait needs a fresh event.
CanServe(s, r) ==
    r.kind = "tk" => ~WaitOf(r.addr) \/ fresh[s][BufOf(r.addr)]

(* The chain answers. A token brings the buffer it names; one that has     *)
(* been read before may be empty by now. The answer to a token names       *)
(* buffer and mode again, and the number of cards.                         *)
Serve(s, r) ==
    /\ r \in wire[s] /\ CanServe(s, r)
    /\ wire' = [wire EXCEPT ![s] = @ \ {r}]
    /\ IF r.kind = "tk"
       THEN LET b == BufOf(r.addr) IN
            /\ rep' = [rep EXCEPT ![s] =
                        [kind |-> "tk", addr |-> r.addr % 4, data |-> CardNum]]
            /\ \E e \in {held[s][b]} \cup (IF fresh[s][b] THEN {} ELSE {NoEvent}) :
                   mem' = [mem EXCEPT ![s] = e]
            /\ fresh' = [fresh EXCEPT ![s][b] = FALSE]
       ELSE /\ \E d \in (IF r.kind = "rd" THEN {0, CardNum} ELSE {r.data}) :
                   rep' = [rep EXCEPT ![s] =
                             [kind |-> r.kind, addr |-> r.addr, data |-> d]]
            /\ UNCHANGED <<mem, fresh>>
    /\ UNCHANGED <<config, trig, dt, pend, seen, held, reqA, reqD, state,
                   mutex, soft, isOn, inh, vec, rpc, rs, bad, control,
                   history, dist>>

\* rx_clear_ch. A reply stays in its register until it is cleared.
RxClearNot(s) == rep
RxClear(s) == [rep EXCEPT ![s] = NoReply]

\* rx gives up: no reply is there, and none can come.
Silence(s) == rep[s] = NoReply /\ \A r \in wire[s] : ~CanServe(s, r)

(* req_comm starts a request with what the other registers hold.           *)
Send(S, k, a, d) ==
    wire' = [s \in Chains |-> IF s \in S
               THEN wire[s] \cup {[kind |-> k, addr |-> a, data |-> d]}
               ELSE wire[s]]

-----------------------------------------------------------------------------
(* The readout thread: f_user_readout *)

(* crate_tag_counter_increase, without the lock: the index is flipped, and *)
(* in parallel mode the replies of all chains are cleared (rx_clear_sfps)  *)
(* and the token is sent (tx).                                             *)
Begin ==
    /\ rpc = "idle" /\ pend
    /\ pend' = FALSE /\ cur' = trig
    /\ acc' = [s \in Chains |-> -1]
    /\ dist' = (dist \/ cpc # "idle")
    /\ bufIdx' = 1 - bufIdx /\ cnt' = cnt + 1
    /\ rep' = IF par THEN [s \in Chains |-> NoReply] ELSE rep
    /\ rpc' = CASE ~par -> "dt" [] par /\ v5 -> "comm" [] OTHER -> "addr"
    /\ UNCHANGED <<config, trig, dt, frontend, reqA, reqD, wire, mem, state,
                   mutex, prev, ctr, mbuf, isOn, inh, vec, rs, bad, control, off,
                   misses, reconfs>>

PrepAddr ==
    /\ rpc = "addr" /\ rpc' = "data" /\ reqA' = TokenAddr(bufIdx)
    /\ UNCHANGED <<config, trig, dt, pend, frontend, reqD, wire, rep, mem,
                   state, mutex, soft, isOn, inh, vec, rs, bad, control,
                   history, dist>>

PrepData ==
    /\ rpc = "data" /\ rpc' = "comm" /\ reqD' = 0
    /\ UNCHANGED <<config, trig, dt, pend, frontend, reqA, wire, rep, mem,
                   state, mutex, soft, isOn, inh, vec, rs, bad, control,
                   history, dist>>

\* A PEX5 takes the whole token in one word.
PrepComm ==
    /\ rpc = "comm" /\ rpc' = "dt"
    /\ Send(Chains, "tk", IF v5 THEN TokenAddr(bufIdx) ELSE reqA, 0)
    /\ UNCHANGED <<config, trig, dt, pend, frontend, reqA, reqD, rep, mem,
                   state, mutex, soft, isOn, inh, vec, rs, bad, control,
                   history, dist>>

(* crate_deinit and crate_init: the chains are reset, the board starts     *)
(* with buffer 1 so that the first event will be in buffer 0, and all      *)
(* counters start at zero.                                                 *)
Reinit ==
    /\ seen' = [s \in Chains |-> 0]
    /\ held' = [s \in Chains |-> [b \in 0..1 |-> NoEvent]]
    /\ fresh' = [s \in Chains |-> [b \in 0..1 |-> FALSE]]
    /\ wire' = [s \in Chains |-> {}]
    /\ rep' = [s \in Chains |-> NoReply]
    /\ mem' = [s \in Chains |-> NoEvent]
    /\ bufIdx' = StartIdx /\ cnt' = 0 /\ prev' = 0
    /\ ctr' = [s \in Chains |-> 0] /\ mbuf' = [s \in Chains |-> StartIdx]
    /\ off' = {} /\ dist' = FALSE

\* gsi_tamex_readout_dt counts the flips; the other kinds do nothing.
Counted == [s \in Chains |->
              IF kind[s] = "tamex" /\ bufIdx # mbuf[s] THEN ctr[s] + 1
              ELSE ctr[s]]

(* crate_readout_dt. Only a TAMEX has a counter that can be compared.      *)
ReadoutDt ==
    /\ rpc = "dt" /\ mutex = "none"
    /\ IF state = "REINIT"
       THEN /\ Reinit /\ state' = "READY" /\ rpc' = "start" /\ inh' = inh
            /\ UNCHANGED bad
       ELSE LET mismatch == \E s \in Chains : kind[s] = "tamex" /\ Counted[s] # cnt
            IN /\ ctr' = Counted
               /\ mbuf' = [s \in Chains |->
                             IF kind[s] = "tamex" THEN bufIdx ELSE mbuf[s]]
               /\ bad' = mismatch
               /\ state' = IF mismatch THEN "REINIT" ELSE "READY"
               /\ rpc' = IF mismatch THEN "fin" ELSE "start"
               /\ inh' = (inh \/ vec # {})
               /\ UNCHANGED <<frontend, wire, rep, mem, bufIdx, cnt, prev, off,
                              dist>>
    /\ UNCHANGED <<config, trig, dt, pend, reqA, reqD, mutex, isOn, vec, rs,
                   control, cur, acc, misses, reconfs>>

\* Without parallel mode a token is sent by the driver; that of the FEBEX
\* never does.
Reading(s) == IF par \/ kind[s] = "febex" THEN "recv" ELSE "issue"

(* crate_readout: all these modules allow an early release of the dead     *)
(* time, which comes before the first of them; then the crate is locked.   *)
(* A crate that was initialised in this cycle has nothing to read.         *)
ReadStart ==
    /\ rpc = "start" /\ mutex = "none"
    /\ isOn' = ~(rel /\ ~inh)
    /\ dt' = isOn'
    /\ inh' = IF isOn' THEN FALSE ELSE inh
    /\ IF cnt = prev
       THEN /\ rpc' = "fin" /\ UNCHANGED <<mutex, rs>>
       ELSE /\ rpc' = Reading(First) /\ mutex' = "R" /\ rs' = First
    /\ UNCHANGED <<config, trig, pend, frontend, board, state, soft, vec, bad,
                   control, history, dist>>

\* gsi_pex_token_issue_single, by the drivers of the TAMEX and CTDC
Issue ==
    /\ rpc = "issue" /\ rpc' = "recv"
    /\ rep' = RxClear(rs)
    /\ reqA' = TokenAddr(bufIdx) /\ reqD' = 0
    /\ Send({rs}, "tk", TokenAddr(bufIdx), 0)
    /\ UNCHANGED <<config, trig, dt, pend, frontend, mem, state, mutex, soft,
                   isOn, inh, vec, rs, bad, control, history, dist>>

\* gsi_pex_token_receive on a reply, unless it is for a token of another
\* buffer or mode; cards is 0 if any number will do. The kind of the reply
\* is not looked at.
IsToken(s, cards) ==
    /\ rep[s] # NoReply
    /\ BufOf(rep[s].addr) = bufIdx /\ WaitOf(rep[s].addr) = wait
    /\ cards # 0 => rep[s].data = cards

(* gsi_tamex_parse_data and gsi_ctdc_proto_parse_data, on data that differ *)
(* in the event only. The buffer of an event is the parity of its count in *)
(* the chain. The data of a CTDC have the count only if some card has sent *)
(* the trace of a channel.                                                 *)
ParseTamexUncounted(s, n) == TRUE
ParseTamex(s, n) == mem[s].lec = n /\ (mem[s].lec - 1) % 2 = bufIdx
ParseCtdc(s, n, traced) == traced => mem[s].lec = n

(* The readouts: token tells whether there was one, n is then the event    *)
(* counter, and ok what the parser says. With no data TAMEX, and CTDC in   *)
(* sequential mode, have nothing to parse; in parallel mode CTDC adds four *)
(* bytes to the size, which is less than its parser expects.               *)
ReadTamex(s) ==
    [token |-> IsToken(s, CardNum), n |-> ctr[s],
     ok |-> mem[s].id = 0 \/ ParseTamex(s, ctr[s])]
ReadCtdc(s, traced) ==
    [token |-> IsToken(s, 0), n |-> ctr[s] + 1,
     ok |-> IF mem[s].id = 0 THEN ~par ELSE ParseCtdc(s, ctr[s] + 1, traced)]

(* gsi_febex_readout waits for the token in parallel mode only. After that *)
(* it advances the pointer of the event buffer but not its size, which     *)
(* read_module takes for a fatal error: EVENT_BUFFER_INVARIANT.            *)
ReadFebex(s) == [token |-> IsToken(s, 0), n |-> 0, ok |-> FALSE]
Dies(s) == kind[s] = "febex" /\ (par => ReadFebex(s).token)

Answered(s) == rep[s] # NoReply \/ Silence(s) \/ (kind[s] = "febex" /\ ~par)

\* Readout and parsing of one chain; the loop goes on with the others.
Receive ==
    /\ rpc = "recv" /\ Answered(rs) /\ ~Dies(rs)
    /\ \E traced \in IF kind[rs] = "ctdc" THEN BOOLEAN ELSE {TRUE} :
       LET r == CASE kind[rs] = "tamex" -> ReadTamex(rs)
                  [] kind[rs] = "ctdc" -> ReadCtdc(rs, traced)
                  [] kind[rs] = "febex" -> ReadFebex(rs)
           good == r.token /\ r.ok
       IN /\ acc' = [acc EXCEPT ![rs] = IF good THEN mem[rs].id ELSE @]
          /\ bad' = (bad \/ ~good)
          /\ ctr' = [ctr EXCEPT ![rs] = IF r.token THEN r.n ELSE @]
          /\ IF rs = Last
             THEN /\ rpc' = "fin" /\ mutex' = "none" /\ rs' = First
                  /\ state' = IF bad' THEN "REINIT" ELSE state
             ELSE /\ rpc' = Reading(rs + 1)
                  /\ rs' = rs + 1 /\ UNCHANGED <<mutex, state>>
    /\ UNCHANGED <<config, trig, dt, pend, frontend, board, bufIdx, cnt, prev,
                   mbuf, isOn, inh, vec, control, cur, off, misses, reconfs,
                   dist>>

\* log_die: the process is gone, with both its threads.
Die ==
    /\ rpc = "recv" /\ Answered(rs) /\ Dies(rs)
    /\ rpc' = "died" /\ mutex' = "R" /\ cpc' = "idle"
    /\ UNCHANGED <<config, trig, dt, pend, frontend, board, state, soft, isOn,
                   inh, vec, rs, bad, creq, gres, gocs, history, dist>>

(* init_fast of chains with a new configuration: TAMEX and CTDC reset      *)
(* their front-ends, but only CTDC starts counting anew, and the board     *)
(* keeps its buffer index. FEBEX only writes registers.                    *)
Reconfigured(R) ==
    LET S == {s \in R : kind[s] # "febex"} IN
    /\ seen' = [s \in Chains |-> IF s \in S THEN 0 ELSE seen[s]]
    /\ held' = [s \in Chains |-> IF s \in S THEN [b \in 0..1 |-> NoEvent]
                                 ELSE held[s]]
    /\ fresh' = [s \in Chains |-> IF s \in S THEN [b \in 0..1 |-> FALSE]
                                  ELSE fresh[s]]
    /\ rep' = [s \in Chains |-> IF s \in R THEN NoReply ELSE rep[s]]
    /\ ctr' = [s \in Chains |-> IF s \in S /\ kind[s] = "ctdc" THEN 0 ELSE ctr[s]]
    /\ mbuf' = [s \in Chains |-> IF s \in S THEN bufIdx ELSE mbuf[s]]
    /\ off' = off \cup S
    /\ UNCHANGED <<wire, mem, bufIdx, dist>>

(* crate_readout_finalize. The backend ends the dead time if it was not    *)
(* released before.                                                        *)
Finalize ==
    /\ rpc = "fin" /\ mutex = "none" /\ rpc' = "idle"
    /\ dt' = pend /\ bad' = FALSE
    /\ CASE state = "REINIT" ->
              /\ Reinit /\ UNCHANGED vec
              /\ state' = IF isOn THEN "PREPARED" ELSE "REINIT"
         [] state # "REINIT" /\ isOn ->
              /\ Reconfigured(vec) /\ vec' = {}
              /\ prev' = cnt /\ UNCHANGED <<cnt, state>>
         [] OTHER ->
              /\ prev' = cnt
              /\ UNCHANGED <<frontend, wire, rep, mem, bufIdx, cnt, ctr, mbuf,
                             off, vec, state, dist>>
    /\ UNCHANGED <<config, trig, pend, reqA, reqD, mutex, isOn, inh, rs,
                   control, cur, acc, misses, reconfs>>

-----------------------------------------------------------------------------
(* The control thread *)

\* crate_config_write, as far as the chains are concerned.
Reconfigure(s) ==
    /\ reconfs < MaxReconf /\ s \notin vec
    /\ vec' = vec \cup {s} /\ reconfs' = reconfs + 1
    /\ UNCHANGED <<config, trig, dt, pend, frontend, board, state, mutex, soft,
                   isOn, inh, rpc, rs, bad, control, cur, acc, off, misses, dist>>

\* crate_gsi_pex_goc_read and _write: lock, rx_clear_ch, tx, rx, unlock.
Touch == dist' = (dist \/ rpc # "idle")

GocClear(s, k) ==
    /\ cpc = "idle" /\ mutex = "none" /\ gocs < MaxGoc
    /\ mutex' = "C" /\ cpc' = "addr" /\ gocs' = gocs + 1
    /\ creq' = [s |-> s, kind |-> k] /\ gres' = "none" /\ Touch
    /\ rep' = RxClear(s)
    /\ UNCHANGED <<config, trig, dt, pend, frontend, reqA, reqD, wire, mem,
                   state, soft, isOn, inh, vec, rpc, rs, bad, history>>

GocAddr ==
    /\ cpc = "addr" /\ cpc' = "data" /\ reqA' = GocReg /\ Touch
    /\ UNCHANGED <<config, trig, dt, pend, frontend, reqD, wire, rep, mem,
                   state, mutex, soft, isOn, inh, vec, rpc, rs, bad, creq, gres,
                   gocs, history>>

Payload == IF creq.kind = "wr" THEN 1 ELSE 0

GocData ==
    /\ cpc = "data" /\ cpc' = "comm" /\ reqD' = Payload /\ Touch
    /\ UNCHANGED <<config, trig, dt, pend, frontend, reqA, wire, rep, mem,
                   state, mutex, soft, isOn, inh, vec, rpc, rs, bad, creq, gres,
                   gocs, history>>

GocComm ==
    /\ cpc = "comm" /\ cpc' = "rx" /\ Send({creq.s}, creq.kind, reqA, reqD) /\ Touch
    /\ UNCHANGED <<config, trig, dt, pend, frontend, reqA, reqD, rep, mem,
                   state, mutex, soft, isOn, inh, vec, rpc, rs, bad, creq, gres,
                   gocs, history>>

\* How an access ends: a reply of the right kind may be about another register.
OutcomeAnyKind(r) == CASE r.kind = "none" -> "failed"
                       [] r.kind # "none" /\ r.addr = GocReg -> "done"
                       [] OTHER -> "other"
Outcome(r) == CASE r.kind # creq.kind -> "failed"
                [] r.kind = creq.kind /\ r.addr = GocReg
                     /\ (r.kind = "wr" => r.data = Payload) -> "done"
                [] OTHER -> "other"

GocRx ==
    /\ cpc = "rx" /\ cpc' = "idle" /\ mutex' = "none" /\ Touch
    /\ rep[creq.s] # NoReply \/ Silence(creq.s)
    /\ gres' = Outcome(rep[creq.s])
    /\ UNCHANGED <<config, trig, dt, pend, frontend, board, state, soft, isOn,
                   inh, vec, rpc, rs, bad, creq, gocs, history>>

-----------------------------------------------------------------------------
Electronics == \E s \in Chains : \E r \in wire[s] : Serve(s, r)
Readout == Begin \/ PrepAddr \/ PrepData \/ PrepComm \/ ReadoutDt \/ ReadStart
           \/ Issue \/ Receive \/ Die \/ Finalize
Control == GocAddr \/ GocData \/ GocComm \/ GocRx
Requests == \/ \E s \in Chains : Reconfigure(s)
            \/ \E s \in Chains, k \in {"rd", "wr"} : GocClear(s, k)

Next == \/ \E M \in SUBSET Chains : Trigger(M)
        \/ Electronics \/ Readout \/ Control \/ Requests

Spec == Init /\ [][Next]_vars

-----------------------------------------------------------------------------

Delivered(s) == rpc = "fin" /\ acc[s] # -1

(* What the readout of an event delivers for a chain is that event,        *)
(* unless the chain is out of step or, in parallel mode, the control       *)
(* thread has used the board inside a cycle since it was initialised.      *)
AcceptedIsEvent ==
    \A s \in Chains : Delivered(s) /\ s \notin off /\ ~(par /\ dist) => acc[s] = cur

(* Even then a TAMEX, whose event count is checked, never delivers an older *)
(* event, and a younger one only if it missed a trigger and the dead time  *)
(* was released before it was read: its own count is then right.           *)
OtherEventForCause ==
    \A s \in Chains : Delivered(s) /\ kind[s] = "tamex" =>
        \/ acc[s] \in {0, cur}
        \/ acc[s] > cur /\ rel /\ s \in off

(* The crate is sent to re-initialisation only if a chain got out of step, *)
(* or the control thread used the board while tokens may have been on      *)
(* their way.                                                              *)
AlarmHasCause == bad => off # {} \/ (par /\ dist)

(* An access of the control thread that is reported as done was made to    *)
(* the register it named, and in sequential mode it fails only while a     *)
(* token waits for a trigger its chain missed. The exception is a parallel *)
(* token of a board before PEX5: its words are written to the request      *)
(* registers without the lock.                                             *)
GocIsTrue == [][cpc = "rx" /\ cpc' = "idle" =>
                   /\ gres' = "other" => par /\ ~v5
                   /\ gres' = "failed" => par \/ off # {}]_vars
=============================================================================
