------------------------------- MODULE CtrlData -------------------------------
(***************************************************************************)
(* What the answers of the control server say. The server packs an answer  *)
(* field by field and begins a datagram whenever the next field does not   *)
(* fit into the last one (packer_list_get); the client knows what to       *)
(* expect only from what it has unpacked so far, and before every field    *)
(* looks for the datagram to take it from (packer_lookup). How datagrams   *)
(* get lost or mixed up on the way is the subject of Ctrl; here all of     *)
(* them arrive.                                                            *)
(*                                                                         *)
(* A field is its bytes, in the order of the network. Of a datagram only   *)
(* what follows the MD5 sum, the number and the index is kept. Values that *)
(* the client does not count with stay bytes.                              *)
(***************************************************************************)
EXTENDS ConfigPack, FiniteSets, TLC

CONSTANTS
    Cases,      \* states of the program with what clients ask: [server, call],
                \* a server being [crates, config]
    Registers,  \* per type of module its list: [ofs, bits, num, step]
    Sizes,      \* bytes of a datagram after the header: 506
    RequestMax, \* the same of a request, after what names the module: 504
    NodeMax     \* most datagrams of an answer: 32

DataAssumption == Sizes \subseteq Nat \ {0} /\ RequestMax \in Nat /\ NodeMax \in Nat
ASSUME DataAssumption

VARIABLES
    server, size,
    call,    \* what the client asks for
    answer,  \* the datagrams of the answer
    at, ofs, \* dgram_array_i, and ofs of the packer
    due,     \* fields the client is going to unpack
    told,    \* what it has stored so far
    stage    \* "idle" | "reading" | "done" | "refused" | "failed" | "down"

dataVars == <<server, size, call, answer, at, ofs, due, told, stage>>

-----------------------------------------------------------------------------
(* Packing. *)

(* pack8, pack16, pack32 and pack64; numbers here fit into three bytes.    *)
Bytes(v, w) == [k \in 1..w |-> IF w - k > 2 THEN 0 ELSE (v \div 256^(w - k)) % 256]
MinusOne(w) == [k \in 1..w |-> 255]
Text(name) == Append(name, 0)

(* Use the last datagram if there is enough space.                         *)
Put(list, field) ==
    IF list # << >> /\ Len(Last(list)) + Len(field) <= size
    THEN [list EXCEPT ![Len(list)] = @ \o field]
    ELSE Append(list, field)
Packed(fields) == FoldLeft(Put, << >>, fields)

(* get_crate and get_module walk along a list. In an empty one there is    *)
(* nothing to walk from.                                                   *)
Crates == server.crates
Lost(list, i) == list = << >> /\ i > 0
Has(list, i) == i < Len(list)

Excuse(w) == <<MinusOne(w), Text(<<1>>), Bytes(1, 2), Text(<<2>>)>>

SubFields(m) == <<Bytes(Len(m.subs), 1)>> \o [k \in 1..Len(m.subs) |-> Bytes(m.subs[k], 2)]
ModuleFields(m) == <<Bytes(m.type, 2)>> \o SubFields(m)
CrateFields ==
    <<Bytes(Len(Crates), 1)>>
    \o FlattenSeq([i \in 1..Len(Crates) |->
         LET ms == Crates[i].modules IN
         <<Text(Crates[i].name), Bytes(Len(ms), 1)>>
         \o FlattenSeq([j \in 1..Len(ms) |-> ModuleFields(ms[j])])])

InfoFields ==
    IF ~Has(Crates, call.crate) THEN <<MinusOne(2), Text(<<1>>), Bytes(1, 2)>>
    ELSE LET i == Crates[call.crate + 1].info IN
         <<Bytes(i.events, 2), Bytes(i.release, 1), Bytes(i.acvt, 2),
           Bytes(i.bytes, 4), Bytes(i.max, 4)>>

Code == [empty |-> 0, double |-> 1, int |-> 2, key |-> 3, range |-> 4, string |-> 5]
ScalarFields(s) ==
    <<Bytes(Code[s.t], 1), Bytes(s.i, 2)>>
    \o (CASE s.t = "double" -> <<Bytes(s.v[1], 8), Bytes(s.v[2], 1)>>
          [] s.t = "int" -> <<Bytes(s.v[1], 4), Bytes(s.v[2], 1)>>
          [] s.t = "key" -> <<Bytes(s.v[1], 2)>>
          [] s.t = "range" -> <<Bytes(s.v[1], 1), Bytes(s.v[2], 1)>>
          [] s.t = "string" -> <<Text(s.v)>>
          [] OTHER -> << >>)
RunFields(r) ==
    CASE r.tok = "dup" -> <<Bytes(128 + r.n - 2, 1)>>
      [] r.tok = "raw" -> <<Bytes(r.n - 1, 1)>>
      [] OTHER -> ScalarFields(r.s)
ScalarList(l) ==
    LET runs == Runs(l, 1) IN
    <<Bytes(Len(l), 2)>> \o FlattenSeq([k \in 1..Len(runs) |-> RunFields(runs[k])])

(* KW_BARRIER, KW_TAGS                                                     *)
Leaves == {1, 2}
HasList(kind, name) == kind = "block" /\ name \notin Leaves
RECURSIVE ItemList(_)
ItemList(items) ==
    <<Bytes(Len(items), 2)>>
    \o FlattenSeq([k \in 1..Len(items) |->
         LET i == items[k]
             kind == IF i.kind = "block" THEN 0 ELSE 1 IN
         <<Bytes(kind + (IF i.touched THEN 2 ELSE 0), 1), Bytes(i.name, 2)>>
         \o ScalarList(i.scal)
         \o (IF HasList(i.kind, i.name) THEN ItemList(i.sub) ELSE << >>)])

(* A register of the hardware.                                             *)
Hardware(o) == ((o \div 2) % 251) + 1
Reg(mem, o) == IF o \in DOMAIN mem THEN mem[o] ELSE Hardware(o)

(* micro_read of the V1190 and the V1290: words by code, and how many.     *)
MicroReads(words) == <<1, 5, 1, 1, 1, 1, 1, 1, 1, words, 1>>
MicroTail(words) ==
    LET n == MicroReads(words) IN
    <<Bytes(FoldLeft(+, 0, n), 1)>>
    \o FlattenSeq([k \in 1..Len(n) |->
         <<Bytes(k, 2)>> \o [j \in 1..n[k] |-> Bytes(j, 2)]])

(* module_register_list_pack                                               *)
RegisterFields(m) ==
    IF m.type \notin DOMAIN Registers THEN Excuse(2)
    ELSE <<Bytes(m.type, 2)>>
         \o (IF ~m.map THEN << >>
             ELSE FlattenSeq([k \in 1..Len(Registers[m.type]) |->
                    LET r == Registers[m.type][k] IN
                    [j \in 1..r.num |-> Bytes(Hardware(r.ofs + (j - 1) * r.step), r.bits \div 8)]])
                  \o (IF m.words > 0 THEN MicroTail(m.words) ELSE << >>))

(* A read of many words through a front-end chain; a word that cannot be   *)
(* had is zero.                                                            *)
GocFields ==
    <<Bytes(call.id, 4)>>
    \o [k \in 1..call.num |->
          IF Has(Crates, call.crate) /\ Crates[call.crate + 1].pex
          THEN Bytes(Hardware(call.ofs + 4 * (k - 1)), 4) ELSE Bytes(0, 4)]

-----------------------------------------------------------------------------
(* Accesses to single registers: ctrl_client_module_access_get packs an    *)
(* offset by how far it is from the end of the last access.                *)

AccessMod == 256
OffsetFieldsWide(o, guess) ==
    IF o = guess THEN << >>
    ELSE IF o > guess /\ o - guess <= 256 THEN Bytes(o - guess, 1)
    ELSE IF o > guess /\ o - guess < 65536 THEN Bytes(o - guess, 2)
    ELSE Bytes(o, 4)
OffsetFields(o, guess) ==
    IF o = guess THEN << >>
    ELSE IF o > guess /\ o - guess < 256 THEN Bytes(o - guess, 1)
    ELSE IF o > guess /\ o - guess < 65536 THEN Bytes(o - guess, 2)
    ELSE Bytes(o, 4)
Jump(bytes) == CASE Len(bytes) = 4 -> 3 [] OTHER -> Len(bytes)
RECURSIVE Encoded(_, _, _)
Encoded(l, k, guess) ==
    IF k > Len(l) THEN << >>
    ELSE LET a == l[k] jump == OffsetFields(a.ofs, guess) IN
         <<(IF a.bits = 32 THEN 1 ELSE 0) + 2 * Jump(jump) + (IF a.read THEN 8 ELSE 0)>>
         \o jump \o (IF a.read THEN << >> ELSE Bytes(a.value, a.bits \div 8))
         \o Encoded(l, k + 1, a.ofs + a.bits \div 8)

Number(bytes) == FoldLeft(LAMBDA n, b : 256 * n + b, 0, bytes)
From(bytes, k, w) == Number(SubSeq(bytes, k, k + w - 1))

(* module_access_pack: reads the request from its k-th byte.               *)
RECURSIVE Served(_, _, _, _)
Served(bytes, k, before, mem) ==
    IF k > Len(bytes) THEN << >>
    ELSE LET mask == bytes[k]
             width == IF mask % 2 = 1 THEN 4 ELSE 2
             jump == (mask \div 2) % 4
             skip == IF jump = 3 THEN 4 ELSE jump
             o == (IF jump = 3 THEN 0 ELSE before)
                    + (IF jump = 0 THEN 0 ELSE From(bytes, k + 1, skip))
             next == k + 1 + skip
         IN IF mask \div 8 = 1
            THEN <<Bytes(Reg(mem, o), width)>> \o Served(bytes, next, o + width, mem)
            ELSE Served(bytes, next + width, o + width,
                        (o :> From(bytes, next, width)) @@ mem)

AccessFields(m) ==
    IF m.type \notin DOMAIN Registers \/ ~m.map THEN Excuse(1)
    ELSE LET values == Served(Encoded(call.list, 1, 0), 1, 0, << >>)
         IN <<Bytes(Len(values) % AccessMod, 1)>> \o values

-----------------------------------------------------------------------------
(* The server, server_run.                                                 *)

HeldModules == Crates[call.crate + 1].modules
Found == Has(Crates, call.crate) /\ Has(HeldModules, call.module)
OfModule(w, fields) == IF ~Found THEN Excuse(w) ELSE fields
AnswerFields ==
    CASE call.what = "crates" -> CrateFields
      [] call.what = "info" -> InfoFields
      [] call.what = "config" -> ItemList(server.config)
      [] call.what = "regs" -> OfModule(2, RegisterFields(HeldModules[call.module + 1]))
      [] call.what = "goc" -> GocFields
      [] call.what = "access" -> OfModule(2, AccessFields(HeldModules[call.module + 1]))
NullDereference ==
    \/ call.what \notin {"crates", "config"} /\ Lost(Crates, call.crate)
    \/ /\ call.what \in {"regs", "access"} /\ Has(Crates, call.crate)
       /\ Lost(HeldModules, call.module)

Expect(what, w) == [what |-> what, w |-> w]
Opening ==
    CASE call.what = "crates" -> Expect("crates", 1)
      [] call.what = "info" -> Expect("events", 2)
      [] call.what = "config" -> [what |-> "items", w |-> 2, level |-> 0]
      [] call.what = "regs" -> Expect("registers", 2)
      [] call.what = "goc" -> Expect("id", 4)
      [] call.what = "access" -> Expect("reads", 1)

TooLong == call.what = "access" /\ Len(Encoded(call.list, 1, 0)) > RequestMax

Case(c, s) ==
    /\ server = c.server /\ call = c.call /\ size = s
    /\ answer = << >> /\ at = 0 /\ ofs = 0 /\ due = << >> /\ told = << >>
    /\ stage = "idle"
DataInit == \E c \in Cases, s \in Sizes : Case(c, s)

Serve ==
    /\ stage = "idle" /\ ~TooLong /\ ~NullDereference
    /\ answer' = Packed(AnswerFields)
    /\ stage' = IF Len(answer') > NodeMax THEN "failed" ELSE "reading"
    /\ due' = <<Opening>>
    /\ UNCHANGED <<server, size, call, at, ofs, told>>

NotServed ==
    /\ stage = "idle" /\ (TooLong \/ NullDereference)
    /\ stage' = IF TooLong THEN "failed" ELSE "down"
    /\ UNCHANGED <<server, size, call, answer, at, ofs, due, told>>

-----------------------------------------------------------------------------
(* The client.                                                             *)

(* packer_lookup                                                           *)
InDgramAtEnd == at # 0 /\ ofs <= Len(answer[at])
InDgram == at # 0 /\ ofs < Len(answer[at])
Dgram == IF InDgram THEN at ELSE at + 1
Ofs == IF InDgram THEN ofs ELSE 0
Ahead == SubSeq(answer[Dgram], Ofs + 1, Len(answer[Dgram]))

(* unpack8, unpack16, unpack32, unpack64; unpack_strdup for a width of 0   *)
WidthOf(field) ==
    IF field.w > 0 THEN field.w
    ELSE IF 0 \in ToSet(Ahead)
    THEN CHOOSE n \in 1..Len(Ahead) : Ahead[n] = 0 /\ \A k \in 1..(n - 1) : Ahead[k] # 0
    ELSE Len(Ahead) + 1
Readable(field) == Dgram <= Len(answer) /\ WidthOf(field) <= Len(Ahead)
Unpacked1(field) ==
    LET bytes == SubSeq(Ahead, 1, WidthOf(field)) IN
    IF field.w = 0 THEN Front(bytes)
    ELSE IF field.w <= 2 THEN Number(bytes) ELSE bytes

(* What follows after a field: the fields due next and what is stored.     *)
Go(fields, says) == [stage |-> "reading", due |-> fields, says |-> says]
Stopped(s) == [stage |-> s, due |-> << >>, says |-> << >>]
Times(n, x) == [k \in 1..n |-> x]

Got == Unpacked1(Head(due))
Field(names, next) ==
    /\ stage = "reading" /\ due # << >> /\ Head(due).what \in names
    /\ IF ~Readable(Head(due))
       THEN stage' = "failed" /\ UNCHANGED <<at, ofs, due, told>>
       ELSE /\ at' = Dgram /\ ofs' = Ofs + WidthOf(Head(due))
            /\ due' = next.due \o Tail(due)
            /\ told' = told \o next.says
            /\ stage' = IF next.stage = "reading" /\ due' = << >> THEN "done" ELSE next.stage
    /\ UNCHANGED <<server, size, call, answer>>

(* ctrl_client_crate_array_get                                             *)
AfterCrates(f, v) ==
    Go(CASE f.what = "crates" -> Times(v, Expect("crate", 0))
         [] f.what = "crate" -> <<Expect("modules", 1)>>
         [] f.what = "modules" -> FlattenSeq(Times(v, <<Expect("module", 2), Expect("subs", 1)>>))
         [] f.what = "subs" -> Times(v, Expect("sub", 2))
         [] OTHER -> << >>,
       <<<<f.what, v>>>>)
UnpackCrates == Field({"crates", "crate", "modules", "module", "subs", "sub"}, AfterCrates(Head(due), Got))

(* ctrl_client_crate_info_get; the first number is not stored.             *)
AfterInfo(f, v) ==
    IF f.what = "events"
    THEN IF v = 65535 THEN Stopped("refused")
         ELSE Go(<<Expect("release", 1), Expect("acvt", 2), Expect("bytes", 4),
                   Expect("max", 4)>>, << >>)
    ELSE Go(<< >>, <<<<f.what, v>>>>)
UnpackInfo == Field({"events", "release", "acvt", "bytes", "max"}, AfterInfo(Head(due), Got))

(* unpack_config_list                                                      *)
AfterItem(f, v) ==
    CASE f.what = "items" -> Go(Times(v, [f EXCEPT !.what = "item", !.w = 1]), << >>)
      [] f.what = "item" ->
            Go(<<[what |-> "name", w |-> 2, level |-> f.level,
                  kind |-> IF v % 2 = 0 THEN "block" ELSE "config",
                  touched |-> (v \div 2) % 2 = 1]>>, << >>)
      [] f.what = "name" ->
            Go(<<Expect("scalars", 2)>>
                 \o (IF HasList(f.kind, v)
                     THEN <<[what |-> "items", w |-> 2, level |-> f.level + 1]>> ELSE << >>),
               <<<<"item", f.level, f.kind, f.touched, v>>>>)
UnpackConfigList == Field({"items", "item", "name"}, AfterItem(Head(due), Got))

(* unpack_scalar_list                                                      *)
RunOf(left) == IF left = 0 THEN << >> ELSE <<[what |-> "run", w |-> 1, left |-> left]>>
OneOf(n) == [what |-> "scalar", w |-> 1, clones |-> n]
AfterRun(f, v) ==
    IF f.what = "scalars" THEN Go(RunOf(v), << >>)
    ELSE LET count == IF v >= 128 THEN v - 128 + 2 ELSE v + 1 IN
         IF count > f.left THEN Stopped("failed")
         ELSE Go((IF v >= 128 THEN <<OneOf(count)>> ELSE Times(count, OneOf(1)))
                   \o RunOf(f.left - count), << >>)
UnpackScalarList == Field({"scalars", "run"}, AfterRun(Head(due), Got))

(* unpack_scalar, and the clones of it                                     *)
Widths(type) ==
    CASE type = Code["double"] -> <<8, 1>> [] type = Code["int"] -> <<4, 1>>
      [] type = Code["key"] -> <<2>> [] type = Code["range"] -> <<1, 1>>
      [] type = Code["string"] -> <<0>> [] OTHER -> << >>
Stored(f, parts) ==
    [j \in 1..f.clones |-> <<"scalar", f.type, f.index + j - 1, parts>>]
AfterScalar(f, v) ==
    CASE f.what = "scalar" ->
            Go(<<[what |-> "index", w |-> 2, clones |-> f.clones, type |-> v]>>, << >>)
      [] OTHER ->
            LET parts == IF f.what = "index" THEN << >> ELSE Append(f.parts, v)
                value == [what |-> "value", w |-> 0, clones |-> f.clones, type |-> f.type,
                          index |-> IF f.what = "index" THEN v ELSE f.index, parts |-> parts]
                all == Widths(f.type)
            IN IF Len(parts) = Len(all) THEN Go(<< >>, Stored(value, parts))
               ELSE Go(<<[value EXCEPT !.w = all[Len(parts) + 1]]>>, << >>)
UnpackScalar == Field({"scalar", "index", "value"}, AfterScalar(Head(due), Got))

(* ctrl_client_register_array_unpack; a tail of the driver is not read.    *)
AfterRegisters(f, v) ==
    IF f.what = "register" THEN Go(<< >>, <<<<"register", v>>>>)
    ELSE IF v = 65535 THEN Stopped("refused")
    ELSE Go(FlattenSeq([k \in 1..Len(Registers[v]) |->
              Times(Registers[v][k].num, Expect("register", Registers[v][k].bits \div 8))]),
            <<<<"registers", v>>>>)
UnpackRegisters == Field({"registers", "register"}, AfterRegisters(Head(due), Got))

(* ctrl_client_goc_read                                                    *)
AfterGoc(f, v) ==
    IF f.what = "word" THEN Go(<< >>, <<<<"word", v>>>>)
    ELSE IF v # Bytes(call.id, 4) THEN Stopped("failed")
    ELSE Go(Times(call.num, Expect("word", 4)), << >>)
UnpackGoc == Field({"id", "word"}, AfterGoc(Head(due), Got))

(* unpack_module_access: the index of the loop has eight bits.             *)
NextRead(i) ==
    LET n == Len(call.list)
        ahead == {k \in 0..(n - 1) : call.list[k + 1].read /\ (n >= AccessMod \/ k >= i)}
        far(k) == (k - i) % AccessMod
    IN IF ahead = {} THEN << >>
       ELSE LET k == CHOOSE k \in ahead : \A l \in ahead : far(k) <= far(l) IN
            <<[what |-> "read", w |-> call.list[k + 1].bits \div 8, index |-> k]>>
AfterAccess(f, v) ==
    IF f.what = "reads"
    THEN IF v = 255 THEN Stopped("refused") ELSE Go(NextRead(0), << >>)
    ELSE Go(NextRead((f.index + 1) % AccessMod), <<<<"read", f.index, v>>>>)
UnpackAccess == Field({"reads", "read"}, AfterAccess(Head(due), Got))

DataNext ==
    \/ Serve \/ NotServed \/ UnpackCrates \/ UnpackInfo \/ UnpackConfigList
    \/ UnpackScalarList \/ UnpackScalar \/ UnpackRegisters \/ UnpackGoc \/ UnpackAccess

DataSpec == DataInit /\ [][DataNext]_dataVars
-----------------------------------------------------------------------------
(* What the client should have stored, from the state of the server.       *)

RECURSIVE ItemsTold(_, _)
ItemsTold(items, level) ==
    FlattenSeq([k \in 1..Len(items) |->
      LET i == items[k] IN
      <<<<"item", level, i.kind, i.touched, i.name>>>>
      \o [j \in 1..Len(i.scal) |-> LET s == i.scal[j] IN
            <<"scalar", Code[s.t], s.i,
              CASE s.t = "double" -> <<Bytes(s.v[1], 8), s.v[2]>>
                [] s.t = "int" -> <<Bytes(s.v[1], 4), s.v[2]>>
                [] s.t = "string" -> <<s.v>>
                [] OTHER -> s.v>>]
      \o (IF HasList(i.kind, i.name) THEN ItemsTold(i.sub, level + 1) ELSE << >>)])

CratesTold ==
    <<<<"crates", Len(Crates)>>>>
    \o FlattenSeq([i \in 1..Len(Crates) |->
         LET ms == Crates[i].modules IN
         <<<<"crate", Crates[i].name>>, <<"modules", Len(ms)>>>>
         \o FlattenSeq([j \in 1..Len(ms) |->
              <<<<"module", ms[j].type>>, <<"subs", Len(ms[j].subs)>>>>
              \o [k \in 1..Len(ms[j].subs) |-> <<"sub", ms[j].subs[k]>>]])])

InfoTold ==
    LET i == Crates[call.crate + 1].info IN
    <<<<"release", i.release>>, <<"acvt", i.acvt>>, <<"bytes", Bytes(i.bytes, 4)>>,
      <<"max", Bytes(i.max, 4)>>>>

RegistersTold ==
    LET m == HeldModules[call.module + 1] IN
    <<<<"registers", m.type>>>>
    \o FlattenSeq([k \in 1..Len(Registers[m.type]) |->
         LET r == Registers[m.type][k]
             held(j) == Hardware(r.ofs + (j - 1) * r.step) IN
         [j \in 1..r.num |->
            <<"register", IF r.bits = 16 THEN held(j) ELSE Bytes(held(j), 4)>>]])

(* A read sees the last write to its register before it in the list.       *)
Seen(k) ==
    LET o == call.list[k].ofs
        w == {j \in 1..(k - 1) : ~call.list[j].read /\ call.list[j].ofs = o}
    IN IF w = {} THEN Hardware(o)
       ELSE call.list[CHOOSE j \in w : \A l \in w : l <= j].value
AccessTold ==
    FlattenSeq([k \in 1..Len(call.list) |->
      LET a == call.list[k] IN
      IF ~a.read THEN << >>
      ELSE <<<<"read", k - 1, IF a.bits = 16 THEN Seen(k) ELSE Bytes(Seen(k), 4)>>>>])

GocTold ==
    [k \in 1..call.num |->
      <<"word", IF Has(Crates, call.crate) /\ Crates[call.crate + 1].pex
                THEN Bytes(Hardware(call.ofs + 4 * (k - 1)), 4) ELSE Bytes(0, 4)>>]

Truth ==
    CASE call.what = "crates" -> CratesTold [] call.what = "info" -> InfoTold
      [] call.what = "config" -> ItemsTold(server.config, 0)
      [] call.what = "regs" -> RegistersTold [] call.what = "goc" -> GocTold
      [] call.what = "access" -> AccessTold

(* A raw run that reaches its limit is packed without its last scalar.     *)
RECURSIVE Curtailed(_)
Curtailed(items) ==
    \E k \in 1..Len(items) :
      \/ \E r \in ToSet(Runs(items[k].scal, 1)) : r.tok = "raw" /\ r.n = RawMax
      \/ HasList(items[k].kind, items[k].name) /\ Curtailed(items[k].sub)
Curtails == call.what = "config" /\ Curtailed(server.config)

(* Wherever an answer happens to be cut into datagrams, a client that takes *)
(* it for good has stored what the server has: the configuration with all  *)
(* clones and levels, the crates, every register, and for an access list   *)
(* what the reads saw after the writes before them (packer_lookup before   *)
(* every field, the same fields on both sides).                            *)
AnswerIsTrue == stage = "done" /\ ~Curtails => told = Truth

Named == call.what \in {"info", "regs", "access"} => Has(Crates, call.crate)
Target == HeldModules[call.module + 1]
Listed ==
    call.what \in {"regs", "access"} =>
      /\ Has(HeldModules, call.module)
      /\ Target.type \in DOMAIN Registers /\ Target.map
Reads == Cardinality({k \in 1..Len(call.list) : call.list[k].read})
Bulk == FoldLeft(LAMBDA n, f : n + Len(f), 0, AnswerFields)

(* An answer that is there is not lost to the client: a call fails only    *)
(* for a crate or module that cannot be looked into, for 255 reads or more *)
(* in a list, for a request that is too large, or for an answer that does  *)
(* not fit into the datagrams of a sequence even if each is used to all    *)
(* but the largest field.                                                  *)
FailsForCause ==
    stage \in {"refused", "failed"} =>
      \/ ~Named \/ ~Listed \/ TooLong \/ Curtails
      \/ call.what = "access" /\ Reads >= 255
      \/ Bulk > NodeMax * (size - 8)
=============================================================================
