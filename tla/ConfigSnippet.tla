---------------------------- MODULE ConfigSnippet ----------------------------
(***************************************************************************)
(* Configuration written at run time. A client packs a list of items       *)
(* (pack_item_list, with runs of equal and of different scalars) and sends *)
(* it in a datagram; the server merges it into the tree it was started     *)
(* with (config_merge): once without writing, to see that all of it fits,  *)
(* and once for real. Packing and reading go item by item and scalar by    *)
(* scalar, so that every early return is there.                            *)
(*                                                                         *)
(* The tree never changes its shape: an item is a path, the block it is in *)
(* and its name, and holds a list of scalars (the values of a config, the  *)
(* parameters of a block).                                                 *)
(***************************************************************************)
EXTENDS ConfigPack

CONSTANTS
    Items,     \* paths <<block, name>> of the tree, "top" the outermost block
    Blocks,    \* names that are blocks
    Start,     \* the tree as loaded
    Snippets,  \* what users send: lists of [kind, name, scal, sub]
    Room,      \* tokens that fit into a datagram
    MaxMerge,  \* bound: merges
    MaxCut     \* bound: tokens missing of a datagram

Empty == [t |-> "empty", v |-> 0, i |-> 0]
None == [kind |-> "none", name |-> "none", num |-> 0]

(* What a user writes: configs at the outermost level and in blocks there, *)
(* each with an empty scalar or with one scalar at every index it names    *)
(* (scalar_get finds the one that is there).                               *)
AList(l) == l \in Seq(ToSet(l))
Given(l) ==
    \/ l = <<Empty>>
    \/ /\ AList(l) /\ l # << >>
       /\ \A k \in 1..Len(l) :
            /\ l[k] = [t |-> l[k].t, v |-> l[k].v, i |-> l[k].i]
            /\ l[k].t # "empty" /\ l[k].i \in Nat
            /\ \A o \in 1..Len(l) : l[o].i = l[k].i => o = k
IsConfig(x) == x.kind = "config" /\ x.name # "top" /\ Given(x.scal)
IsBlock(x) ==
    /\ x.kind = "block" /\ x.name # "top" /\ AList(x.scal) /\ AList(x.sub)
    /\ \A k \in 1..Len(x.sub) : IsConfig(x.sub[k])

SnippetAssumption ==
    /\ Room \in Nat /\ MaxMerge \in Nat /\ MaxCut \in Nat
    /\ DOMAIN Start = Items /\ \A p \in Items : AList(Start[p])
    /\ \A s \in Snippets :
         AList(s) /\ \A k \in 1..Len(s) : IsConfig(s[k]) \/ IsBlock(s[k])

ASSUME SnippetAssumption

VARIABLES
    tree,    \* scalars of every item
    before,  \* the tree at the start of the merge
    sent,    \* the list the user gave
    pack,    \* what is left to pack: of the lists, and of an item
    msg,     \* the packed tokens, those that arrived once sent
    pos,     \* tokens read
    pass,    \* 0: dry run, 1: writing
    stack,   \* blocks being read: where, items left, names seen, list before
    item,    \* item being read
    got,     \* scalars that are accounted for, scalar_i
    raw,     \* scalars left of a raw run
    list,    \* scalars unpacked, scalar_list
    ref,     \* position in the item's scalars of the one to compare with
    phase,   \* what the reader expects
    merges

treeVars == <<tree, before, sent, pack, msg, merges>>
readVars == <<pos, pass, stack, item, got, raw, list, ref, phase>>
snipVars == <<treeVars, readVars>>

------------------------------------------------------------------------------
(* Packing. *)

(* pack_item_list and pack_scalar_list, a token after the other. The lists *)
(* begun are in pack.rest, with what is left of them, the innermost last.  *)
Outermost(items) == [kind |-> "block", name |-> "top", scal |-> << >>, sub |-> items]
Emit(tokens) == msg' = msg \o tokens

(* Nothing is left of an earlier merge: unpack_snippet keeps no state.     *)
Afresh ==
    /\ before' = tree
    /\ pos' = 0 /\ pass' = 0 /\ stack' = << >> /\ item' = None /\ got' = 0
    /\ raw' = 0 /\ list' = << >> /\ ref' = 1

Pick ==
    /\ phase \in {"idle", "merged", "refused"} /\ merges < MaxMerge
    /\ \E s \in Snippets :
         /\ sent' = s
         /\ pack' = [rest |-> << >>, item |-> Outermost(s), scal |-> << >>, run |-> 0]
    /\ merges' = merges + 1 /\ msg' = << >> /\ phase' = "packNum"
    /\ Afresh /\ UNCHANGED tree

PackNum ==
    /\ phase = "packNum" /\ phase' = "packItem"
    /\ Emit(<<[tok |-> "num", n |-> Len(pack.item.sub)]>>)
    /\ pack' = [pack EXCEPT !.rest = Append(@, pack.item.sub)]

PackItem ==
    /\ phase = "packItem" /\ Last(pack.rest) # << >> /\ phase' = "packRun"
    /\ LET i == Head(Last(pack.rest)) IN
       /\ Emit(<<[tok |-> "item", kind |-> i.kind, name |-> i.name,
                    num |-> Len(i.scal)]>>)
       /\ pack' = [pack EXCEPT !.item = i, !.scal = i.scal,
                               !.rest[Len(pack.rest)] = Tail(@)]

PackDup ==
    /\ phase = "packRun" /\ pack.scal # << >> /\ phase' = phase
    /\ LET n == Clones(pack.scal, 1) IN
       /\ n > 1
       /\ Emit(<<[tok |-> "dup", n |-> n], [tok |-> "scalar", s |-> pack.scal[1]]>>)
       /\ pack' = [pack EXCEPT !.scal = SubSeq(@, n + 1, Len(@))]

LeftOut(l, n) == SubSeq(l, 1, Carried(n)) \o SubSeq(l, n + 1, Len(l))
PackRaw ==
    /\ phase = "packRun" /\ pack.scal # << >> /\ phase' = "packRaw"
    /\ Clones(pack.scal, 1) = 1
    /\ LET n == Announces(pack.scal, 1) IN
       /\ Emit(<<[tok |-> "raw", n |-> n]>>)
       /\ pack' = [pack EXCEPT !.run = Carried(n), !.scal = LeftOut(@, n)]

PackScalar ==
    /\ phase = "packRaw" /\ phase' = IF pack.run = 1 THEN "packRun" ELSE phase
    /\ Emit(<<[tok |-> "scalar", s |-> pack.scal[1]]>>)
    /\ pack' = [pack EXCEPT !.run = @ - 1, !.scal = Tail(@)]

(* An item is done, and a list that is not the outermost.                  *)
PackEnd ==
    /\ \/ /\ phase = "packRun" /\ pack.scal = << >>
          /\ phase' = IF pack.item.kind = "block" THEN "packNum" ELSE "packItem"
          /\ pack' = pack
       \/ /\ phase = "packItem" /\ Last(pack.rest) = << >> /\ Len(pack.rest) > 1
          /\ phase' = phase
          /\ pack' = [pack EXCEPT !.rest = Front(@)]
    /\ Emit(<< >>)

Packing ==
    /\ PackNum \/ PackItem \/ PackDup \/ PackRaw \/ PackScalar \/ PackEnd
    /\ UNCHANGED <<tree, before, sent, merges, pos, pass, stack, item, got, raw,
                   list, ref>>

(* ctrl_client_config sends what fits into one datagram and nothing else.  *)
(* The end of it may be missing when it gets to config_merge, which starts *)
(* the dry run (tests/config.c: "Corrupt packer data is also not ok!").    *)
AllPacked == phase = "packItem" /\ pack.rest = <<<< >>>>

TooBig ==
    /\ AllPacked /\ Len(msg) > Room
    /\ phase' = "idle"
    /\ UNCHANGED <<treeVars, pos, pass, stack, item, got, raw, list, ref>>

Send ==
    /\ AllPacked /\ Len(msg) <= Room
    /\ \E n \in 1..Len(msg) : Len(msg) <= n + MaxCut /\ msg' = SubSeq(msg, 1, n)
    /\ Afresh /\ phase' = "num"
    /\ UNCHANGED <<tree, sent, pack, merges>>

------------------------------------------------------------------------------
(* Reading. *)

SnipInit ==
    /\ tree = Start /\ before = Start /\ sent = << >> /\ msg = << >>
    /\ pack = [rest |-> << >>, item |-> Outermost(sent), scal |-> << >>, run |-> 0]
    /\ merges = 0
    /\ pos = 0 /\ pass = 0 /\ stack = << >> /\ item = None /\ got = 0
    /\ raw = 0 /\ list = << >> /\ ref = 1 /\ phase = "idle"

More(kind) == pos < Len(msg) /\ msg[pos + 1].tok = kind
Tok == msg[pos + 1]
Here == stack[Len(stack)]
Top == IF stack = << >> THEN "top" ELSE item.name

(* The dry run refuses; a failure while writing is not supposed to happen  *)
(* and ends the program.                                                   *)
Fails ==
    /\ phase' = IF pass = 0 THEN "refused" ELSE "died"
    /\ UNCHANGED <<treeVars, pos, pass, stack, item, got, raw, list, ref>>

ReadNum ==
    /\ phase = "num"
    /\ \/ /\ ~More("num")
          /\ Fails
       \/ /\ More("num")
          /\ stack' = Append(stack, [at |-> Top, left |-> Tok.n, seen |-> {}, saved |-> list])
          /\ pos' = pos + 1 /\ phase' = "item"
          /\ item' = None /\ list' = << >>
          /\ UNCHANGED <<treeVars, pass, got, raw, ref>>

Path(name) == <<Here.at, name>>

AnyName(name) == TRUE
NameOk(name) == name \notin Here.seen

(* A config must exist; a block of that name will do. *)
Known(tok) == tok.kind = "config" => Path(tok.name) \in Items

ReadItem ==
    /\ phase = "item" /\ Here.left > 0
    /\ \/ /\ ~More("item")
          /\ Fails
       \/ /\ More("item")
          /\ ~(NameOk(Tok.name) /\ Known(Tok))
          /\ Fails
       \/ /\ More("item") /\ NameOk(Tok.name) /\ Known(Tok)
          /\ stack' = [stack EXCEPT ![Len(stack)].left = @ - 1,
                                    ![Len(stack)].seen = @ \cup {Tok.name}]
          /\ item' = [kind |-> Tok.kind, name |-> Tok.name, num |-> Tok.num]
          /\ pos' = pos + 1 /\ got' = 0 /\ ref' = 1 /\ phase' = "run"
          /\ UNCHANGED <<treeVars, pass, raw, list>>

(* Only a config has scalars to compare with. *)
Old == IF item.kind = "config" THEN tree[Path(item.name)] ELSE << >>

TypeFits(s, k) == k <= Len(Old) => Old[k].t = s.t

(* Clones of one scalar: the first is taken as it is, every other one is   *)
(* compared with a scalar of the item while there are any.                 *)
ReadDup ==
    /\ phase = "run" /\ got < item.num
    /\ \/ /\ ~More("dup") /\ ~More("raw")
          /\ Fails
       \/ /\ More("dup")
          /\ \/ /\ \/ got + Tok.n > item.num
                   \/ pos + 2 > Len(msg)
                   \/ /\ pos + 2 <= Len(msg)
                      /\ \E j \in 1..(Tok.n - 1) : ~TypeFits(msg[pos + 2].s, ref + j - 1)
                /\ Fails
             \/ /\ got + Tok.n <= item.num /\ pos + 2 <= Len(msg)
                /\ LET s == msg[pos + 2].s IN
                   /\ \A j \in 1..(Tok.n - 1) : TypeFits(s, ref + j - 1)
                   /\ list' = list \o [j \in 1..Tok.n |-> [s EXCEPT !.i = s.i + j - 1]]
                /\ got' = got + Tok.n
                /\ ref' = ref + Tok.n - 1
                /\ pos' = pos + 2
                /\ UNCHANGED <<treeVars, pass, stack, item, raw, phase>>

ReadRaw ==
    /\ phase = "run" /\ got < item.num /\ More("raw")
    /\ \/ /\ got + Tok.n > item.num
          /\ Fails
       \/ /\ got + Tok.n <= item.num
          /\ got' = got + Tok.n /\ raw' = Tok.n
          /\ pos' = pos + 1 /\ phase' = "raw"
          /\ UNCHANGED <<treeVars, pass, stack, item, list, ref>>

(* unpack_snippet_scalar: an empty scalar is read and dropped. *)
Unpacked(s) == IF s.t = "empty" THEN list ELSE Append(list, s)

(* One scalar of a raw run. After an empty one the scalar before it is     *)
(* looked at once more; beyond the last scalar of the item, or for a       *)
(* block, a null pointer is followed.                                      *)
ReadScalar ==
    /\ phase = "raw"
    /\ \/ /\ ~More("scalar")
          /\ Fails
       \/ /\ More("scalar")
          /\ LET all == Unpacked(Tok.s)
                 src == all[Len(all)] IN
             \/ /\ all # << >> /\ ref > Len(Old)
                /\ phase' = "crashed"
                /\ UNCHANGED <<treeVars, pos, pass, stack, item, got, raw, list, ref>>
             \/ /\ all # << >> /\ ref <= Len(Old) /\ ~TypeFits(src, ref)
                /\ Fails
             \/ /\ all # << >> => ref <= Len(Old) /\ TypeFits(src, ref)
                /\ list' = all
                /\ ref' = IF all = << >> THEN ref ELSE ref + 1
                /\ raw' = raw - 1 /\ pos' = pos + 1
                /\ phase' = IF raw = 1 THEN "run" ELSE "raw"
                /\ UNCHANGED <<treeVars, pass, stack, item, got>>

(* block_find_matching: name and parameters, an empty scalar equals none. *)
Matches ==
    /\ Path(item.name) \in Items /\ item.name \in Blocks
    /\ Len(list) = Len(tree[Path(item.name)])
    /\ \A j \in 1..Len(list) :
          Same(list[j], tree[Path(item.name)][j]) /\ list[j].t # "empty"

EnterBlock ==
    /\ phase = "run" /\ got = item.num /\ item.kind = "block"
    /\ \/ /\ ~Matches
          /\ Fails
       \/ /\ Matches
          /\ phase' = "num"
          /\ UNCHANGED <<treeVars, pos, pass, stack, item, got, raw, list, ref>>

AtFront(old, new) ==
    [j \in 1..Len(old) |-> IF j <= Len(new) THEN new[j] ELSE old[j]]
(* The scalars of the item with those of the list in the place of the ones *)
(* of the same index.                                                      *)
Replaced(old, new) ==
    [j \in 1..Len(old) |->
       LET hits == {k \in 1..Len(new) : new[k].i = old[j].i} IN
       IF hits = {} THEN old[j] ELSE new[CHOOSE k \in hits : \A o \in hits : o <= k]]

AllPlaced(old, new) ==
    \A k \in 1..Len(new) : \E j \in 1..Len(old) : old[j].i = new[k].i

WriteNow(old) == TRUE
Writing(old) == pass = 1

Written(old) == IF list = << >> THEN <<Empty>> ELSE Replaced(old, list)

(* What an index that is not there has been preceded by is replaced, *)
(* then the program ends.                                             *)
EndConfig ==
    /\ phase = "run" /\ got = item.num /\ item.kind = "config"
    /\ \/ /\ Writing(Old) /\ ~AllPlaced(Old, list)
          /\ Fails
       \/ /\ Writing(Old) => AllPlaced(Old, list)
          /\ tree' = IF Writing(Old)
                     THEN [tree EXCEPT ![Path(item.name)] = Written(Old)] ELSE tree
          /\ list' = << >>
          /\ phase' = "item"
          /\ UNCHANGED <<before, sent, pack, msg, merges, pos, pass, stack, item, got,
                         raw, ref>>

(* All items of a block are done: back to the block around it, whose list  *)
(* still holds the parameters of the block just read, or to the second     *)
(* pass, or the end. Nothing may follow.                                   *)
EndBlock ==
    /\ phase = "item" /\ Here.left = 0
    /\ \/ /\ Len(stack) > 1
          /\ stack' = SubSeq(stack, 1, Len(stack) - 1)
          /\ list' = Here.saved
          /\ UNCHANGED <<treeVars, pos, pass, item, got, raw, ref, phase>>
       \/ /\ Len(stack) = 1 /\ pos # Len(msg)
          /\ Fails
       \/ /\ Len(stack) = 1 /\ pos = Len(msg)
          /\ stack' = << >> /\ item' = None
          /\ pos' = IF pass = 0 THEN 0 ELSE pos
          /\ pass' = 1 /\ list' = << >>
          /\ phase' = IF pass = 0 THEN "num" ELSE "merged"
          /\ UNCHANGED <<treeVars, got, raw, ref>>

SnipNext ==
    \/ Pick \/ Packing \/ TooBig \/ Send \/ ReadNum \/ ReadItem \/ ReadDup \/ ReadRaw
    \/ ReadScalar \/ EnterBlock \/ EndConfig \/ EndBlock

SnipSpec == SnipInit /\ [][SnipNext]_snipVars
------------------------------------------------------------------------------
(* What the user asked for: the scalars given for the path p.              *)
AskedFor(p) ==
    {i.scal : i \in {x \in ToSet(sent) : x.kind = "config" /\ p = <<"top", x.name>>}}
    \cup UNION {{i.scal : i \in {x \in ToSet(b.sub) : p = <<b.name, x.name>>}} :
                 b \in {x \in ToSet(sent) : x.kind = "block"}}

(* A list of items that is refused, for whatever item and at whatever      *)
(* depth, leaves the tree as it was (config_merge: the first pass of       *)
(* unpack_snippet must not write).                                         *)
RefusedLeavesNoTrace == phase = "refused" => tree = before

Parameters == \E k \in 1..Len(sent) : sent[k].kind = "block" /\ sent[k].scal # << >>

(* After a merge every item has the scalars the user gave at their indices *)
(* and its own at the others; items not named are untouched. This goes     *)
(* through the packing in runs, the datagram and both passes. Parameters   *)
(* of a block are set aside: what is left of them in scalar_list goes to   *)
(* the next config.                                                        *)
MergeIsExact ==
    phase = "merged" /\ ~Parameters =>
      \A p \in Items :
        /\ AskedFor(p) = {} => tree[p] = before[p]
        /\ \A new \in AskedFor(p) :
             IF new = <<Empty>> THEN tree[p] = <<Empty>>
             ELSE /\ Len(tree[p]) = Len(before[p])
                  /\ \A j \in 1..Len(tree[p]) :
                       LET hit == {k \in 1..Len(new) : new[k].i = before[p][j].i} IN
                       /\ hit = {} => tree[p][j] = before[p][j]
                       /\ \A k \in hit : tree[p][j] = new[k]

(* The program goes down in a merge only when the user gave more scalars   *)
(* than an item has, an index it does not have, or a block parameter; a    *)
(* list the tree has room for never does it, whatever is refused.          *)
DownForCause ==
    phase \in {"died", "crashed"} =>
      \/ \E p \in Items : \E l \in AskedFor(p) :
            \/ Len(l) > Len(before[p])
            \/ \E k \in 1..Len(l) : \A j \in 1..Len(before[p]) :
                  before[p][j].i # l[k].i
      \/ Parameters

(* tests/config.c: "Merging should be atomic, a bad merge should leave no  *)
(* traces." A list that does not fit is refused and the program goes on.   *)
MergeIsAtomic == phase \notin {"died", "crashed"}

(* config.c, pack_scalar_list: "Limit: 0x00 -> scalar, 0x7f -> 128         *)
(* scalars." As many scalars are in a raw run as it announces.             *)
RawRunComplete == AllPacked =>
    \A k \in 1..Len(msg) : msg[k].tok = "raw" =>
      /\ k + msg[k].n <= Len(msg)
      /\ \A j \in (k + 1)..(k + msg[k].n) : msg[j].tok = "scalar"
=============================================================================
