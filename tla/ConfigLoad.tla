----------------------------- MODULE ConfigLoad -----------------------------
(***************************************************************************)
(* Loading configuration files. Files are lists of statements; a file is   *)
(* looked for among the defaults and then among the user's, files include  *)
(* others, and opening a block of some name includes the files registered  *)
(* for it. Blocks and configs of later files are put on top of those of    *)
(* earlier ones, while the same thing twice in one file is taken for a     *)
(* copy-paste error. Text and characters are left out: a statement is what *)
(* parse_block recognizes.                                                 *)
(***************************************************************************)
EXTENDS Integers, Sequences, SequencesExt, FiniteSets

CONSTANTS
    Programs,  \* choices of the files: functions from <<where, name>> to statements
    Main,      \* the file to load
    Auto,      \* files registered for a block name, in order
    BlockDepth \* BLOCK_BUILDER_DEPTH

VARIABLES
    files,   \* existing files, <<"default" or "user", name>> to statements
    todo,    \* files being read, the innermost first: [file, next, depth]
    items,   \* all items: [in, kind, name, scal, src]; "in" 0 is the root
    open,    \* g_block_builder: items of the blocks that are open
    state,   \* "loading", "loaded", "dead"
    want,    \* what the statements say, without the items
    doing    \* the names and parameters of the open blocks

loadVars == <<files, todo, items, open, state, want, doing>>

Scalar(i, v) == [i |-> i, v |-> v]
NoValue == "empty"

------------------------------------------------------------------------------
(* scalar_get and an assignment to what it returns: scalars are kept by    *)
(* index.                                                                  *)
Appended(l, i, v) == Append(l, Scalar(i, v))
SetScalar(l, i, v) ==
    LET lower == {k \in 1..Len(l) : l[k].i < i}
        at == Cardinality(lower) IN
    IF at < Len(l) /\ l[at + 1].i = i
    THEN [l EXCEPT ![at + 1].v = v]
    ELSE SubSeq(l, 1, at) \o <<Scalar(i, v)>> \o SubSeq(l, at + 1, Len(l))

(* parse_vector: an empty one clears, and a value may be given a count.    *)
(* What the list had beyond the vector stays.                              *)
RECURSIVE SetVector(_, _, _)
SetVector(l, i, vals) ==
    IF vals = << >> THEN l
    ELSE LET one == FoldLeft(LAMBDA acc, k : SetScalar(acc, k, vals[1].v), l,
                             [k \in 1..vals[1].n |-> i + k - 1])
         IN  SetVector(one, i + vals[1].n, Tail(vals))

(* parse_value with parser_create_bitmask, which leaves one empty scalar   *)
(* in an empty list.                                                       *)
Value(l, s) ==
    IF s.vals = << >> THEN <<Scalar(0, NoValue)>>
    ELSE SetVector(l, IF s.idx < 0 THEN 0 ELSE s.idx, s.vals)

Children(b) == {k \in 1..Len(items) : items[k].in = b}
Inside == IF open = << >> THEN 0 ELSE open[Len(open)]
Lowest(S) == CHOOSE k \in S : \A o \in S : k <= o

------------------------------------------------------------------------------
(* Both places are tried, the defaults first. *)
Include(f) ==
    [w \in 1..Cardinality({x \in {"default", "user"} : <<x, f>> \in DOMAIN files}) |->
       [file |-> IF w = 1 /\ <<"default", f>> \in DOMAIN files
                 THEN <<"default", f>> ELSE <<"user", f>>,
        next |-> 1, depth |-> 0]]

LoadInit ==
    /\ files \in Programs
    /\ todo = Include(Main)
    /\ items = << >> /\ open = << >> /\ doing = << >>
    /\ state = IF todo = << >> THEN "dead" ELSE "loading"
    /\ want = << >>

Cur == todo[1]
Left == Cur.next <= Len(files[Cur.file])
Stmt == files[Cur.file][Cur.next]
Reading(k) == state = "loading" /\ Left /\ Stmt.k = k
Next1 == [todo EXCEPT ![1].next = @ + 1]

Die ==
    /\ state' = "dead"
    /\ UNCHANGED <<files, todo, items, open, want, doing>>

(* The end of a file: of the innermost one. *)
EndFile ==
    /\ state = "loading" /\ ~Left
    /\ \/ /\ Cur.depth > 0
          /\ Die
       \/ /\ Cur.depth = 0
          /\ todo' = Tail(todo)
          /\ state' = IF Len(todo) = 1 THEN "loaded" ELSE "loading"
          /\ UNCHANGED <<files, items, open, want, doing>>

IncludeFile ==
    /\ Reading("include")
    /\ \/ /\ Include(Stmt.name) = << >>
          /\ Die
       \/ /\ Include(Stmt.name) # << >>
          /\ todo' = Include(Stmt.name) \o Next1
          /\ UNCHANGED <<files, items, open, state, want, doing>>

(* A barrier or id_skip: never matched. *)
SimpleBlock ==
    /\ Reading("barrier")
    /\ items' = Append(items, [in |-> Inside, kind |-> "barrier", name |-> Stmt.name,
                               scal |-> << >>, src |-> Cur.file])
    /\ todo' = Next1
    /\ UNCHANGED <<files, open, state, want, doing>>

AnyBlock(name, params) ==
    {k \in Children(Inside) : items[k].kind = "block" /\ items[k].name = name}
(* block_find_matching: the first of that name and those parameters. *)
Matching(name, params) ==
    {k \in Children(Inside) :
       /\ items[k].kind = "block" /\ items[k].name = name
       /\ items[k].scal = params}

OtherBlock(k) == items[k].kind = "barrier"
NotTwice(k) == items[k].src # Cur.file     \* assert_src_path

AutoFiles(name) == FlattenSeq([k \in 1..Len(Auto[name]) |-> Include(Auto[name][k])])

(* parser_prepare_block and parser_push_block. *)
OpenBlock ==
    /\ Reading("open")
    /\ LET hit == Matching(Stmt.name, Stmt.params)
           it == IF hit = {} THEN Len(items) + 1 ELSE Lowest(hit) IN
       \/ /\ \/ hit # {} /\ ~NotTwice(it)
             \/ Len(open) = BlockDepth
             \/ \E k \in 1..Len(Auto[Stmt.name]) : Include(Auto[Stmt.name][k]) = << >>
          /\ Die
       \/ /\ hit # {} => NotTwice(it)
          /\ Len(open) < BlockDepth
          /\ \A k \in 1..Len(Auto[Stmt.name]) : Include(Auto[Stmt.name][k]) # << >>
          /\ items' = IF hit # {} THEN items
                      ELSE Append(items, [in |-> Inside, kind |-> "block",
                             name |-> Stmt.name, scal |-> Stmt.params, src |-> Cur.file])
          /\ open' = Append(open, it)
          /\ todo' = AutoFiles(Stmt.name) \o [Next1 EXCEPT ![1].depth = @ + 1]
          /\ doing' = Append(doing, <<Stmt.name, Stmt.params>>)
          /\ UNCHANGED <<files, state, want>>

CloseBlock ==
    /\ Reading("close")
    /\ \/ /\ Cur.depth = 0
          /\ Die
       \/ /\ Cur.depth > 0
          /\ open' = SubSeq(open, 1, Len(open) - 1)
          /\ doing' = SubSeq(doing, 1, Len(doing) - 1)
          /\ todo' = [Next1 EXCEPT ![1].depth = @ - 1]
          /\ UNCHANGED <<files, items, state, want>>

(* The effect of a statement on the values, for whatever has been said     *)
(* about the config: the reference the items are compared with.            *)
Key(s) == <<doing, s.name>>
SaidVector(old, from, vals) ==
    LET ends == [j \in 0..Len(vals) |-> FoldLeft(+, from, [k \in 1..j |-> vals[k].n])] IN
    [i \in (DOMAIN old) \cup (from..(ends[Len(vals)] - 1)) |->
        IF i \in from..(ends[Len(vals)] - 1)
        THEN vals[CHOOSE j \in 1..Len(vals) : i \in ends[j - 1]..(ends[j] - 1)].v
        ELSE old[i]]
Said(s) ==
    LET old == IF Key(s) \in DOMAIN want THEN want[Key(s)] ELSE << >> IN
    [k \in (DOMAIN want) \cup {Key(s)} |->
       IF k # Key(s) THEN want[k]
       ELSE IF s.vals = << >> THEN [i \in {0} |-> NoValue]
       ELSE SaidVector(old, IF s.idx < 0 THEN 0 ELSE s.idx, s.vals)]

(* parser_push_config and parse_value. The source of the config becomes    *)
(* the file that sets it; a single index is not checked for repetition.    *)
SetConfig ==
    /\ Reading("set")
    /\ LET hit == {k \in Children(Inside) :
                     items[k].kind = "config" /\ items[k].name = Stmt.name} IN
       \/ /\ hit # {} /\ Stmt.idx < 0 /\ ~NotTwice(Lowest(hit))
          /\ Die
       \/ /\ hit # {} /\ Stmt.idx < 0 => NotTwice(Lowest(hit))
          /\ items' =
               IF hit # {}
               THEN [items EXCEPT ![Lowest(hit)].scal = Value(@, Stmt),
                                  ![Lowest(hit)].src = Cur.file]
               ELSE Append(items, [in |-> Inside, kind |-> "config", name |-> Stmt.name,
                                   scal |-> Value(<< >>, Stmt), src |-> Cur.file])
          /\ want' = Said(Stmt)
          /\ todo' = Next1
          /\ UNCHANGED <<files, open, state, doing>>

LoadNext ==
    EndFile \/ IncludeFile \/ SimpleBlock \/ OpenBlock \/ CloseBlock \/ SetConfig

LoadSpec == LoadInit /\ [][LoadNext]_loadVars
------------------------------------------------------------------------------
RECURSIVE PathOf(_)
PathOf(k) ==
    IF k = 0 THEN << >>
    ELSE Append(PathOf(items[k].in), <<items[k].name, items[k].scal>>)

Configs == {k \in 1..Len(items) : items[k].kind = "config"}

(* The tree holds what the statements of all files say, in the order in    *)
(* which they are read, and nothing else: every config named in a block of *)
(* given name and parameters exists once, with the values given last at    *)
(* each index, wherever the block was opened (parser_push_block,           *)
(* block_find_matching, parser_push_config, scalar_get).                   *)
TreeSaysWhatFilesSay ==
    /\ \A k \in Configs :
         LET key == <<PathOf(items[k].in), items[k].name>>
             l == items[k].scal IN
         /\ key \in DOMAIN want
         /\ DOMAIN want[key] = {l[j].i : j \in 1..Len(l)}
         /\ \A j \in 1..Len(l) : want[key][l[j].i] = l[j].v
    /\ Cardinality(Configs) = Cardinality(DOMAIN want)

(* Statements of a file, each with the blocks it is in. *)
BlocksAt(f, n) ==
    LET opens == {k \in 1..(n - 1) : files[f][k].k = "open"}
        Closed(k) == \E c \in (k + 1)..(n - 1) :
                       /\ files[f][c].k = "close"
                       /\ Cardinality({x \in k..c : files[f][x].k = "open"})
                          = Cardinality({x \in k..c : files[f][x].k = "close"})
        still == {k \in opens : ~Closed(k)} IN
    {<<files[f][k].name, files[f][k].params>> : k \in still}

Like(s, t) ==
    /\ s.k = t.k /\ s.k \in {"open", "set"} /\ s.name = t.name
    /\ s.k = "open" => s.params = t.params
    /\ s.k = "set" => t.idx < 0

(* The same config, or the same block, twice in the same blocks of a file. *)
Repeats ==
    \E f \in DOMAIN files : \E m, n \in 1..Len(files[f]) :
       /\ m < n /\ Like(files[f][m], files[f][n])
       /\ BlocksAt(f, m) = BlocksAt(f, n)

Opens(f, name) == \E n \in 1..Len(files[f]) :
                     files[f][n].k = "open" /\ files[f][n].name = name
ReadTwice ==
    \/ \E f, g \in DOMAIN files : f # g /\ \E name \in DOMAIN Auto :
         Auto[name] # << >> /\ Opens(f, name) /\ Opens(g, name)
    \/ \E f, g \in DOMAIN files : \E m \in 1..Len(files[f]), n \in 1..Len(files[g]) :
         /\ <<f, m>> # <<g, n>>
         /\ files[f][m].k = "include" /\ files[g][n].k = "include"
         /\ files[f][m].name = files[g][n].name

(* Dead at a statement that is said to be a duplicate. *)
TakenForDuplicate ==
    /\ state = "dead" /\ todo # << >> /\ Left
    /\ Stmt.k \in {"open", "set"} /\ Len(open) < BlockDepth

(* Files that say nothing twice, and that make no file be read twice,      *)
(* load: the duplicate checks of block_find_matching and                   *)
(* parser_push_config take no overwriting of one file by another for a     *)
(* copy-paste error.                                                       *)
OverwritingLoads == TakenForDuplicate => Repeats \/ ReadTwice

(* config.c, parser_push_block: "in case different files should overwrite  *)
(* configs". A block of one file can be opened again by another.           *)
ReopeningLoads == TakenForDuplicate => Repeats

(* config.c, parser_push_block: "do not allow matching of configs in one   *)
(* file, that's typically a copy-paste error".                             *)
RepetitionIsCaught == state = "loaded" => ~Repeats
=============================================================================
