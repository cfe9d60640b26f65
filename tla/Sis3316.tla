------------------------------- MODULE Sis3316 -------------------------------
(***************************************************************************)
(* The driver of the SIS 3316 digitizer. The hits of all channels go to    *)
(* one of two banks while the other is read. Banks are swapped by the      *)
(* driver in the dead time, once the bank has a hit (mode "sync") or       *)
(* whatever it has ("async"), or by the module when it is full, which      *)
(* gives the trigger ("auto").                                             *)
(***************************************************************************)
EXTENDS Integers, Sequences, SequencesExt

CONSTANTS Channels  \* channels to read

Word(k, g, id) == [k |-> k, g |-> g, id |-> id]

(* A hit: the channel, the end of its header, and a sample.                *)
Form == <<"header", "end", "sample">>
HitWords == Len(Form)
Words(id) == FlattenSeq([ch \in 1..Channels |->
                            [j \in 1..HitWords |-> Word(Form[j], ch, id)]])

(* A bank stops to sample when it has enough, here one hit; one that is    *)
(* not armed does not sample at all. In mode "auto" bank is the last full  *)
(* one.                                                                    *)
Sampled(mode, m, bank, words) ==
    CASE mode = "sync" -> IF bank = << >> THEN words ELSE bank
      [] mode = "async" -> IF m.armed THEN bank \o words ELSE bank
      [] mode = "auto" -> words

(* sis_3316_post_init: the second bank is armed.                           *)
PostInit == [ec |-> 0, seen |-> 0, bank |-> 1, armed |-> TRUE]
\* the module's bank after n of its switches
SamplingBank(n) == (n + 1) % 2

(* sis_3316_readout_dt, with hits, or switches, counted by the module.     *)
SwapBanks(m) == [m EXCEPT !.bank = 1 - @, !.armed = TRUE]
ReadoutDt(mode, m, count, bank) ==
    CASE mode = "sync" -> IF bank = << >> THEN m
                          ELSE [SwapBanks(m) EXCEPT !.ec = count]
      [] mode = "async" -> [SwapBanks(m) EXCEPT !.ec = @ + 1]
      [] mode = "auto" -> [m EXCEPT !.ec = @ + 1, !.bank = SamplingBank(count)]

(* It asks for the counter until it is the one expected.                   *)
Answers(mode, m, count, bank) ==
    mode = "sync" /\ bank # << >> => count = m.ec + 1

-----------------------------------------------------------------------------
(* sis_3316_test_channel and, with the check level "paranoid",             *)
(* sis_3316_check_channel_data.                                            *)
Expected(mode, part) == mode = "sync" => Len(part) = HitWords
HitsAreWhole(part) ==
    /\ Len(part) % HitWords = 0
    /\ \A j \in DOMAIN part : part[j].k = Form[((j - 1) % HitWords) + 1]

(* sis_3316_readout. In mode "auto" the last full bank is there to be read *)
(* until the next is, also when the dead time has seen no switch; "async"  *)
(* disarms the bank that was swapped in.                                   *)
ReadChannel(mode, r, part) ==
    IF r.res # {} THEN r
    ELSE IF ~Expected(mode, part) THEN [r EXCEPT !.res = {"too_much"}]
    ELSE [r EXCEPT !.out = @ \o part,
                   !.res = IF HitsAreWhole(part) THEN {} ELSE {"die"}]

Read(mode, m, bank) ==
    LET ofChannel(ch) == SelectSeq(bank, LAMBDA w : w.g = ch)
        r == FoldLeft(LAMBDA s, ch : ReadChannel(mode, s, ofChannel(ch)),
                      [out |-> << >>, res |-> {}], [ch \in 1..Channels |-> ch])
    IN [out |-> r.out, res |-> r.res,
        rest |-> IF mode = "auto" THEN bank ELSE << >>,
        m |-> IF mode = "async" THEN [m EXCEPT !.armed = FALSE] ELSE m]

(* sis_3316_parse_data counts the event of mode "async" again.             *)
Parse(mode, m) ==
    [res |-> {}, m |-> IF mode = "async" THEN [m EXCEPT !.ec = @ + 1] ELSE m]
=============================================================================
